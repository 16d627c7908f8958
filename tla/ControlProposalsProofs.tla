----------------------- MODULE ControlProposalsProofs -----------------------
(***************************************************************************)
(* Control proposals, for any number of requests, executors, branches and   *)
(* commits: a proposal is exactly what was asked for, a success is on its   *)
(* branch, and a merge is a step that the Task policy permits.              *)
(*                                                                         *)
(* The invariant has two parts.  WorldFits is about the repository alone:   *)
(* where each branch begins, what its own commit is and what its worktree   *)
(* may hold.  CallFits is about one call and the branch that it works on.   *)
(* A step changes the repository in one of eight ways; for each there is a  *)
(* lemma on the repository and one on the calls that do not make the step.  *)
(***************************************************************************)
EXTENDS ControlProposals, SequenceTheorems, TLAPS

-----------------------------------------------------------------------------
(* The repository as one record: the requests of the operations that have   *)
(* begun, and the commits, branches and worktrees.                          *)

Asked == [o \in Operations |-> journal[o].request]
World == [asked |-> Asked, commits |-> commits, main |-> main,
          branch |-> branch, place |-> place]

TreeIn(w, n) == w.commits[n].tree
PastIn(w, n) == w.commits[n].past \cup {n}
Merged(w) == PastIn(w, w.main)
Commits(w) == 1 .. Len(w.commits)
ProposalIn(w, n) == w.commits[n].op \in Operations
RequestIn(w, n) == w.asked[w.commits[n].op]
Begun(w, o) == w.asked[o] # NoRequest

(* A branch has its own proposal, or is still at its root.                  *)
Own(w, b) ==
    /\ w.branch[b] # 0
    /\ ProposalIn(w, w.branch[b])
    /\ RequestIn(w, w.branch[b]).branch = b
Root(w, b) == IF Own(w, b) THEN w.commits[w.branch[b]].base ELSE w.branch[b]
RootTree(w, b) == TreeIn(w, Root(w, b))

IsBootstrap(r) == r.command \in BootstrapCommands
With(r, tree) == [s \in Slots |-> IF s = r.slot THEN r.value ELSE tree[s]]

(* The Task or policy request has nothing to do on this tree.               *)
Done(r, tree) ==
    IF r.command = "task.cancel" THEN tree[r.slot].state = "canceled"
    ELSE tree[r.slot] = r.value

(* What task_update and task_cancel permit.                                 *)
May(r, tree) ==
    /\ r.command = "task.update" => Updates(tree[r.slot], r.value)
    /\ r.command = "task.cancel" => Cancels(tree[r.slot])

(* What the client saw is what is there.                                    *)
AsSeen(r, tree) ==
    /\ r.command = "task.create" => tree[r.slot] = Absent
    /\ r.command \in {"task.update", "task.cancel"} => tree[r.slot] = r.expected
Legal(r, tree) == AsSeen(r, tree) /\ May(r, tree) /\ ~ Done(r, tree)

-----------------------------------------------------------------------------
(* The invariant of the repository.                                         *)

IsTree(t) == t = [s \in Slots |-> t[s]]
TaskFits(v) == v = Absent \/ v.state \in DOMAIN Transitions
TreeFits(t) ==
    /\ IsTree(t)
    /\ \A s \in TaskSlots : TaskFits(t[s])
    /\ t["record"].state = "managed" => t["config"].at = t["record"].at

AskedFits(w) ==
    /\ w.asked = [o \in Operations |-> w.asked[o]]
    /\ \A o \in Operations :
          Begun(w, o) =>
              /\ w.asked[o] \in Requests /\ w.asked[o].op = o
              /\ w.asked[o].command \notin TaskCommands => w.asked[o].base \in Commits(w)

CommitFits(w, n) ==
    /\ w.commits[n].past \subseteq 1 .. n - 1
    /\ \A m \in w.commits[n].past : w.commits[m].past \subseteq w.commits[n].past
    /\ TreeFits(TreeIn(w, n))
    /\ ProposalIn(w, n) \/ n \in Merged(w)
HistoryFits(w) ==
    /\ \E S : w.commits \in Seq(S)
    /\ w.main \in Commits(w)
    /\ \A n \in Commits(w) : CommitFits(w, n)

(* Only a managed Project has Task and policy commands.                     *)
ManagedFits(w) ==
    \A o \in Operations :
        Begun(w, o) /\ ~ IsBootstrap(w.asked[o]) =>
            TreeIn(w, w.main)["record"].state = "managed"

BootstrapProposal(w, n) == ProposalIn(w, n) /\ RequestIn(w, n).command = "bootstrap.propose"

(* Where a branch begins.                                                   *)
RootFits(w, r, n) ==
    /\ n \in Commits(w)
    /\ r.command # "bootstrap.accept" => n \in Merged(w)
    /\ r.command \in PolicyCommands \cup {"bootstrap.accept"} => n = r.base
    /\ r.command = "bootstrap.accept" => n \in Merged(w) \/ BootstrapProposal(w, n)
    /\ ~ IsBootstrap(r) => TreeIn(w, n)["record"].state = "managed"

(* The inputs that a bootstrap command has verified.                        *)
InputsFit(w, r, version) ==
    /\ version \in Sources
    /\ r.base \in Commits(w)
    /\ r.command = "bootstrap.propose" => TreeIn(w, r.base)["record"] = Absent
    /\ r.command = "bootstrap.accept" => Holds(TreeIn(w, r.base), Manifest(version))

(* What a proposal proposes.                                                *)
Proposes(w, r, base, tree) ==
    IF IsBootstrap(r)
    THEN \E version \in Sources :
            /\ InputsFit(w, r, version)
            /\ tree = Over(Changes(r, version), TreeIn(w, base))
    ELSE Legal(r, TreeIn(w, base)) /\ tree = With(r, TreeIn(w, base))

ProposalFits(w, n) ==
    LET r == RequestIn(w, n)
        base == w.commits[n].base
    IN  /\ r # NoRequest
        /\ r \notin Denied
        /\ w.branch[r.branch] = n
        /\ base \in 1 .. n - 1
        /\ w.commits[n].past = PastIn(w, base)
        /\ r.command \notin TaskCommands => base = r.base
        /\ RootFits(w, r, base)
        /\ Proposes(w, r, base, TreeIn(w, n))
ProposalsFit(w) ==
    \A n \in Commits(w) : ProposalIn(w, n) => ProposalFits(w, n)

BranchesFit(w) ==
    /\ w.branch = [b \in Branches |-> w.branch[b]]
    /\ \A b \in Branches :
          w.branch[b] # 0 =>
              /\ w.branch[b] \in Commits(w)
              /\ \E o \in Operations : Begun(w, o) /\ w.asked[o].branch = b
    /\ \A o \in Operations :
          Begun(w, o) /\ w.branch[w.asked[o].branch] # 0 =>
              RootFits(w, w.asked[o], Root(w, w.asked[o].branch))

(* A worktree holds its branch's commit, with what its operation writes.    *)
PlaceFits(w, r) ==
    LET tree == w.place[r.branch].tree
        root == RootTree(w, r.branch)
    IN  /\ IsTree(tree)
        /\ Own(w, r.branch) => tree = TreeIn(w, w.branch[r.branch])
        /\ IsBootstrap(r) =>
              /\ ~ w.place[r.branch].litter
              /\ \A s \in Slots \ {"config", "record"} : tree[s] = root[s]
        /\ ~ IsBootstrap(r) =>
              \/ tree = root
              \/ /\ tree = With(r, root)
                 /\ ~ w.place[r.branch].litter
                 /\ Legal(r, root)
PlacesFit(w) ==
    /\ w.place = [b \in Branches |-> [there |-> w.place[b].there,
                    tree |-> w.place[b].tree, litter |-> w.place[b].litter]]
    /\ \A b \in Branches : w.place[b].there => w.branch[b] # 0
    /\ \A o \in Operations :
          Begun(w, o) /\ w.place[w.asked[o].branch].there => PlaceFits(w, w.asked[o])

WorldFits(w) ==
    /\ AskedFits(w) /\ HistoryFits(w) /\ ManagedFits(w)
    /\ ProposalsFit(w) /\ BranchesFit(w) /\ PlacesFit(w)

-----------------------------------------------------------------------------
(* The invariant of a call.                                                 *)

Locked == {"base", "worktree", "attach", "scope", "write", "replace",
           "recapture", "status", "commit", "verify"}
Holding(c) ==
    /\ c.pc \in Locked
    /\ c.req.command \in TaskCommands => c.pc = "replace"
Placed == {"scope", "write", "replace", "recapture", "status", "commit", "verify"}

CallBegun(c, w) ==
    /\ c.req # NoRequest
    /\ c.req.op \in Operations
    /\ w.asked[c.req.op] = c.req
    /\ c.pc \in Locked \cup {"lock"} => c.req \notin Denied

(* Which commands come where, and what their branch has.                    *)
CallPlace(c, w) ==
    /\ c.pc \in {"replace", "status"} => ~ IsBootstrap(c.req)
    /\ c.pc = "recapture" => IsBootstrap(c.req)
    /\ c.pc = "worktree" /\ w.branch[c.req.branch] = 0 =>
          RootFits(w, c.req, c.seen.head)
    /\ c.pc = "attach" => /\ w.branch[c.req.branch] # 0
                          /\ ~ w.place[c.req.branch].there
    /\ c.pc \in Placed => w.place[c.req.branch].there

(* A Task or policy command, about to write, to commit and to report.       *)
CallWork(c, w) ==
    LET r == c.req
        root == RootTree(w, r.branch)
        tree == w.place[r.branch].tree
    IN  ~ IsBootstrap(r) =>
        /\ c.pc = "write" /\ r.command \in TaskCommands =>
              May(r, root) /\ (r.command # "task.create" => ~ Done(r, root))
        /\ (\/ c.pc = "replace"
            \/ c.pc = "write" /\ r.command \in PolicyCommands)
           => tree = root /\ Legal(r, root)
        /\ c.pc \in {"status", "commit"} => Done(r, tree)
        /\ c.pc = "commit" => IF c.seen.dirty THEN tree # root
                              ELSE Own(w, r.branch) \/ Done(r, root)
        /\ c.pc = "verify" => Own(w, r.branch) \/ Done(r, root)

(* A bootstrap command, from the verification of its inputs.                *)
CallInputs(c, w) ==
    LET r == c.req
        tree == w.place[r.branch].tree
    IN  IsBootstrap(r) =>
        /\ c.pc \in Locked \ {"base", "verify"} =>
              /\ InputsFit(w, r, c.seen.source)
              /\ c.seen = Snapshot(c.seen.head, c.seen.main, c.seen.source, c.seen.dirty)
        /\ c.pc \in {"write", "recapture", "commit"} => w.branch[r.branch] = r.base
        /\ c.pc \in {"recapture", "commit"} => Holds(tree, Changes(r, c.seen.source))
        /\ c.pc = "commit" => c.seen.dirty
        /\ c.pc = "verify" => /\ w.branch[r.branch] # 0
                              /\ w.commits[w.branch[r.branch]].op = r.op

(* What a result says of the branch.                                        *)
VerdictFits(w, r, verdict) ==
    /\ verdict = "proposal_prepared" =>
          w.branch[r.branch] # 0 /\ w.commits[w.branch[r.branch]].op = r.op
    /\ verdict = "no_change" /\ r.command # "task.update" =>
          /\ ~ IsBootstrap(r)
          /\ w.branch[r.branch] # 0
          /\ Done(r, RootTree(w, r.branch))

CallFits(c, w) ==
    c.pc # "idle" =>
        /\ CallBegun(c, w) /\ CallPlace(c, w) /\ CallWork(c, w) /\ CallInputs(c, w)
        /\ c.pc \in {"effect", "finish"} => VerdictFits(w, c.req, c.verdict)

RowFits(e, w) ==
    /\ e.state = "absent" <=> e.request = NoRequest
    /\ e.request = NoRequest => e.result = "none"
    /\ e.request # NoRequest => VerdictFits(w, e.request, e.result)

Inv ==
    /\ exec = [x \in Executors |-> exec[x]]
    /\ journal = [o \in Operations |-> journal[o]]
    /\ lock = [b \in Branches |-> lock[b]]
    /\ source \in Sources
    /\ WorldFits(World)
    /\ \A x \in Executors : CallFits(exec[x], World)
    /\ \A o \in Operations : RowFits(journal[o], World)
    /\ \A x \in Executors :
          Holding(exec[x]) => lock[exec[x].req.branch] = x
    /\ \A x, y \in Executors :
          x # y /\ exec[x].pc = "attach" /\ exec[y].pc = "attach" =>
              exec[x].req.branch # exec[y].req.branch

-----------------------------------------------------------------------------
(* Changes and trees.                                                       *)

LEMMA ManifestIs ==
    ASSUME NEW n
    PROVE  /\ DOMAIN Manifest(n) = {"config", "record"}
           /\ Manifest(n)["config"] = Value("init", n)
           /\ Manifest(n)["record"] = Value("bootstrapping", n)
BY DEF Manifest

LEMMA AcceptedIs ==
    ASSUME NEW n
    PROVE  /\ DOMAIN Accepted(n) = {"config", "record"}
           /\ Accepted(n)["config"] = Value("init", n)
           /\ Accepted(n)["record"] = Value("managed", n)
BY ManifestIs DEF Accepted, Value, Manifest

LEMMA ChangesOfBootstrap ==
    ASSUME NEW r, IsBootstrap(r), NEW n
    PROVE  /\ Changes(r, n) = IF r.command = "bootstrap.propose"
                              THEN Manifest(n) ELSE Accepted(n)
           /\ DOMAIN Changes(r, n) = {"config", "record"}
           /\ Changes(r, n)["config"] = Value("init", n)
           /\ Changes(r, n)["record"] =
                 Value(IF r.command = "bootstrap.propose"
                       THEN "bootstrapping" ELSE "managed", n)
<1>1. r.command = "bootstrap.propose" \/ r.command = "bootstrap.accept"
  BY DEF IsBootstrap, BootstrapCommands
<1>2. Changes(r, n) = IF r.command = "bootstrap.propose"
                      THEN Manifest(n) ELSE Accepted(n)
  BY <1>1 DEF Changes
<1> QED BY <1>1, <1>2, ManifestIs, AcceptedIs

LEMMA ChangesOfOther ==
    ASSUME NEW r, ~ IsBootstrap(r), NEW n
    PROVE  /\ Changes(r, n) = [s \in {r.slot} |-> r.value]
           /\ \A tree : Over(Changes(r, n), tree) = With(r, tree)
           /\ \A tree : Holds(tree, Changes(r, n)) <=> tree[r.slot] = r.value
<1>1. Changes(r, n) = [s \in {r.slot} |-> r.value]
  BY DEF Changes, IsBootstrap, BootstrapCommands
<1>2. \A tree : Over(Changes(r, n), tree) = With(r, tree)
  BY <1>1 DEF Over, With
<1> QED BY <1>1, <1>2 DEF Holds

(* A tree with a bootstrap's changes and nothing else.                      *)
LEMMA BootstrapTree ==
    ASSUME NEW r, IsBootstrap(r), NEW n, NEW tree, NEW root, IsTree(tree),
           Holds(tree, Changes(r, n)),
           \A s \in Slots \ {"config", "record"} : tree[s] = root[s]
    PROVE  tree = Over(Changes(r, n), root)
<1>1. \A s \in Slots : tree[s] = Over(Changes(r, n), root)[s]
  BY ChangesOfBootstrap DEF Over, Holds
<1>2. tree = [s \in Slots |-> tree[s]]
  BY DEF IsTree
<1>3. Over(Changes(r, n), root) = [s \in Slots |-> Over(Changes(r, n), root)[s]]
  BY DEF Over
<1> QED BY <1>1, <1>2, <1>3

LEMMA OverTree ==
    ASSUME NEW changes, NEW tree
    PROVE  /\ IsTree(Over(changes, tree))
           /\ \A s \in Slots : Over(changes, tree)[s] =
                 IF s \in DOMAIN changes THEN changes[s] ELSE tree[s]
BY DEF Over, IsTree

LEMMA WithTree ==
    ASSUME NEW r, NEW tree
    PROVE  /\ IsTree(With(r, tree))
           /\ \A s \in Slots : With(r, tree)[s] = IF s = r.slot THEN r.value ELSE tree[s]
BY DEF With, IsTree

(* The slots of a Task or policy request.                                   *)
LEMMA OtherSlot ==
    ASSUME NEW r \in Requests, ~ IsBootstrap(r)
    PROVE  /\ r.slot \in Slots \ {"config", "record"}
           /\ r.command \in TaskCommands => r.slot \in TaskSlots
           /\ r.command \notin TaskCommands => r.slot \notin TaskSlots
           /\ r.command \notin TaskCommands => r.command \in PolicyCommands
BY SlotAssumption, ControlRequestAssumption
   DEF IsBootstrap, BootstrapCommands, PolicyCommands, TaskCommands

(* What was asked for is done when it is applied, and changes the tree.     *)
LEMMA WithIsDone ==
    ASSUME NEW r \in Requests, ~ IsBootstrap(r), NEW tree
    PROVE  Done(r, With(r, tree))
BY WithTree, OtherSlot, ControlRequestAssumption DEF Done

LEMMA LegalChanges ==
    ASSUME NEW r \in Requests, ~ IsBootstrap(r), NEW tree, Legal(r, tree)
    PROVE  With(r, tree) # tree
BY WithIsDone DEF Legal

LEMMA TransitionsClosed ==
    ASSUME NEW a \in DOMAIN Transitions
    PROVE  /\ a \in Transitions[a]
           /\ Transitions[a] \subseteq DOMAIN Transitions
           /\ a # "done" => "canceled" \in Transitions[a]
           /\ "planned" \in DOMAIN Transitions
           /\ "canceled" \in DOMAIN Transitions
           /\ "absent" \notin DOMAIN Transitions
BY DEF Transitions

(* A Task command is a permitted transition of its Task.                    *)
LEMMA LegalTask ==
    ASSUME NEW r \in Requests, r.command \in TaskCommands,
           NEW tree, TreeFits(tree), Legal(r, tree)
    PROVE  /\ TaskFits(r.value)
           /\ tree[r.slot] = Absent => r.value.state = "planned"
           /\ tree[r.slot] # Absent => r.value.state \in Transitions[tree[r.slot].state]
<1>1. r.slot \in TaskSlots /\ TaskFits(tree[r.slot])
  BY ControlRequestAssumption DEF TreeFits
<1>2. CASE r.command = "task.create"
  BY <1>1, <1>2, ControlRequestAssumption, TransitionsClosed
     DEF Legal, AsSeen, TaskFits, Transitions
<1>3. CASE r.command = "task.update"
  BY <1>1, <1>3, TransitionsClosed DEF Legal, May, Updates, TaskFits
<1>4. CASE r.command = "task.cancel"
  BY <1>1, <1>4, ControlRequestAssumption, TransitionsClosed
     DEF Legal, May, Cancels, TaskFits
<1> QED BY <1>2, <1>3, <1>4 DEF TaskCommands

LEMMA WithFits ==
    ASSUME NEW r \in Requests, ~ IsBootstrap(r), NEW tree, TreeFits(tree), Legal(r, tree)
    PROVE  TreeFits(With(r, tree))
<1>1. \A s \in TaskSlots : TaskFits(With(r, tree)[s])
  BY WithTree, OtherSlot, LegalTask, SlotAssumption DEF TreeFits
<1>2. With(r, tree)["record"] = tree["record"] /\ With(r, tree)["config"] = tree["config"]
  BY WithTree, OtherSlot, SlotAssumption
<1> QED BY <1>1, <1>2, WithTree DEF TreeFits

LEMMA BootstrapFits ==
    ASSUME NEW r, IsBootstrap(r), NEW n, NEW tree, TreeFits(tree)
    PROVE  TreeFits(Over(Changes(r, n), tree))
<1> DEFINE new == Over(Changes(r, n), tree)
<1>1. \A s \in Slots : new[s] = IF s \in {"config", "record"} THEN Changes(r, n)[s] ELSE tree[s]
  BY OverTree, ChangesOfBootstrap
<1>2. \A s \in TaskSlots : TaskFits(new[s])
  BY <1>1, SlotAssumption DEF TreeFits
<1>3. /\ new["config"] = Changes(r, n)["config"]
      /\ new["record"] = Changes(r, n)["record"]
  BY <1>1, SlotAssumption
<1>a. \A state : Value(state, n).at = n
  BY DEF Value
<1>b. Changes(r, n)["config"].at = n /\ Changes(r, n)["record"].at = n
  BY <1>a, ChangesOfBootstrap
<1>4. new["config"].at = n /\ new["record"].at = n
  BY <1>3, <1>b
<1> QED BY <1>2, <1>4, OverTree DEF TreeFits

-----------------------------------------------------------------------------
(* What a later repository keeps.                                           *)

Later(w, v) ==
    /\ \A o \in Operations : Begun(w, o) => v.asked[o] = w.asked[o]
    /\ Commits(w) \subseteq Commits(v)
    /\ \A n \in Commits(w) : v.commits[n] = w.commits[n]
    /\ Merged(w) \subseteq Merged(v)
SameBranch(w, v, b) == v.branch[b] = w.branch[b] /\ v.place[b] = w.place[b]

LEMMA RequestKept ==
    ASSUME NEW w, NEW v, WorldFits(w), Later(w, v), NEW n \in Commits(w)
    PROVE  /\ TreeIn(v, n) = TreeIn(w, n) /\ v.commits[n] = w.commits[n]
           /\ PastIn(v, n) = PastIn(w, n)
           /\ ProposalIn(v, n) <=> ProposalIn(w, n)
           /\ ProposalIn(w, n) => RequestIn(v, n) = RequestIn(w, n)
BY DEF WorldFits, ProposalsFit, ProposalFits, ProposalIn, RequestIn, TreeIn, PastIn,
       Later, Begun

LEMMA BeginsAtCommit ==
    ASSUME NEW w, WorldFits(w), NEW b \in Branches
    PROVE  /\ w.branch[b] # 0 => w.branch[b] \in Commits(w) /\ Root(w, b) \in Commits(w)
           /\ w.branch[b] = 0 => Root(w, b) = 0
<1>1. CASE Own(w, b)
  <2>1. w.branch[b] # 0 /\ w.branch[b] \in Commits(w) /\ ProposalIn(w, w.branch[b])
    BY <1>1 DEF Own, WorldFits, BranchesFit
  <2>2. w.commits[w.branch[b]].base \in 1 .. w.branch[b] - 1
    BY <2>1 DEF WorldFits, ProposalsFit, ProposalFits
  <2>3. Len(w.commits) \in Nat
    BY DEF WorldFits, HistoryFits
  <2>4. w.commits[w.branch[b]].base \in Commits(w)
    BY <2>1, <2>2, <2>3 DEF Commits
  <2> QED BY <1>1, <2>1, <2>4 DEF Root
<1>2. CASE ~ Own(w, b)
  BY <1>2 DEF Root, WorldFits, BranchesFit
<1> QED BY <1>1, <1>2

LEMMA RootKept ==
    ASSUME NEW w, NEW v, WorldFits(w), Later(w, v), NEW b \in Branches,
           v.branch[b] = w.branch[b]
    PROVE  /\ Own(v, b) <=> Own(w, b)
           /\ Root(v, b) = Root(w, b)
           /\ w.branch[b] # 0 => RootTree(v, b) = RootTree(w, b)
<1>1. CASE w.branch[b] = 0
  BY <1>1 DEF Own, Root
<1>2. CASE w.branch[b] # 0
  <2>1. w.branch[b] \in Commits(w) /\ Root(w, b) \in Commits(w)
    BY <1>2, BeginsAtCommit
  <2>2. Own(v, b) <=> Own(w, b)
    BY <1>2, <2>1, RequestKept DEF Own
  <2>3. Root(v, b) = Root(w, b)
    BY <2>1, <2>2, RequestKept DEF Root
  <2> QED BY <2>1, <2>2, <2>3, RequestKept DEF RootTree
<1> QED BY <1>1, <1>2

LEMMA RootFitsKept ==
    ASSUME NEW w, NEW v, WorldFits(w), Later(w, v), NEW r, NEW n, RootFits(w, r, n)
    PROVE  RootFits(v, r, n)
<1>1. n \in Commits(w) /\ n \in Commits(v)
  BY DEF RootFits, Later
<1>2. BootstrapProposal(w, n) => BootstrapProposal(v, n)
  BY <1>1, RequestKept DEF BootstrapProposal
<1>3. n \in Merged(w) => n \in Merged(v)
  BY DEF Later
<1> QED BY <1>1, <1>2, <1>3, RequestKept DEF RootFits

LEMMA InputsKept ==
    ASSUME NEW w, NEW v, WorldFits(w), Later(w, v), NEW r, NEW n, InputsFit(w, r, n)
    PROVE  InputsFit(v, r, n)
<1>1. r.base \in Commits(w) /\ r.base \in Commits(v)
  BY DEF InputsFit, Later
<1> QED BY <1>1, RequestKept DEF InputsFit

LEMMA VerdictKept ==
    ASSUME NEW w, NEW v, WorldFits(w), Later(w, v), NEW r, r.branch \in Branches,
           v.branch[r.branch] = w.branch[r.branch],
           NEW verdict, VerdictFits(w, r, verdict)
    PROVE  VerdictFits(v, r, verdict)
<1>1. w.branch[r.branch] # 0 => w.branch[r.branch] \in Commits(w)
  BY BeginsAtCommit
<1> QED BY <1>1, RootKept, RequestKept DEF VerdictFits

LEMMA ProposesKept ==
    ASSUME NEW w, NEW v, WorldFits(w), Later(w, v), NEW r, NEW base \in Commits(w),
           NEW tree, Proposes(w, r, base, tree)
    PROVE  Proposes(v, r, base, tree)
<1>1. TreeIn(v, base) = TreeIn(w, base)
  BY RequestKept
<1>2. CASE IsBootstrap(r)
  <2>1. PICK n : InputsFit(w, r, n) /\ tree = Over(Changes(r, n), TreeIn(w, base))
    BY <1>2 DEF Proposes
  <2>2. InputsFit(v, r, n)
    BY <2>1, InputsKept
  <2>3. n \in Sources
    BY <2>1 DEF InputsFit
  <2> QED BY <1>1, <1>2, <2>1, <2>2, <2>3 DEF Proposes
<1>3. CASE ~ IsBootstrap(r)
  BY <1>1, <1>3 DEF Proposes
<1> QED BY <1>2, <1>3

LEMMA ProposalKept ==
    ASSUME NEW w, NEW v, WorldFits(w), Later(w, v), NEW n \in Commits(w),
           ProposalIn(w, n), v.branch[RequestIn(w, n).branch] = n
    PROVE  ProposalFits(v, n)
<1> DEFINE base == w.commits[n].base
           r == RequestIn(w, n)
<1>1. ProposalFits(w, n)
  BY DEF WorldFits, ProposalsFit
<1>2. base \in Commits(w)
  BY <1>1 DEF ProposalFits, RootFits
<1>3. RootFits(v, r, base)
  BY <1>1, RootFitsKept DEF ProposalFits
<1>4. Proposes(v, r, base, TreeIn(w, n))
  BY <1>1, <1>2, ProposesKept DEF ProposalFits
<1>5. RequestIn(v, n) = r /\ v.commits[n] = w.commits[n] /\ TreeIn(v, n) = TreeIn(w, n)
      /\ PastIn(v, base) = PastIn(w, base)
  BY <1>2, RequestKept
<1> QED BY <1>1, <1>3, <1>4, <1>5 DEF ProposalFits

LEMMA PlaceKept ==
    ASSUME NEW w, NEW v, WorldFits(w), Later(w, v), NEW r, r.branch \in Branches,
           SameBranch(w, v, r.branch), w.branch[r.branch] # 0, PlaceFits(w, r)
    PROVE  PlaceFits(v, r)
<1>1. w.branch[r.branch] \in Commits(w)
  BY BeginsAtCommit
<1> QED BY <1>1, RootKept, RequestKept DEF PlaceFits, SameBranch

LEMMA CallKept ==
    ASSUME NEW w, NEW v, WorldFits(w), Later(w, v), NEW c, c.pc # "idle",
           c.req.branch \in Branches, SameBranch(w, v, c.req.branch), CallFits(c, w)
    PROVE  CallFits(c, v)
<1> DEFINE b == c.req.branch
<1>0. CallBegun(c, w) /\ CallPlace(c, w) /\ CallWork(c, w) /\ CallInputs(c, w)
      /\ (c.pc \in {"effect", "finish"} => VerdictFits(w, c.req, c.verdict))
  BY DEF CallFits
<1>1. CallBegun(c, v)
  BY <1>0 DEF CallBegun, Later, Begun
<1>2. CallPlace(c, v)
  BY <1>0, RootFitsKept DEF CallPlace, SameBranch
<1>a. c.pc \in Placed => w.branch[b] # 0
  BY <1>0 DEF CallPlace, WorldFits, PlacesFit
<1>3. CallWork(c, v)
  <2>1. CASE c.pc \in Placed
    <3>1. RootTree(v, b) = RootTree(w, b) /\ (Own(v, b) <=> Own(w, b))
          /\ v.place[b] = w.place[b]
      BY <2>1, <1>a, RootKept DEF SameBranch
    <3> QED BY <3>1, <1>0 DEF CallWork
  <2>2. CASE c.pc \notin Placed
    BY <2>2 DEF CallWork, Placed
  <2> QED BY <2>1, <2>2
<1>4. CallInputs(c, v)
  <2>1. c.pc \in {"verify"} => w.branch[b] \in Commits(w)
    BY <1>a, BeginsAtCommit DEF Placed
  <2>2. c.pc \in {"verify"} => v.commits[w.branch[b]] = w.commits[w.branch[b]]
    BY <2>1, RequestKept
  <2> QED BY <1>0, <2>2, InputsKept DEF CallInputs, SameBranch
<1>5. c.pc \in {"effect", "finish"} => VerdictFits(v, c.req, c.verdict)
  BY <1>0, VerdictKept DEF SameBranch
<1> QED BY <1>1, <1>2, <1>3, <1>4, <1>5 DEF CallFits

-----------------------------------------------------------------------------
(* The branch of an operation.                                              *)

LEMMA BranchShared ==
    ASSUME NEW w, AskedFits(w),
           NEW o \in Operations, Begun(w, o), NEW p \in Operations, Begun(w, p),
           w.asked[o].branch = w.asked[p].branch
    PROVE  LET r == w.asked[o]
               q == w.asked[p]
           IN  /\ r = q \/ (r.command = "bootstrap.propose" /\ q.command = "bootstrap.propose")
               /\ ~ IsBootstrap(r) => r = q
               /\ IsBootstrap(r) <=> IsBootstrap(q)
<1>1. /\ w.asked[o] \in Requests /\ w.asked[o].op = o
      /\ w.asked[p] \in Requests /\ w.asked[p].op = p
  BY DEF AskedFits
<1>2. o = p \/ (/\ w.asked[o].command = "bootstrap.propose"
                /\ w.asked[p].command = "bootstrap.propose")
  BY <1>1, BranchAssumption
<1> QED BY <1>2 DEF IsBootstrap, BootstrapCommands

LEMMA BranchOf ==
    ASSUME NEW w, AskedFits(w), NEW o \in Operations, Begun(w, o)
    PROVE  w.asked[o] \in Requests /\ w.asked[o].branch \in Branches /\ w.asked[o].op = o
BY ControlRequestAssumption DEF AskedFits

LEMMA OwnFits ==
    ASSUME NEW w, WorldFits(w), NEW o \in Operations, Begun(w, o),
           Own(w, w.asked[o].branch)
    PROVE  LET r == w.asked[o]
               n == w.branch[r.branch]
               q == RequestIn(w, n)
           IN  /\ n \in Commits(w) /\ ProposalIn(w, n) /\ ProposalFits(w, n)
               /\ Root(w, r.branch) = w.commits[n].base
               /\ Root(w, r.branch) \in Commits(w)
               /\ q \in Requests /\ q.branch = r.branch /\ q.op = w.commits[n].op
               /\ q = r \/ (r.command = "bootstrap.propose" /\ q.command = "bootstrap.propose")
               /\ ~ IsBootstrap(r) => q = r
               /\ IsBootstrap(r) <=> IsBootstrap(q)
<1> DEFINE r == w.asked[o]
           n == w.branch[r.branch]
<1>0. AskedFits(w) /\ r.branch \in Branches
  BY BranchOf DEF WorldFits
<1>1. n # 0 /\ ProposalIn(w, n) /\ RequestIn(w, n).branch = r.branch
  BY DEF Own
<1>2. n \in Commits(w) /\ ProposalFits(w, n)
  BY <1>0, <1>1 DEF WorldFits, ProposalsFit, BranchesFit
<1>3. Root(w, r.branch) = w.commits[n].base /\ Root(w, r.branch) \in Commits(w)
  BY <1>0, <1>1, BeginsAtCommit DEF Root
<1>4. w.commits[n].op \in Operations /\ Begun(w, w.commits[n].op)
  BY <1>1, <1>2 DEF ProposalIn, ProposalFits, RequestIn, Begun
<1>5. RequestIn(w, n) = w.asked[w.commits[n].op]
  BY DEF RequestIn
<1>7. w.asked[o].branch = w.asked[w.commits[n].op].branch
  BY <1>1, <1>5
<1> DEFINE p == w.commits[n].op
<1>b. p \in Operations /\ Begun(w, p) /\ w.asked[o].branch = w.asked[p].branch
  BY <1>4, <1>7
<1> HIDE DEF p
<1>d. w.asked[p] \in Requests /\ w.asked[p].op = p
  BY <1>0, <1>b, BranchOf
<1>6. RequestIn(w, n) \in Requests /\ RequestIn(w, n).op = w.commits[n].op
  BY <1>d, <1>5 DEF p
<1>c. /\ w.asked[o] = w.asked[p] \/ (/\ w.asked[o].command = "bootstrap.propose"
                                    /\ w.asked[p].command = "bootstrap.propose")
      /\ ~ IsBootstrap(w.asked[o]) => w.asked[o] = w.asked[p]
      /\ IsBootstrap(w.asked[o]) <=> IsBootstrap(w.asked[p])
  BY <1>0, <1>b, BranchShared
<1>8. /\ RequestIn(w, n) = r \/ (/\ r.command = "bootstrap.propose"
                                /\ RequestIn(w, n).command = "bootstrap.propose")
      /\ ~ IsBootstrap(r) => RequestIn(w, n) = r
      /\ IsBootstrap(r) <=> IsBootstrap(RequestIn(w, n))
  BY <1>c, <1>5 DEF p
<1> QED BY <1>1, <1>2, <1>3, <1>6, <1>8

(* A Task or policy proposal holds what was asked for over its root.        *)
LEMMA OwnOther ==
    ASSUME NEW w, WorldFits(w), NEW o \in Operations, Begun(w, o),
           Own(w, w.asked[o].branch), ~ IsBootstrap(w.asked[o])
    PROVE  LET r == w.asked[o]
           IN  /\ Legal(r, RootTree(w, r.branch))
               /\ TreeIn(w, w.branch[r.branch]) = With(r, RootTree(w, r.branch))
               /\ w.commits[w.branch[r.branch]].op = o
<1> DEFINE r == w.asked[o]
           n == w.branch[r.branch]
<1>1. r.op = o
  BY BranchOf DEF WorldFits
<1>2. /\ ProposalFits(w, n) /\ RequestIn(w, n) = r
      /\ Root(w, r.branch) = w.commits[n].base
      /\ RequestIn(w, n).op = w.commits[n].op
  BY OwnFits
<1>3. Proposes(w, r, Root(w, r.branch), TreeIn(w, n))
  BY <1>2 DEF ProposalFits
<1> QED BY <1>1, <1>2, <1>3 DEF Proposes, RootTree

(* The root of a bootstrap branch differs from its proposal in two slots.   *)
LEMMA OwnBootstrap ==
    ASSUME NEW w, WorldFits(w), NEW o \in Operations, Begun(w, o),
           Own(w, w.asked[o].branch), IsBootstrap(w.asked[o])
    PROVE  LET r == w.asked[o]
           IN  \A s \in Slots \ {"config", "record"} :
                  TreeIn(w, w.branch[r.branch])[s] = RootTree(w, r.branch)[s]
<1> DEFINE r == w.asked[o]
           n == w.branch[r.branch]
           q == RequestIn(w, n)
<1>a. /\ IsBootstrap(q) /\ ProposalFits(w, n)
      /\ Root(w, r.branch) = w.commits[n].base
  BY OwnFits
<1>1. IsBootstrap(q) /\ Proposes(w, q, Root(w, r.branch), TreeIn(w, n))
  BY <1>a DEF ProposalFits
<1>2. PICK version : TreeIn(w, n) = Over(Changes(q, version), RootTree(w, r.branch))
  BY <1>1 DEF Proposes, RootTree
<1> QED BY <1>1, <1>2, OverTree, ChangesOfBootstrap

-----------------------------------------------------------------------------
(* An operation begins.                                                     *)

Opens(w, v, r) ==
    /\ ~ Begun(w, r.op)
    /\ v = [w EXCEPT !.asked = [w.asked EXCEPT ![r.op] = r]]
IsWorld(w) ==
    w = [asked |-> w.asked, commits |-> w.commits, main |-> w.main,
         branch |-> w.branch, place |-> w.place]

LEMMA OpensWorld ==
    ASSUME NEW w, NEW v, IsWorld(w), WorldFits(w), NEW r \in Requests, Opens(w, v, r)
    PROVE  /\ v.commits = w.commits /\ v.main = w.main /\ v.branch = w.branch
           /\ v.place = w.place
           /\ v.asked[r.op] = r /\ r.op \in Operations /\ r # NoRequest
           /\ \A o \in Operations : o # r.op => v.asked[o] = w.asked[o]
           /\ v.asked = [o \in Operations |-> v.asked[o]]
           /\ Later(w, v)
<1>1. w.asked = [o \in Operations |-> w.asked[o]]
  BY DEF WorldFits, AskedFits
<1>2. r.op \in Operations /\ r # NoRequest
  BY RequestAssumption, NoRequestAssumption
<1>3. /\ v.commits = w.commits /\ v.main = w.main /\ v.branch = w.branch
      /\ v.place = w.place /\ v.asked = [w.asked EXCEPT ![r.op] = r]
  BY DEF Opens, IsWorld
<1>4. /\ v.asked[r.op] = r
      /\ \A o \in Operations : o # r.op => v.asked[o] = w.asked[o]
      /\ v.asked = [o \in Operations |-> v.asked[o]]
  BY <1>1, <1>2, <1>3
<1>5. Later(w, v)
  BY <1>3, <1>4 DEF Later, Opens, Commits, Merged, PastIn
<1> QED BY <1>2, <1>3, <1>4, <1>5

LEMMA OpensFits ==
    ASSUME NEW w, NEW v, IsWorld(w), WorldFits(w), NEW r \in Requests, Opens(w, v, r),
           ~ IsBootstrap(r) => TreeIn(w, w.main)["record"].state = "managed",
           r.command \notin TaskCommands => r.base \in Commits(w)
    PROVE  WorldFits(v)
<1>0. /\ v.commits = w.commits /\ v.main = w.main /\ v.branch = w.branch
      /\ v.place = w.place
      /\ v.asked[r.op] = r /\ r.op \in Operations /\ r # NoRequest
      /\ \A o \in Operations : o # r.op => v.asked[o] = w.asked[o]
      /\ v.asked = [o \in Operations |-> v.asked[o]]
      /\ Later(w, v)
  BY OpensWorld
<1>a. r.branch \in Branches
  BY ControlRequestAssumption
<1>b. /\ Commits(v) = Commits(w) /\ Merged(v) = Merged(w)
      /\ \A n : TreeIn(v, n) = TreeIn(w, n) /\ (ProposalIn(v, n) <=> ProposalIn(w, n))
  BY <1>0 DEF Commits, Merged, PastIn, TreeIn, ProposalIn
<1>1. AskedFits(v)
  BY <1>0, <1>b DEF AskedFits, WorldFits, Begun
<1>2. HistoryFits(v)
  BY <1>0, <1>b DEF HistoryFits, WorldFits, CommitFits
<1>3. ManagedFits(v)
  BY <1>0, <1>b DEF ManagedFits, WorldFits, Begun
<1>4. ProposalsFit(v)
  <2> SUFFICES ASSUME NEW n \in Commits(w), ProposalIn(w, n) PROVE ProposalFits(v, n)
    BY <1>b DEF ProposalsFit
  <2>1. w.branch[RequestIn(w, n).branch] = n
    BY DEF WorldFits, ProposalsFit, ProposalFits
  <2> QED BY <2>1, <1>0, ProposalKept
\* the branch of the new operation, when there is one, is another bootstrap's
<1>c. ASSUME v.branch[r.branch] # 0
      PROVE  \E o \in Operations :
                /\ o # r.op /\ Begun(w, o) /\ w.asked[o].branch = r.branch
                /\ w.asked[o].command = "bootstrap.propose"
                /\ r.command = "bootstrap.propose"
  <2>1. PICK o \in Operations : Begun(w, o) /\ w.asked[o].branch = r.branch
    BY <1>c, <1>0, <1>a DEF WorldFits, BranchesFit
  <2>2. o # r.op
    BY <2>1 DEF Opens
  <2>3. w.asked[o] \in Requests /\ w.asked[o].op = o
    BY <2>1 DEF WorldFits, AskedFits
  <2> QED BY <2>1, <2>2, <2>3, BranchAssumption
<1>5. BranchesFit(v)
  <2>1. v.branch = [b \in Branches |-> v.branch[b]]
    BY <1>0 DEF WorldFits, BranchesFit
  <2>2. ASSUME NEW b \in Branches, v.branch[b] # 0
        PROVE  /\ v.branch[b] \in Commits(v)
               /\ \E o \in Operations : Begun(v, o) /\ v.asked[o].branch = b
    <3>1. PICK o \in Operations : Begun(w, o) /\ w.asked[o].branch = b
      BY <2>2, <1>0 DEF WorldFits, BranchesFit
    <3>2. Begun(v, o) /\ v.asked[o].branch = b
      BY <3>1, <1>0 DEF Later, Begun
    <3> QED BY <3>2, <2>2, <1>0, <1>b DEF WorldFits, BranchesFit
  <2>3. ASSUME NEW o \in Operations, Begun(v, o), v.branch[v.asked[o].branch] # 0
        PROVE  RootFits(v, v.asked[o], Root(v, v.asked[o].branch))
    <3>1. CASE o # r.op
      <4>1. Begun(w, o) /\ v.asked[o] = w.asked[o] /\ w.asked[o].branch \in Branches
        BY <3>1, <2>3, <1>0, BranchOf DEF Begun, WorldFits
      <4>2. RootFits(w, w.asked[o], Root(w, w.asked[o].branch))
        BY <4>1, <2>3, <1>0 DEF WorldFits, BranchesFit
      <4> QED BY <4>1, <4>2, <1>0, RootFitsKept, RootKept
    <3>2. CASE o = r.op
      <4>1. PICK p \in Operations :
                /\ Begun(w, p) /\ w.asked[p].branch = r.branch
                /\ w.asked[p].command = "bootstrap.propose"
                /\ r.command = "bootstrap.propose"
        BY <1>c, <2>3, <3>2, <1>0
      <4>2. RootFits(w, w.asked[p], Root(w, r.branch))
        BY <4>1, <2>3, <3>2, <1>0 DEF WorldFits, BranchesFit
      <4>3. RootFits(w, r, Root(w, r.branch))
        BY <4>1, <4>2 DEF RootFits, IsBootstrap, BootstrapCommands, PolicyCommands
      <4> QED BY <4>3, <3>2, <1>0, <1>a, RootFitsKept, RootKept
    <3> QED BY <3>1, <3>2
  <2> QED BY <2>1, <2>2, <2>3 DEF BranchesFit
<1>6. PlacesFit(v)
  <2>1. ASSUME NEW o \in Operations, Begun(v, o), v.place[v.asked[o].branch].there
        PROVE  PlaceFits(v, v.asked[o])
    <3>1. CASE o # r.op
      <4>1. Begun(w, o) /\ v.asked[o] = w.asked[o] /\ w.asked[o].branch \in Branches
        BY <3>1, <2>1, <1>0, BranchOf DEF Begun, WorldFits
      <4>2. PlaceFits(w, w.asked[o]) /\ w.branch[w.asked[o].branch] # 0
        BY <4>1, <2>1, <1>0 DEF WorldFits, PlacesFit
      <4> QED BY <4>1, <4>2, <1>0, PlaceKept DEF SameBranch
    <3>2. CASE o = r.op
      <4>0. w.branch[r.branch] # 0
        BY <2>1, <3>2, <1>0, <1>a DEF WorldFits, PlacesFit
      <4>1. PICK p \in Operations :
                /\ Begun(w, p) /\ w.asked[p].branch = r.branch
                /\ w.asked[p].command = "bootstrap.propose"
                /\ r.command = "bootstrap.propose"
        BY <4>0, <1>c, <1>0
      <4>2. PlaceFits(w, w.asked[p])
        BY <4>1, <2>1, <3>2, <1>0 DEF WorldFits, PlacesFit
      <4>3. PlaceFits(w, r)
        BY <4>1, <4>2 DEF PlaceFits, IsBootstrap, BootstrapCommands
      <4> QED BY <4>0, <4>3, <3>2, <1>0, <1>a, PlaceKept DEF SameBranch
    <3> QED BY <3>1, <3>2
  <2> QED BY <2>1, <1>0 DEF PlacesFit, WorldFits
<1> QED BY <1>1, <1>2, <1>3, <1>4, <1>5, <1>6 DEF WorldFits

-----------------------------------------------------------------------------
(* A step beside the other branches.                                        *)

Elsewhere(w, v, b) == \A a \in Branches : a # b => SameBranch(w, v, a)
Shaped(v) ==
    /\ v.branch = [a \in Branches |-> v.branch[a]]
    /\ v.place = [a \in Branches |-> [there |-> v.place[a].there,
                    tree |-> v.place[a].tree, litter |-> v.place[a].litter]]
Beside(w, v, b) ==
    /\ v.asked = w.asked /\ v.main = w.main
    /\ Later(w, v) /\ Shaped(v) /\ Elsewhere(w, v, b)
\* what the branch must have afterwards
ProposalsAt(w, v, b) ==
    /\ \A n \in Commits(v) \ Commits(w) : ProposalIn(v, n) => ProposalFits(v, n)
    /\ \A n \in Commits(w) :
          ProposalIn(w, n) /\ RequestIn(w, n).branch = b => v.branch[b] = n
RootsAt(v, b) ==
    \A p \in Operations :
        Begun(v, p) /\ v.asked[p].branch = b => RootFits(v, v.asked[p], Root(v, b))
PlacesAt(v, b) ==
    \A p \in Operations :
        Begun(v, p) /\ v.asked[p].branch = b /\ v.place[b].there =>
            PlaceFits(v, v.asked[p])

LEMMA BesideFits ==
    ASSUME NEW w, NEW v, WorldFits(w), NEW o \in Operations, Begun(w, o),
           Beside(w, v, w.asked[o].branch), HistoryFits(v),
           v.branch[w.asked[o].branch] \in Commits(v),
           TreeIn(v, v.main) = TreeIn(w, w.main),
           ProposalsAt(w, v, w.asked[o].branch),
           RootsAt(v, w.asked[o].branch), PlacesAt(v, w.asked[o].branch)
    PROVE  WorldFits(v)
<1> DEFINE b == w.asked[o].branch
<1>a. AskedFits(w) /\ b \in Branches
  BY BranchOf DEF WorldFits
<1>b. v.branch[b] # 0 /\ v.branch[b] \in Commits(v)
  BY DEF Commits
<1>0. /\ v.asked = w.asked /\ v.main = w.main
      /\ Later(w, v) /\ Shaped(v) /\ Elsewhere(w, v, b)
  BY DEF Beside
<1>c. ProposalsAt(w, v, b) /\ RootsAt(v, b) /\ PlacesAt(v, b) /\ b = w.asked[o].branch
  OBVIOUS
<1> HIDE DEF b
<1>1. AskedFits(v)
  BY <1>0, <1>a DEF AskedFits, Begun, Later
<1>3. ManagedFits(v)
  BY <1>0 DEF ManagedFits, WorldFits, Begun
<1>4. ProposalsFit(v)
  <2> SUFFICES ASSUME NEW n \in Commits(v), ProposalIn(v, n) PROVE ProposalFits(v, n)
    BY DEF ProposalsFit
  <2>1. CASE n \notin Commits(w)
    BY <2>1, <1>c DEF ProposalsAt
  <2>2. CASE n \in Commits(w)
    <3>1. ProposalIn(w, n)
      BY <2>2, <1>0, RequestKept
    <3>2. w.branch[RequestIn(w, n).branch] = n /\ RequestIn(w, n) # NoRequest
      BY <2>2, <3>1 DEF WorldFits, ProposalsFit, ProposalFits
    <3>3. RequestIn(w, n) \in Requests
      BY <3>1, <3>2, <1>a DEF AskedFits, RequestIn, Begun, ProposalIn
    <3>4. RequestIn(w, n).branch \in Branches
      BY <3>3, ControlRequestAssumption
    <3>5. v.branch[RequestIn(w, n).branch] = n
      <4>1. CASE RequestIn(w, n).branch = b
        BY <4>1, <2>2, <3>1, <1>c DEF ProposalsAt
      <4>2. CASE RequestIn(w, n).branch # b
        BY <4>2, <3>2, <3>4, <1>0 DEF Elsewhere, SameBranch
      <4> QED BY <4>1, <4>2
    <3> QED BY <2>2, <3>1, <3>5, <1>0, ProposalKept
  <2> QED BY <2>1, <2>2
<1>5. BranchesFit(v)
  <2>1. ASSUME NEW a \in Branches, v.branch[a] # 0
        PROVE  /\ v.branch[a] \in Commits(v)
               /\ \E p \in Operations : Begun(v, p) /\ v.asked[p].branch = a
    <3>1. CASE a = b
      BY <3>1, <1>0, <1>b, <1>c DEF Begun
    <3>2. CASE a # b
      <4>1. w.branch[a] = v.branch[a]
        BY <3>2, <1>0 DEF Elsewhere, SameBranch
      <4>2. /\ w.branch[a] \in Commits(w)
            /\ \E p \in Operations : Begun(w, p) /\ w.asked[p].branch = a
        BY <4>1, <2>1 DEF WorldFits, BranchesFit
      <4> QED BY <4>1, <4>2, <1>0 DEF Begun, Later
    <3> QED BY <3>1, <3>2
  <2>2. ASSUME NEW p \in Operations, Begun(v, p), v.branch[v.asked[p].branch] # 0
        PROVE  RootFits(v, v.asked[p], Root(v, v.asked[p].branch))
    <3>0. Begun(w, p) /\ w.asked[p] = v.asked[p] /\ w.asked[p].branch \in Branches
      BY <2>2, <1>0, <1>a, BranchOf DEF Begun
    <3>1. CASE w.asked[p].branch # b
      <4>1. v.branch[w.asked[p].branch] = w.branch[w.asked[p].branch]
        BY <3>0, <3>1, <1>0 DEF Elsewhere, SameBranch
      <4>2. RootFits(w, w.asked[p], Root(w, w.asked[p].branch))
        BY <3>0, <4>1, <2>2 DEF WorldFits, BranchesFit
      <4>3. Root(v, w.asked[p].branch) = Root(w, w.asked[p].branch)
        BY <3>0, <4>1, <1>0, RootKept
      <4> QED BY <3>0, <4>2, <4>3, <1>0, RootFitsKept
    <3>2. CASE w.asked[p].branch = b
      BY <3>0, <3>2, <2>2, <1>c DEF RootsAt
    <3> QED BY <3>1, <3>2
  <2> QED BY <2>1, <2>2, <1>0 DEF BranchesFit, Shaped
<1>6. PlacesFit(v)
  <2>1. ASSUME NEW p \in Operations, Begun(v, p), v.place[v.asked[p].branch].there
        PROVE  PlaceFits(v, v.asked[p])
    <3>0. Begun(w, p) /\ w.asked[p] = v.asked[p] /\ w.asked[p].branch \in Branches
      BY <2>1, <1>0, <1>a, BranchOf DEF Begun
    <3>1. CASE w.asked[p].branch # b
      <4>1. SameBranch(w, v, w.asked[p].branch)
        BY <3>0, <3>1, <1>0 DEF Elsewhere
      <4>2. w.branch[w.asked[p].branch] # 0 /\ PlaceFits(w, w.asked[p])
        BY <3>0, <4>1, <2>1 DEF WorldFits, PlacesFit, SameBranch
      <4> QED BY <3>0, <4>1, <4>2, <1>0, PlaceKept
    <3>2. CASE w.asked[p].branch = b
      BY <3>0, <3>2, <2>1, <1>c DEF PlacesAt
    <3> QED BY <3>1, <3>2
  <2>2. \A a \in Branches : v.place[a].there => v.branch[a] # 0
    <3> SUFFICES ASSUME NEW a \in Branches, v.place[a].there PROVE v.branch[a] # 0
      OBVIOUS
    <3>1. CASE a = b
      BY <3>1, <1>b
    <3>2. CASE a # b
      BY <3>2, <1>0 DEF WorldFits, PlacesFit, Elsewhere, SameBranch
    <3> QED BY <3>1, <3>2
  <2> QED BY <2>1, <2>2, <1>0 DEF PlacesFit, Shaped
<1> QED BY <1>1, <1>3, <1>4, <1>5, <1>6 DEF WorldFits

LEMMA ElsewhereCall ==
    ASSUME NEW w, NEW v, WorldFits(w), NEW b, Beside(w, v, b),
           NEW c, c.pc # "idle", c.req.branch \in Branches, c.req.branch # b,
           CallFits(c, w)
    PROVE  CallFits(c, v)
BY CallKept DEF Beside, Elsewhere

LEMMA ElsewhereVerdict ==
    ASSUME NEW w, NEW v, WorldFits(w), NEW b, Beside(w, v, b),
           NEW r, r.branch \in Branches, r.branch # b,
           NEW verdict, VerdictFits(w, r, verdict)
    PROVE  VerdictFits(v, r, verdict)
BY VerdictKept DEF Beside, Elsewhere, SameBranch

(* No commit is made.                                                       *)
SameCommits(w, v) == v.commits = w.commits /\ v.main = w.main /\ v.asked = w.asked

LEMMA SameCommitsKept ==
    ASSUME NEW w, NEW v, WorldFits(w), SameCommits(w, v)
    PROVE  /\ Later(w, v) /\ HistoryFits(v)
           /\ TreeIn(v, v.main) = TreeIn(w, w.main)
           /\ Commits(v) = Commits(w)
           /\ \A n : /\ TreeIn(v, n) = TreeIn(w, n)
                     /\ ProposalIn(v, n) <=> ProposalIn(w, n)
                     /\ RequestIn(v, n) = RequestIn(w, n)
<1>1. /\ Commits(v) = Commits(w) /\ Merged(v) = Merged(w)
      /\ \A n : /\ TreeIn(v, n) = TreeIn(w, n)
                /\ ProposalIn(v, n) <=> ProposalIn(w, n)
                /\ RequestIn(v, n) = RequestIn(w, n)
  BY DEF SameCommits, Commits, Merged, PastIn, TreeIn, ProposalIn, RequestIn
<1>2. Later(w, v)
  BY <1>1 DEF Later, SameCommits
<1>3. HistoryFits(v)
  BY <1>1 DEF HistoryFits, WorldFits, CommitFits, SameCommits
<1> QED BY <1>1, <1>2, <1>3 DEF SameCommits

-----------------------------------------------------------------------------
(* A branch is made.                                                        *)

Starts(w, v, b) ==
    /\ w.branch[b] = 0
    /\ v = [w EXCEPT !.branch = [w.branch EXCEPT ![b] = v.branch[b]]]

LEMMA StartsWorld ==
    ASSUME NEW w, NEW v, IsWorld(w), WorldFits(w), NEW b \in Branches, Starts(w, v, b)
    PROVE  /\ SameCommits(w, v) /\ v.place = w.place
           /\ Beside(w, v, b)
<1>1. w.branch = [a \in Branches |-> w.branch[a]]
  BY DEF WorldFits, BranchesFit
<1>2. /\ SameCommits(w, v)
      /\ v.place = w.place /\ v.branch = [w.branch EXCEPT ![b] = v.branch[b]]
  BY DEF Starts, IsWorld, SameCommits
<1>3. Elsewhere(w, v, b) /\ Shaped(v)
  BY <1>1, <1>2 DEF Elsewhere, SameBranch, Shaped, WorldFits, PlacesFit
<1> QED BY <1>2, <1>3, SameCommitsKept DEF Beside, SameCommits

LEMMA StartsAtRoot ==
    ASSUME NEW w, NEW v, IsWorld(w), WorldFits(w), NEW b \in Branches,
           Starts(w, v, b), v.branch[b] \in Commits(w)
    PROVE  /\ ~ Own(v, b) /\ Root(v, b) = v.branch[b]
           /\ v.branch[b] # 0 /\ w.branch[b] = 0
<1> DEFINE n == v.branch[b]
<1>0. v.asked = w.asked /\ v.commits = w.commits
  BY StartsWorld DEF SameCommits
<1>1. n # 0 /\ w.branch[b] = 0
  BY DEF Commits, Starts
<1>2. ~ (ProposalIn(w, n) /\ RequestIn(w, n).branch = b)
  <2> SUFFICES ASSUME ProposalIn(w, n), RequestIn(w, n).branch = b PROVE FALSE
    OBVIOUS
  <2>1. w.branch[b] = n
    BY DEF WorldFits, ProposalsFit, ProposalFits
  <2> QED BY <2>1, <1>1
<1>3. ~ Own(v, b)
  BY <1>0, <1>2 DEF Own, ProposalIn, RequestIn
<1> QED BY <1>0, <1>1, <1>3 DEF Root

LEMMA StartsFits ==
    ASSUME NEW w, NEW v, IsWorld(w), WorldFits(w), NEW o \in Operations, Begun(w, o),
           Starts(w, v, w.asked[o].branch),
           RootFits(w, w.asked[o], v.branch[w.asked[o].branch])
    PROVE  WorldFits(v)
<1> DEFINE r == w.asked[o]
           b == r.branch
           n == v.branch[b]
<1>a. AskedFits(w) /\ b \in Branches /\ n \in Commits(w)
  BY BranchOf DEF WorldFits, RootFits
<1>0. SameCommits(w, v) /\ v.place = w.place /\ Beside(w, v, b)
  BY <1>a, StartsWorld
<1>b. ~ Own(v, b) /\ Root(v, b) = n /\ n # 0 /\ w.branch[b] = 0
  BY <1>a, StartsAtRoot
<1>d. /\ Later(w, v) /\ HistoryFits(v) /\ TreeIn(v, v.main) = TreeIn(w, w.main)
      /\ Commits(v) = Commits(w)
  BY <1>0, SameCommitsKept
<1>e. RootFits(w, r, n) /\ r = w.asked[o] /\ b = r.branch /\ v.branch[b] = n
  OBVIOUS
<1> HIDE DEF r, b, n
<1>1. ProposalsAt(w, v, b)
  <2>1. ASSUME NEW m \in Commits(w), ProposalIn(w, m), RequestIn(w, m).branch = b
        PROVE  FALSE
    <3>1. w.branch[b] = m
      BY <2>1 DEF WorldFits, ProposalsFit, ProposalFits
    <3> QED BY <3>1, <1>b DEF Commits
  <2> QED BY <2>1, <1>d DEF ProposalsAt
<1>2. RootsAt(v, b)
  <2> SUFFICES ASSUME NEW p \in Operations, Begun(v, p), v.asked[p].branch = b
               PROVE  RootFits(v, v.asked[p], Root(v, b))
    BY DEF RootsAt
  <2>0. Begun(w, p) /\ w.asked[p] = v.asked[p]
    BY <1>0 DEF Begun, SameCommits
  <2>1. r = w.asked[p] \/ (/\ r.command = "bootstrap.propose"
                           /\ w.asked[p].command = "bootstrap.propose")
    BY <2>0, <1>a, <1>e, BranchShared
  <2>2. RootFits(w, w.asked[p], n)
    BY <2>1, <1>e DEF RootFits, IsBootstrap, BootstrapCommands, PolicyCommands
  <2> QED BY <2>0, <2>2, <1>b, <1>d, RootFitsKept
<1>3. PlacesAt(v, b)
  BY <1>0, <1>a, <1>b DEF PlacesAt, WorldFits, PlacesFit
<1>4. v.branch[w.asked[o].branch] \in Commits(v)
  BY <1>a, <1>d, <1>e
<1> QED BY <1>0, <1>1, <1>2, <1>3, <1>4, <1>d, <1>e, BesideFits

(* The calls of a branch that is made wait for it or have not looked yet.   *)
LEMMA StartsCall ==
    ASSUME NEW w, NEW v, IsWorld(w), WorldFits(w), NEW b \in Branches,
           Starts(w, v, b), v.branch[b] \in Commits(w),
           NEW c, c.pc # "idle", c.req.branch \in Branches, CallFits(c, w)
    PROVE  CallFits(c, v)
<1>b. w.branch[b] = 0 /\ v.branch[b] # 0
  BY StartsAtRoot
<1>0. SameCommits(w, v) /\ v.place = w.place /\ Beside(w, v, b)
  BY StartsWorld
<1>c. Later(w, v)
  BY <1>0 DEF Beside
<1>1. CASE c.req.branch # b
  BY <1>1, <1>0, ElsewhereCall
<1>2. CASE c.req.branch = b
  <2>0. CallBegun(c, w) /\ CallPlace(c, w) /\ CallInputs(c, w)
        /\ (c.pc \in {"effect", "finish"} => VerdictFits(w, c.req, c.verdict))
    BY DEF CallFits
  <2>1. c.pc \notin Placed /\ c.pc # "attach"
    BY <2>0, <1>2, <1>b DEF CallPlace, WorldFits, PlacesFit
  <2>2. CallBegun(c, v) /\ CallPlace(c, v) /\ CallWork(c, v)
    BY <2>0, <2>1, <1>0, <1>b, <1>2
       DEF CallBegun, CallPlace, CallWork, Placed, SameCommits
  <2>3. CallInputs(c, v)
    BY <2>0, <2>1, <1>c, InputsKept DEF CallInputs, Placed
  <2>4. c.pc \in {"effect", "finish"} => VerdictFits(v, c.req, c.verdict)
    BY <2>0, <1>b, <1>2 DEF VerdictFits
  <2> QED BY <2>2, <2>3, <2>4 DEF CallFits
<1> QED BY <1>1, <1>2

LEMMA StartsVerdict ==
    ASSUME NEW w, NEW v, IsWorld(w), WorldFits(w), NEW b \in Branches,
           Starts(w, v, b), v.branch[b] \in Commits(w),
           NEW r, r.branch \in Branches, NEW verdict, VerdictFits(w, r, verdict)
    PROVE  VerdictFits(v, r, verdict)
<1>b. w.branch[b] = 0
  BY StartsAtRoot
<1>0. Beside(w, v, b)
  BY StartsWorld
<1>1. CASE r.branch # b
  BY <1>1, <1>0, ElsewhereVerdict
<1>2. CASE r.branch = b
  BY <1>2, <1>b DEF VerdictFits
<1> QED BY <1>1, <1>2

-----------------------------------------------------------------------------
(* A worktree changes.                                                      *)

Moves(w, v, b) ==
    /\ w.branch[b] # 0
    /\ v = [w EXCEPT !.place = [w.place EXCEPT ![b] = v.place[b]]]
    /\ v.place[b] = [there |-> v.place[b].there, tree |-> v.place[b].tree,
                     litter |-> v.place[b].litter]

LEMMA MovesWorld ==
    ASSUME NEW w, NEW v, IsWorld(w), WorldFits(w), NEW b \in Branches, Moves(w, v, b)
    PROVE  /\ SameCommits(w, v) /\ v.branch = w.branch
           /\ Beside(w, v, b)
           /\ w.branch[b] # 0 /\ w.branch[b] \in Commits(w)
           /\ TreeIn(v, w.branch[b]) = TreeIn(w, w.branch[b])
           /\ Own(v, b) <=> Own(w, b)
           /\ Root(v, b) = Root(w, b)
           /\ RootTree(v, b) = RootTree(w, b)
<1>1. w.place = [a \in Branches |-> [there |-> w.place[a].there,
                    tree |-> w.place[a].tree, litter |-> w.place[a].litter]]
  BY DEF WorldFits, PlacesFit
<1>a. SameCommits(w, v) /\ v.branch = w.branch
  BY DEF Moves, IsWorld, SameCommits
<1>2. /\ SameCommits(w, v) /\ v.branch = w.branch /\ w.branch[b] # 0
      /\ v.place = [w.place EXCEPT ![b] = v.place[b]]
      /\ v.place[b] = [there |-> v.place[b].there, tree |-> v.place[b].tree,
                       litter |-> v.place[b].litter]
  BY <1>a DEF Moves, IsWorld
<1>3. Elsewhere(w, v, b)
  BY <1>1, <1>2 DEF Elsewhere, SameBranch
<1>b. \A a \in Branches : v.place[a] = IF a = b THEN v.place[b] ELSE w.place[a]
  BY <1>1, <1>2
<1>c. \A a \in Branches :
         v.place[a] = [there |-> v.place[a].there, tree |-> v.place[a].tree,
                       litter |-> v.place[a].litter]
  <2> SUFFICES ASSUME NEW a \in Branches
               PROVE  v.place[a] = [there |-> v.place[a].there, tree |-> v.place[a].tree,
                                    litter |-> v.place[a].litter]
    OBVIOUS
  <2>1. CASE a = b
    BY <2>1, <1>2
  <2>2. CASE a # b
    BY <2>2, <1>1, <1>b
  <2> QED BY <2>1, <2>2
<1>d. v.place = [a \in Branches |-> v.place[a]]
  BY <1>1, <1>2
<1>4. Shaped(v)
  BY <1>2, <1>c, <1>d DEF Shaped, WorldFits, BranchesFit
<1>5. Beside(w, v, b)
  BY <1>2, <1>3, <1>4, SameCommitsKept DEF Beside, SameCommits
<1>6. w.branch[b] \in Commits(w)
  BY <1>2, BeginsAtCommit
<1>7. Later(w, v)
  BY <1>5 DEF Beside
<1>8. (Own(v, b) <=> Own(w, b)) /\ Root(v, b) = Root(w, b) /\ RootTree(v, b) = RootTree(w, b)
  BY <1>2, <1>7, RootKept
<1>9. TreeIn(v, w.branch[b]) = TreeIn(w, w.branch[b])
  BY <1>6, <1>7, RequestKept
<1> QED BY <1>2, <1>5, <1>6, <1>8, <1>9

LEMMA MovesFits ==
    ASSUME NEW w, NEW v, IsWorld(w), WorldFits(w), NEW o \in Operations, Begun(w, o),
           Moves(w, v, w.asked[o].branch), PlacesAt(v, w.asked[o].branch)
    PROVE  WorldFits(v)
<1> DEFINE b == w.asked[o].branch
<1>a. AskedFits(w) /\ b \in Branches
  BY BranchOf DEF WorldFits
<1>0. /\ SameCommits(w, v) /\ v.branch = w.branch /\ Beside(w, v, b)
      /\ w.branch[b] # 0 /\ w.branch[b] \in Commits(w) /\ Root(v, b) = Root(w, b)
  BY <1>a, MovesWorld
<1>d. /\ Later(w, v) /\ HistoryFits(v) /\ TreeIn(v, v.main) = TreeIn(w, w.main)
      /\ Commits(v) = Commits(w)
  BY <1>0, SameCommitsKept
<1>e. b = w.asked[o].branch
  OBVIOUS
<1> HIDE DEF b
<1>1. ProposalsAt(w, v, b)
  <2>1. ASSUME NEW m \in Commits(w), ProposalIn(w, m), RequestIn(w, m).branch = b
        PROVE  v.branch[b] = m
    BY <2>1, <1>0 DEF WorldFits, ProposalsFit, ProposalFits
  <2> QED BY <2>1, <1>d DEF ProposalsAt
<1>2. RootsAt(v, b)
  <2> SUFFICES ASSUME NEW p \in Operations, Begun(v, p), v.asked[p].branch = b
               PROVE  RootFits(v, v.asked[p], Root(v, b))
    BY DEF RootsAt
  <2>0. Begun(w, p) /\ w.asked[p] = v.asked[p]
    BY <1>0 DEF Begun, SameCommits
  <2>1. RootFits(w, w.asked[p], Root(w, b))
    BY <2>0, <1>0 DEF WorldFits, BranchesFit
  <2> QED BY <2>0, <2>1, <1>0, <1>d, RootFitsKept
<1>4. v.branch[w.asked[o].branch] \in Commits(v)
  BY <1>0, <1>d, <1>e
<1> QED BY <1>0, <1>1, <1>2, <1>4, <1>d, <1>e, BesideFits

LEMMA MovesVerdict ==
    ASSUME NEW w, NEW v, IsWorld(w), WorldFits(w), NEW b \in Branches, Moves(w, v, b),
           NEW r, r.branch \in Branches, NEW verdict, VerdictFits(w, r, verdict)
    PROVE  VerdictFits(v, r, verdict)
<1>1. Later(w, v) /\ v.branch = w.branch
  BY MovesWorld DEF Beside
<1> QED BY <1>1, VerdictKept

(* What a call keeps where its worktree does not come in.                   *)
LEMMA MovesCall ==
    ASSUME NEW w, NEW v, IsWorld(w), WorldFits(w), NEW b \in Branches, Moves(w, v, b),
           NEW c, c.pc # "idle", c.req.branch \in Branches, CallFits(c, w),
           \* the call of the same branch
           c.req.branch = b =>
              /\ c.pc = "attach" => ~ v.place[b].there
              /\ c.pc \in Placed => v.place[b].there
              /\ CallWork(c, v)
              /\ c.pc \in {"recapture", "commit"} /\ IsBootstrap(c.req) =>
                    Holds(v.place[b].tree, Changes(c.req, c.seen.source))
    PROVE  CallFits(c, v)
<1>0. SameCommits(w, v) /\ v.branch = w.branch /\ Beside(w, v, b)
      /\ w.branch[b] # 0 /\ w.branch[b] \in Commits(w)
  BY MovesWorld
<1>c. Later(w, v)
  BY <1>0 DEF Beside
<1>1. CASE c.req.branch # b
  BY <1>1, <1>0, ElsewhereCall
<1>2. CASE c.req.branch = b
  <2>0. CallBegun(c, w) /\ CallPlace(c, w) /\ CallInputs(c, w)
        /\ (c.pc \in {"effect", "finish"} => VerdictFits(w, c.req, c.verdict))
    BY DEF CallFits
  <2>1. CallBegun(c, v)
    BY <2>0, <1>0 DEF CallBegun, SameCommits
  <2>2. CallPlace(c, v)
    BY <2>0, <1>0, <1>2 DEF CallPlace
  <2>3. CallInputs(c, v)
    BY <2>0, <1>0, <1>2, <1>c, InputsKept DEF CallInputs, SameCommits
  <2>4. c.pc \in {"effect", "finish"} => VerdictFits(v, c.req, c.verdict)
    BY <2>0, MovesVerdict
  <2> QED BY <2>1, <2>2, <2>3, <2>4, <1>2 DEF CallFits
<1> QED BY <1>1, <1>2

-----------------------------------------------------------------------------
(* The four ways in which a worktree changes.                               *)

\* the request of a call is the one that its operation began with
LEMMA CallOf ==
    ASSUME NEW w, AskedFits(w), NEW c, CallBegun(c, w)
    PROVE  /\ c.req.op \in Operations /\ Begun(w, c.req.op)
           /\ w.asked[c.req.op] = c.req
           /\ c.req \in Requests /\ c.req.branch \in Branches
<1>1. c.req.op \in Operations /\ w.asked[c.req.op] = c.req /\ Begun(w, c.req.op)
  BY DEF CallBegun, Begun
<1>2. w.asked[c.req.op] \in Requests /\ w.asked[c.req.op].branch \in Branches
  BY <1>1, BranchOf
<1> QED BY <1>1, <1>2

LEMMA CallShared ==
    ASSUME NEW w, AskedFits(w), NEW o \in Operations, Begun(w, o),
           NEW c, CallBegun(c, w), c.req.branch = w.asked[o].branch
    PROVE  /\ ~ IsBootstrap(w.asked[o]) => c.req = w.asked[o]
           /\ IsBootstrap(c.req) <=> IsBootstrap(w.asked[o])
<1> DEFINE p == c.req.op
<1>1. p \in Operations /\ Begun(w, p) /\ w.asked[p] = c.req
  BY CallOf
<1>2. w.asked[o].branch = w.asked[p].branch
  BY <1>1
<1> HIDE DEF p
<1>3. /\ ~ IsBootstrap(w.asked[o]) => w.asked[o] = w.asked[p]
      /\ IsBootstrap(w.asked[o]) <=> IsBootstrap(w.asked[p])
  BY <1>1, <1>2, BranchShared
<1> QED BY <1>1, <1>3

(* A worktree is made.                                                      *)
Attaches(w, v, b) ==
    /\ Moves(w, v, b)
    /\ ~ w.place[b].there
    /\ v.place[b] = [there |-> TRUE, tree |-> TreeIn(w, w.branch[b]), litter |-> FALSE]

LEMMA AttachesFits ==
    ASSUME NEW w, NEW v, IsWorld(w), WorldFits(w), NEW o \in Operations, Begun(w, o),
           Attaches(w, v, w.asked[o].branch)
    PROVE  WorldFits(v)
<1> DEFINE b == w.asked[o].branch
<1>a. AskedFits(w) /\ b \in Branches /\ Moves(w, v, b)
  BY BranchOf DEF WorldFits, Attaches
<1>0. /\ SameCommits(w, v) /\ v.branch = w.branch
      /\ w.branch[b] # 0 /\ w.branch[b] \in Commits(w)
      /\ TreeIn(v, w.branch[b]) = TreeIn(w, w.branch[b])
      /\ (Own(v, b) <=> Own(w, b)) /\ RootTree(v, b) = RootTree(w, b)
  BY <1>a, MovesWorld
<1>b. /\ v.place[b].tree = TreeIn(w, w.branch[b]) /\ ~ v.place[b].litter
      /\ b = w.asked[o].branch
  BY DEF Attaches
<1>c. IsTree(TreeIn(w, w.branch[b]))
  BY <1>0 DEF WorldFits, HistoryFits, CommitFits, TreeFits
<1>d. ~ Own(w, b) => TreeIn(w, w.branch[b]) = RootTree(w, b)
  BY DEF RootTree, Root
<1> HIDE DEF b
<1>1. PlacesAt(v, b)
  <2> SUFFICES ASSUME NEW p \in Operations, Begun(v, p), v.asked[p].branch = b
               PROVE  PlaceFits(v, v.asked[p])
    BY DEF PlacesAt
  <2>0. Begun(w, p) /\ w.asked[p] = v.asked[p]
    BY <1>0 DEF Begun, SameCommits
  <2>1. Own(w, b) /\ ~ IsBootstrap(v.asked[p]) =>
            /\ Legal(v.asked[p], RootTree(w, b))
            /\ TreeIn(w, w.branch[b]) = With(v.asked[p], RootTree(w, b))
    BY <2>0, OwnOther
  <2>2. Own(w, b) /\ IsBootstrap(v.asked[p]) =>
            \A s \in Slots \ {"config", "record"} :
               TreeIn(w, w.branch[b])[s] = RootTree(w, b)[s]
    BY <2>0, OwnBootstrap
  <2> QED BY <2>1, <2>2, <1>0, <1>b, <1>c, <1>d DEF PlaceFits
<1> QED BY <1>1, <1>a, <1>b, MovesFits

LEMMA AttachesCall ==
    ASSUME NEW w, NEW v, IsWorld(w), WorldFits(w), NEW b \in Branches,
           Attaches(w, v, b), NEW c, c.pc # "idle", c.req.branch \in Branches,
           CallFits(c, w), c.req.branch = b => c.pc # "attach"
    PROVE  CallFits(c, v)
<1>1. Moves(w, v, b)
  BY DEF Attaches
<1>2. ASSUME c.req.branch = b
      PROVE  c.pc # "attach" /\ c.pc \notin Placed /\ CallWork(c, v)
  <2>1. c.pc \notin Placed
    BY <1>2 DEF CallFits, CallPlace, Attaches
  <2> QED BY <2>1, <1>2 DEF CallWork, Placed
<1>3. c.req.branch = b =>
              /\ c.pc = "attach" => ~ v.place[b].there
              /\ c.pc \in Placed => v.place[b].there
              /\ CallWork(c, v)
              /\ c.pc \in {"recapture", "commit"} /\ IsBootstrap(c.req) =>
                    Holds(v.place[b].tree, Changes(c.req, c.seen.source))
  BY <1>2 DEF Placed
<1> QED BY <1>1, <1>3, MovesCall

(* A temporary file is made beside a Task or policy record.                 *)
Litters(w, v, b) ==
    /\ Moves(w, v, b)
    /\ w.place[b].there
    /\ v.place[b].there /\ v.place[b].tree = w.place[b].tree

LEMMA LittersFits ==
    ASSUME NEW w, NEW v, IsWorld(w), WorldFits(w), NEW o \in Operations, Begun(w, o),
           Litters(w, v, w.asked[o].branch), ~ IsBootstrap(w.asked[o]),
           w.place[w.asked[o].branch].tree = RootTree(w, w.asked[o].branch)
    PROVE  WorldFits(v)
<1> DEFINE b == w.asked[o].branch
<1>a. AskedFits(w) /\ b \in Branches /\ Moves(w, v, b)
  BY BranchOf DEF WorldFits, Litters
<1>b. /\ v.place[b].tree = w.place[b].tree /\ w.place[b].tree = RootTree(w, b)
      /\ w.place[b].there /\ b = w.asked[o].branch
  BY DEF Litters
<1> HIDE DEF b
<1>0. /\ SameCommits(w, v) /\ v.branch = w.branch
      /\ TreeIn(v, w.branch[b]) = TreeIn(w, w.branch[b])
      /\ (Own(v, b) <=> Own(w, b)) /\ RootTree(v, b) = RootTree(w, b)
  BY <1>a, MovesWorld
<1>1. PlacesAt(v, b)
  <2> SUFFICES ASSUME NEW p \in Operations, Begun(v, p), v.asked[p].branch = b
               PROVE  PlaceFits(v, v.asked[p])
    BY DEF PlacesAt
  <2>0. Begun(w, p) /\ w.asked[p] = v.asked[p]
    BY <1>0 DEF Begun, SameCommits
  <2>1. ~ IsBootstrap(v.asked[p])
    BY <2>0, <1>a, <1>b, BranchShared
  <2>2. PlaceFits(w, w.asked[p])
    BY <2>0, <1>b DEF WorldFits, PlacesFit
  <2>3. w.asked[p].branch = b
    BY <2>0
  <2>4. /\ IsTree(w.place[b].tree)
        /\ Own(w, b) => w.place[b].tree = TreeIn(w, w.branch[b])
    BY <2>2, <2>3 DEF PlaceFits
  <2>5. /\ IsTree(v.place[b].tree) /\ v.place[b].tree = RootTree(v, b)
        /\ Own(v, b) => v.place[b].tree = TreeIn(v, v.branch[b])
    BY <2>4, <1>0, <1>b
  <2> QED BY <2>1, <2>5 DEF PlaceFits
<1> QED BY <1>1, <1>a, <1>b, MovesFits

LEMMA LittersCall ==
    ASSUME NEW w, NEW v, IsWorld(w), WorldFits(w), NEW b \in Branches,
           Litters(w, v, b), NEW c, c.pc # "idle", c.req.branch \in Branches,
           CallFits(c, w)
    PROVE  CallFits(c, v)
<1>1. Moves(w, v, b)
  BY DEF Litters
<1>0. (Own(v, b) <=> Own(w, b)) /\ RootTree(v, b) = RootTree(w, b)
      /\ v.place[b].tree = w.place[b].tree /\ w.place[b].there /\ v.place[b].there
  BY <1>1, MovesWorld DEF Litters
<1>2. ASSUME c.req.branch = b PROVE c.pc # "attach" /\ CallWork(c, v)
  BY <1>0, <1>2 DEF CallFits, CallPlace, CallWork
<1>3. c.req.branch = b =>
              /\ c.pc = "attach" => ~ v.place[b].there
              /\ c.pc \in Placed => v.place[b].there
              /\ CallWork(c, v)
              /\ c.pc \in {"recapture", "commit"} /\ IsBootstrap(c.req) =>
                    Holds(v.place[b].tree, Changes(c.req, c.seen.source))
  BY <1>0, <1>2 DEF CallFits, CallInputs
<1> QED BY <1>1, <1>3, MovesCall

(* The record of a Task or policy request is replaced.                      *)
Replaces(w, v, r) ==
    /\ Moves(w, v, r.branch)
    /\ w.place[r.branch].there
    /\ w.place[r.branch].tree = RootTree(w, r.branch)
    /\ Legal(r, RootTree(w, r.branch))
    /\ v.place[r.branch] = [there |-> w.place[r.branch].there,
                            tree |-> With(r, RootTree(w, r.branch)), litter |-> FALSE]

LEMMA ReplacesFits ==
    ASSUME NEW w, NEW v, IsWorld(w), WorldFits(w), NEW o \in Operations, Begun(w, o),
           ~ IsBootstrap(w.asked[o]), Replaces(w, v, w.asked[o])
    PROVE  WorldFits(v)
<1> DEFINE r == w.asked[o]
           b == w.asked[o].branch
           root == RootTree(w, b)
<1>a. AskedFits(w) /\ b \in Branches /\ Moves(w, v, b) /\ r \in Requests
  BY BranchOf DEF WorldFits, Replaces
<1>0. /\ SameCommits(w, v) /\ v.branch = w.branch
      /\ TreeIn(v, w.branch[b]) = TreeIn(w, w.branch[b])
      /\ (Own(v, b) <=> Own(w, b)) /\ RootTree(v, b) = root
  BY <1>a, MovesWorld
<1>b. /\ v.place[b].tree = With(r, root) /\ ~ v.place[b].litter
      /\ w.place[b].tree = root /\ w.place[b].there /\ Legal(r, root)
      /\ b = w.asked[o].branch /\ r = w.asked[o] /\ ~ IsBootstrap(r)
  BY DEF Replaces
<1>c. With(r, root) # root
  BY <1>a, <1>b, LegalChanges
<1>d. ~ Own(w, b)
  <2> SUFFICES ASSUME Own(w, b) PROVE FALSE
    OBVIOUS
  <2>1. TreeIn(w, w.branch[b]) = With(r, root)
    BY OwnOther
  <2>2. PlaceFits(w, r)
    BY <1>b DEF WorldFits, PlacesFit
  <2> QED BY <1>b, <1>c, <2>1, <2>2 DEF PlaceFits
<1> HIDE DEF r, b, root
<1>1. PlacesAt(v, b)
  <2> SUFFICES ASSUME NEW p \in Operations, Begun(v, p), v.asked[p].branch = b
               PROVE  PlaceFits(v, v.asked[p])
    BY DEF PlacesAt
  <2>0. Begun(w, p) /\ w.asked[p] = v.asked[p]
    BY <1>0 DEF Begun, SameCommits
  <2>1. r = v.asked[p]
    BY <2>0, <1>a, <1>b, BranchShared
  <2>2. v.asked[p].branch = b /\ IsTree(v.place[b].tree)
    BY <1>b, WithTree
  <2> QED BY <2>1, <2>2, <1>0, <1>b, <1>d DEF PlaceFits
<1> QED BY <1>1, <1>a, <1>b, MovesFits

LEMMA ReplacesCall ==
    ASSUME NEW w, NEW v, IsWorld(w), WorldFits(w), NEW o \in Operations, Begun(w, o),
           ~ IsBootstrap(w.asked[o]), Replaces(w, v, w.asked[o]),
           NEW c, c.pc # "idle", c.req.branch \in Branches, CallFits(c, w),
           c.req.branch = w.asked[o].branch => ~ Holding(c) \/ c.pc \in {"status", "commit", "verify"}
    PROVE  CallFits(c, v)
<1> DEFINE r == w.asked[o]
           b == w.asked[o].branch
           root == RootTree(w, b)
<1>a. AskedFits(w) /\ b \in Branches /\ Moves(w, v, b) /\ r \in Requests
  BY BranchOf DEF WorldFits, Replaces
<1>0. (Own(v, b) <=> Own(w, b)) /\ RootTree(v, b) = root
  BY <1>a, MovesWorld
<1>b. /\ v.place[b].tree = With(r, root)
      /\ w.place[b].there /\ v.place[b].there /\ Legal(r, root)
      /\ ~ IsBootstrap(r)
  BY DEF Replaces
<1>c. With(r, root) # root /\ Done(r, With(r, root))
  BY <1>a, <1>b, LegalChanges, WithIsDone
<1>2. ASSUME c.req.branch = b
      PROVE  c.pc # "attach" /\ CallWork(c, v) /\ ~ IsBootstrap(c.req)
  <2>0. CallBegun(c, w) /\ CallPlace(c, w) /\ CallWork(c, w)
    BY DEF CallFits
  <2>1. c.req = r
    BY <2>0, <1>2, <1>a, <1>b, CallShared
  <2>a. ~ Holding(c) \/ c.pc \in {"status", "commit", "verify"}
    BY <1>2
  <2>b. r.command \in TaskCommands \cup PolicyCommands /\ TaskCommands \cap PolicyCommands = {}
    BY <1>a, <1>b, ControlRequestAssumption DEF IsBootstrap, TaskCommands, PolicyCommands
  <2> HIDE DEF r, b, root
  <2>2. c.pc # "replace" /\ ~ (c.pc = "write" /\ c.req.command \in PolicyCommands)
    BY <2>a, <2>b, <2>1 DEF Holding, Locked
  <2>4. c.pc # "attach"
    BY <2>0, <1>2, <1>b DEF CallPlace
  <2>5. CallWork(c, v)
    BY <2>0, <2>1, <2>2, <1>0, <1>2, <1>b, <1>c DEF CallWork, root
  <2> QED BY <2>1, <2>4, <2>5, <1>b
<1>3. c.req.branch = b =>
              /\ c.pc = "attach" => ~ v.place[b].there
              /\ c.pc \in Placed => v.place[b].there
              /\ CallWork(c, v)
              /\ c.pc \in {"recapture", "commit"} /\ IsBootstrap(c.req) =>
                    Holds(v.place[b].tree, Changes(c.req, c.seen.source))
  BY <1>2, <1>b
<1> QED BY <1>a, <1>3, MovesCall

(* A file of a bootstrap is written.                                        *)
Writes(w, v, b) ==
    /\ Moves(w, v, b)
    /\ ~ Own(w, b)
    /\ w.place[b].there /\ v.place[b].there
    /\ v.place[b].litter = w.place[b].litter
    /\ IsTree(v.place[b].tree)
    /\ \A s \in Slots \ {"config", "record"} : v.place[b].tree[s] = w.place[b].tree[s]

LEMMA WritesFits ==
    ASSUME NEW w, NEW v, IsWorld(w), WorldFits(w), NEW o \in Operations, Begun(w, o),
           IsBootstrap(w.asked[o]), Writes(w, v, w.asked[o].branch)
    PROVE  WorldFits(v)
<1> DEFINE b == w.asked[o].branch
<1>a. AskedFits(w) /\ b \in Branches /\ Moves(w, v, b)
  BY BranchOf DEF WorldFits, Writes
<1>0. /\ SameCommits(w, v) /\ v.branch = w.branch
      /\ (Own(v, b) <=> Own(w, b)) /\ RootTree(v, b) = RootTree(w, b)
  BY <1>a, MovesWorld
<1>b. /\ w.place[b].there /\ v.place[b].litter = w.place[b].litter /\ ~ Own(w, b)
      /\ IsTree(v.place[b].tree)
      /\ \A s \in Slots \ {"config", "record"} : v.place[b].tree[s] = w.place[b].tree[s]
      /\ b = w.asked[o].branch
  BY DEF Writes
<1> HIDE DEF b
<1>1. PlacesAt(v, b)
  <2> SUFFICES ASSUME NEW p \in Operations, Begun(v, p), v.asked[p].branch = b
               PROVE  PlaceFits(v, v.asked[p])
    BY DEF PlacesAt
  <2>0. Begun(w, p) /\ w.asked[p] = v.asked[p]
    BY <1>0 DEF Begun, SameCommits
  <2>a. w.asked[p].branch = w.asked[o].branch
    BY <2>0, <1>b
  <2>b. IsBootstrap(w.asked[o]) <=> IsBootstrap(w.asked[p])
    BY <2>0, <2>a, <1>a, BranchShared
  <2>1. IsBootstrap(w.asked[p])
    BY <2>b
  <2>2. PlaceFits(w, w.asked[p])
    BY <2>0, <1>b DEF WorldFits, PlacesFit
  <2>3. /\ ~ w.place[b].litter
        /\ \A s \in Slots \ {"config", "record"} : w.place[b].tree[s] = RootTree(w, b)[s]
    BY <2>0, <2>1, <2>2 DEF PlaceFits
  <2>4. /\ ~ v.place[b].litter
        /\ \A s \in Slots \ {"config", "record"} : v.place[b].tree[s] = RootTree(v, b)[s]
    BY <2>3, <1>0, <1>b
  <2> QED BY <2>0, <2>1, <2>4, <1>0, <1>b DEF PlaceFits
<1> QED BY <1>1, <1>a, <1>b, MovesFits

LEMMA WritesCall ==
    ASSUME NEW w, NEW v, IsWorld(w), WorldFits(w), NEW o \in Operations, Begun(w, o),
           IsBootstrap(w.asked[o]), Writes(w, v, w.asked[o].branch),
           NEW c, c.pc # "idle", c.req.branch \in Branches, CallFits(c, w),
           c.req.branch = w.asked[o].branch => c.pc \notin {"recapture", "commit"}
    PROVE  CallFits(c, v)
<1> DEFINE b == w.asked[o].branch
<1>a. AskedFits(w) /\ b \in Branches /\ Moves(w, v, b)
  BY BranchOf DEF WorldFits, Writes
<1>b. w.place[b].there /\ v.place[b].there
  BY DEF Writes
<1>2. ASSUME c.req.branch = b
      PROVE  c.pc # "attach" /\ CallWork(c, v)
  <2>0. CallBegun(c, w) /\ CallPlace(c, w)
    BY DEF CallFits
  <2>1. IsBootstrap(c.req)
    BY <2>0, <1>2, <1>a, CallShared
  <2>2. CallWork(c, v)
    BY <2>1 DEF CallWork
  <2>3. c.pc # "attach"
    BY <2>0, <1>2, <1>b DEF CallPlace
  <2> QED BY <2>2, <2>3
<1>3. c.req.branch = b =>
              /\ c.pc = "attach" => ~ v.place[b].there
              /\ c.pc \in Placed => v.place[b].there
              /\ CallWork(c, v)
              /\ c.pc \in {"recapture", "commit"} /\ IsBootstrap(c.req) =>
                    Holds(v.place[b].tree, Changes(c.req, c.seen.source))
  BY <1>2, <1>b
<1> QED BY <1>a, <1>3, MovesCall

-----------------------------------------------------------------------------
(* A commit is made.                                                        *)

LEMMA AppendAny ==
    ASSUME NEW S, NEW s \in Seq(S), NEW e
    PROVE  /\ \E T : Append(s, e) \in Seq(T)
           /\ Len(Append(s, e)) = Len(s) + 1
           /\ Append(s, e)[Len(s) + 1] = e
           /\ \A i \in 1 .. Len(s) : Append(s, e)[i] = s[i]
<1> DEFINE T == S \cup {e}
<1>1. s \in Seq(T)
  BY SeqDef
<1>2. e \in T
  OBVIOUS
<1> HIDE DEF T
<1>3. Append(s, e) \in Seq(T)
  BY <1>1, <1>2, AppendProperties
<1> QED BY <1>1, <1>2, <1>3, AppendProperties

Grows(w, v, e) == v.commits = Append(w.commits, e)
Next1(w) == Len(w.commits) + 1

LEMMA GrowsWorld ==
    ASSUME NEW w, NEW v, WorldFits(w), NEW e, Grows(w, v, e)
    PROVE  /\ \E S : v.commits \in Seq(S)
           /\ Len(w.commits) \in Nat /\ Len(v.commits) = Next1(w)
           /\ Commits(v) = Commits(w) \cup {Next1(w)}
           /\ Next1(w) \notin Commits(w) /\ Next1(w) # 0
           /\ v.commits[Next1(w)] = e
           /\ \A m \in Commits(w) : v.commits[m] = w.commits[m]
<1>1. PICK S : w.commits \in Seq(S)
  BY DEF WorldFits, HistoryFits
<1>2. Len(w.commits) \in Nat
  BY <1>1
<1>3. /\ \E T : Append(w.commits, e) \in Seq(T)
      /\ Len(Append(w.commits, e)) = Len(w.commits) + 1
      /\ Append(w.commits, e)[Len(w.commits) + 1] = e
      /\ \A i \in 1 .. Len(w.commits) : Append(w.commits, e)[i] = w.commits[i]
  BY <1>1, AppendAny
<1> QED BY <1>2, <1>3 DEF Grows, Next1, Commits

LEMMA GrowsHistory ==
    ASSUME NEW w, NEW v, WorldFits(w), NEW e, Grows(w, v, e),
           v.main \in Commits(v), Merged(w) \subseteq Merged(v), v.asked = w.asked,
           e.past \subseteq Commits(w),
           \A m \in e.past : w.commits[m].past \subseteq e.past,
           TreeFits(e.tree), e.op \in Operations \/ Next1(w) \in Merged(v)
    PROVE  HistoryFits(v) /\ Later(w, v)
<1>0. /\ \E S : v.commits \in Seq(S)
      /\ Len(w.commits) \in Nat
      /\ Commits(v) = Commits(w) \cup {Next1(w)}
      /\ v.commits[Next1(w)] = e
      /\ \A m \in Commits(w) : v.commits[m] = w.commits[m]
  BY GrowsWorld
<1>1. ASSUME NEW n \in Commits(w) PROVE CommitFits(v, n)
  <2>1. CommitFits(w, n) /\ n \in Nat
    BY DEF WorldFits, HistoryFits, Commits
  <2>2. \A m \in w.commits[n].past : m \in Commits(w)
    BY <2>1, <1>0 DEF CommitFits, Commits
  <2>3. v.commits[n] = w.commits[n] /\ \A m \in w.commits[n].past : v.commits[m] = w.commits[m]
    BY <2>2, <1>0
  <2> QED BY <2>1, <2>3 DEF CommitFits, TreeIn, ProposalIn
<1>2. CommitFits(v, Next1(w))
  <2>1. e.past \subseteq 1 .. Next1(w) - 1
    BY <1>0 DEF Next1, Commits
  <2>2. \A m \in e.past : v.commits[m] = w.commits[m]
    BY <1>0
  <2> QED BY <2>1, <2>2, <1>0 DEF CommitFits, TreeIn, ProposalIn
<1>3. HistoryFits(v)
  BY <1>0, <1>1, <1>2 DEF HistoryFits
<1>4. Later(w, v)
  BY <1>0 DEF Later
<1> QED BY <1>3, <1>4

(* A call commits its worktree.                                             *)
CommitsTo(w, v, r) ==
    /\ v = [w EXCEPT
              !.commits = Append(w.commits, Commit(r.op, w.branch[r.branch],
                             PastIn(w, w.branch[r.branch]), w.place[r.branch].tree)),
              !.branch = [w.branch EXCEPT ![r.branch] = Next1(w)]]
    /\ w.place[r.branch].there
    /\ r \notin Denied
    /\ ~ Own(w, r.branch)
    /\ Proposes(w, r, w.branch[r.branch], w.place[r.branch].tree)
    /\ r.command \notin TaskCommands => w.branch[r.branch] = r.base
    /\ TreeFits(w.place[r.branch].tree)

CommitParts(w, v, r) ==
    LET b == r.branch
        base == w.branch[b]
    IN  /\ v.asked = w.asked /\ v.main = w.main /\ v.place = w.place
        /\ v.branch = [w.branch EXCEPT ![b] = Next1(w)] /\ v.branch[b] = Next1(w)
        /\ Grows(w, v, Commit(r.op, base, PastIn(w, base), w.place[b].tree))
        /\ base # 0 /\ base \in Commits(w) /\ Root(w, b) = base
        /\ RootFits(w, r, base)

LEMMA CommitsWorld ==
    ASSUME NEW w, NEW v, IsWorld(w), WorldFits(w), NEW o \in Operations, Begun(w, o),
           CommitsTo(w, v, w.asked[o])
    PROVE  CommitParts(w, v, w.asked[o]) /\ w.asked[o].op = o
<1> DEFINE r == w.asked[o]
           b == r.branch
           base == w.branch[b]
           n == Next1(w)
<1>1. r.op = o /\ b \in Branches
  BY BranchOf DEF WorldFits
<1>2. /\ v.asked = w.asked /\ v.main = w.main /\ v.place = w.place
      /\ v.branch = [w.branch EXCEPT ![b] = n]
      /\ Grows(w, v, Commit(o, base, PastIn(w, base), w.place[b].tree))
  BY <1>1 DEF CommitsTo, IsWorld, Grows
<1>3. w.branch = [a \in Branches |-> w.branch[a]]
  BY DEF WorldFits, BranchesFit
<1>4. v.branch[b] = n
  BY <1>1, <1>2, <1>3
<1>5. base # 0 /\ base \in Commits(w)
  BY <1>1 DEF CommitsTo, WorldFits, PlacesFit, BranchesFit
<1>6. Root(w, b) = base
  BY DEF CommitsTo, Root
<1>7. RootFits(w, r, base)
  BY <1>5, <1>6 DEF WorldFits, BranchesFit
<1> QED BY <1>1, <1>2, <1>4, <1>5, <1>6, <1>7 DEF CommitParts

LEMMA CommitsHistory ==
    ASSUME NEW w, NEW v, IsWorld(w), WorldFits(w), NEW o \in Operations, Begun(w, o),
           CommitsTo(w, v, w.asked[o])
    PROVE  HistoryFits(v) /\ Later(w, v)
<1> DEFINE b == w.asked[o].branch
           base == w.branch[b]
           e == Commit(o, base, PastIn(w, base), w.place[b].tree)
<1>w. CommitParts(w, v, w.asked[o]) /\ w.asked[o].op = o
  BY CommitsWorld
<1>0. /\ v.asked = w.asked /\ v.main = w.main /\ Grows(w, v, e)
      /\ base \in Commits(w)
  BY <1>w DEF CommitParts
<1>1. e.past = PastIn(w, base) /\ e.tree = w.place[b].tree /\ e.op = o
  BY DEF Commit
<1>2. TreeFits(e.tree)
  BY <1>1 DEF CommitsTo
<1> HIDE DEF e, base
<1>3. /\ Commits(v) = Commits(w) \cup {Next1(w)}
      /\ \A m \in Commits(w) : v.commits[m] = w.commits[m]
      /\ Len(w.commits) \in Nat
  BY <1>0, GrowsWorld
<1>4. w.main \in Commits(w)
  BY DEF WorldFits, HistoryFits
<1>5. v.main \in Commits(v) /\ Merged(v) = Merged(w)
  BY <1>0, <1>3, <1>4 DEF Merged, PastIn
<1>6. CommitFits(w, base)
  BY <1>0 DEF WorldFits, HistoryFits
<1>7. e.past \subseteq Commits(w) /\ \A m \in e.past : w.commits[m].past \subseteq e.past
  BY <1>0, <1>1, <1>3, <1>6 DEF CommitFits, PastIn, Commits
<1> QED BY <1>0, <1>1, <1>2, <1>5, <1>7, GrowsHistory

LEMMA CommitsBeside ==
    ASSUME NEW w, NEW v, IsWorld(w), WorldFits(w), NEW o \in Operations, Begun(w, o),
           CommitsTo(w, v, w.asked[o])
    PROVE  /\ Beside(w, v, w.asked[o].branch)
           /\ Own(v, w.asked[o].branch)
           /\ Root(v, w.asked[o].branch) = w.branch[w.asked[o].branch]
           /\ RootTree(v, w.asked[o].branch) = RootTree(w, w.asked[o].branch)
           /\ TreeIn(v, Next1(w)) = w.place[w.asked[o].branch].tree
           /\ v.commits[Next1(w)].op = o /\ RequestIn(v, Next1(w)) = w.asked[o]
<1> DEFINE b == w.asked[o].branch
           base == w.branch[b]
           n == Next1(w)
           e == Commit(o, base, PastIn(w, base), w.place[b].tree)
<1>w. CommitParts(w, v, w.asked[o]) /\ w.asked[o].op = o
  BY CommitsWorld
<1>0. /\ v.asked = w.asked /\ v.main = w.main /\ v.place = w.place
      /\ v.branch = [w.branch EXCEPT ![b] = n] /\ v.branch[b] = n
      /\ Grows(w, v, e) /\ base \in Commits(w) /\ Root(w, b) = base
  BY <1>w DEF CommitParts
<1>1. e.base = base /\ e.tree = w.place[b].tree /\ e.op = o
  BY DEF Commit
<1>a. b = w.asked[o].branch
  OBVIOUS
<1> HIDE DEF e, n, base
<1>2. n = Next1(w) /\ v.commits[n] = e /\ n # 0
  BY <1>0, GrowsWorld DEF n
<1>3. HistoryFits(v) /\ Later(w, v)
  BY CommitsHistory
<1>4. w.branch = [a \in Branches |-> w.branch[a]]
  BY DEF WorldFits, BranchesFit
<1>5. Elsewhere(w, v, b) /\ Shaped(v)
  BY <1>0, <1>4 DEF Elsewhere, SameBranch, Shaped, WorldFits, PlacesFit
<1>6. Beside(w, v, b)
  BY <1>0, <1>3, <1>5 DEF Beside
<1>7. RequestIn(v, n) = w.asked[o] /\ ProposalIn(v, n)
  BY <1>0, <1>1, <1>2 DEF RequestIn, ProposalIn
<1>8. Own(v, b)
  BY <1>0, <1>2, <1>7 DEF Own
<1>9. Root(v, b) = base
  BY <1>0, <1>1, <1>2, <1>8 DEF Root
<1>10. RootTree(v, b) = RootTree(w, b)
  BY <1>0, <1>3, <1>9, RequestKept DEF RootTree
<1>11. TreeIn(v, n) = w.place[b].tree /\ v.commits[n].op = o
  BY <1>1, <1>2 DEF TreeIn
<1> QED BY <1>2, <1>6, <1>7, <1>8, <1>9, <1>10, <1>11 DEF base

LEMMA CommitsFits ==
    ASSUME NEW w, NEW v, IsWorld(w), WorldFits(w), NEW o \in Operations, Begun(w, o),
           CommitsTo(w, v, w.asked[o])
    PROVE  WorldFits(v)
<1> DEFINE r == w.asked[o]
           b == w.asked[o].branch
           base == w.branch[b]
           n == Next1(w)
           e == Commit(o, base, PastIn(w, base), w.place[b].tree)
<1>w. CommitParts(w, v, w.asked[o]) /\ w.asked[o].op = o
  BY CommitsWorld
<1>0. /\ v.asked = w.asked /\ v.main = w.main /\ v.place = w.place
      /\ v.branch[b] = n
      /\ Grows(w, v, e) /\ base \in Commits(w) /\ Root(w, b) = base
      /\ RootFits(w, r, base)
  BY <1>w DEF CommitParts
<1>1. /\ Beside(w, v, b) /\ Own(v, b) /\ Root(v, b) = base
      /\ RootTree(v, b) = RootTree(w, b)
      /\ TreeIn(v, n) = w.place[b].tree /\ RequestIn(v, n) = r
  BY CommitsBeside
<1>2. HistoryFits(v) /\ Later(w, v)
  BY CommitsHistory
<1>3. /\ Commits(v) = Commits(w) \cup {n} /\ n \notin Commits(w) /\ v.commits[n] = e
      /\ Len(w.commits) \in Nat /\ n = Len(w.commits) + 1
  BY <1>0, GrowsWorld DEF Next1
<1>4. /\ r # NoRequest /\ r \notin Denied /\ ~ Own(w, b)
      /\ r.command \notin TaskCommands => base = r.base
      /\ Proposes(w, r, base, w.place[b].tree) /\ w.place[b].there
  BY DEF Begun, CommitsTo
<1>5. e.base = base /\ e.past = PastIn(w, base)
  BY DEF Commit
<1>a. b = w.asked[o].branch /\ r = w.asked[o] /\ b = r.branch /\ w.branch[b] = base
  OBVIOUS
<1>b. AskedFits(w) /\ b \in Branches
  BY BranchOf DEF WorldFits
<1> HIDE DEF r, b, base, n, e
<1>6. ProposalFits(v, n)
  <2>1. base \in 1 .. n - 1
    BY <1>0, <1>3 DEF Commits
  <2>2. PastIn(v, base) = PastIn(w, base)
    BY <1>0, <1>2, RequestKept
  <2>3. RootFits(v, r, base)
    BY <1>0, <1>2, RootFitsKept
  <2>4. Proposes(v, r, base, w.place[b].tree)
    BY <1>0, <1>2, <1>4, ProposesKept
  <2> QED BY <2>1, <2>2, <2>3, <2>4, <1>0, <1>1, <1>3, <1>4, <1>5, <1>a DEF ProposalFits
<1>7. ProposalsAt(w, v, b)
  <2>1. ASSUME NEW m \in Commits(w), ProposalIn(w, m), RequestIn(w, m).branch = b
        PROVE  FALSE
    <3>1. w.branch[b] = m /\ m # 0
      BY <2>1 DEF WorldFits, ProposalsFit, ProposalFits, Commits
    <3> QED BY <3>1, <2>1, <1>4 DEF Own
  <2> QED BY <2>1, <1>3, <1>6 DEF ProposalsAt
<1>8. RootsAt(v, b)
  <2> SUFFICES ASSUME NEW p \in Operations, Begun(v, p), v.asked[p].branch = b
               PROVE  RootFits(v, v.asked[p], base)
    BY <1>1 DEF RootsAt
  <2>0. Begun(w, p) /\ w.asked[p] = v.asked[p]
    BY <1>0 DEF Begun
  <2>1. RootFits(w, w.asked[p], base)
    BY <2>0, <1>0, <1>a DEF WorldFits, BranchesFit, Commits
  <2> QED BY <2>0, <2>1, <1>2, RootFitsKept
<1>9. PlacesAt(v, b)
  <2> SUFFICES ASSUME NEW p \in Operations, Begun(v, p), v.asked[p].branch = b
               PROVE  PlaceFits(v, v.asked[p])
    BY DEF PlacesAt
  <2>0. Begun(w, p) /\ w.asked[p] = v.asked[p]
    BY <1>0 DEF Begun
  <2>1. PlaceFits(w, w.asked[p])
    BY <2>0, <1>4 DEF WorldFits, PlacesFit
  <2> QED BY <2>0, <2>1, <1>0, <1>1 DEF PlaceFits
<1>10. v.branch[b] \in Commits(v)
  BY <1>0, <1>3
<1>11. TreeIn(v, v.main) = TreeIn(w, w.main)
  BY <1>0, <1>2, RequestKept DEF WorldFits, HistoryFits
<1> QED BY <1>1, <1>2, <1>7, <1>8, <1>9, <1>10, <1>11, <1>a, BesideFits

LEMMA CommitsVerdict ==
    ASSUME NEW w, NEW v, IsWorld(w), WorldFits(w), NEW o \in Operations, Begun(w, o),
           CommitsTo(w, v, w.asked[o]),
           NEW p \in Operations, Begun(w, p),
           NEW verdict, VerdictFits(w, w.asked[p], verdict)
    PROVE  VerdictFits(v, w.asked[p], verdict)
<1> DEFINE r == w.asked[o]
           q == w.asked[p]
<1>0. Beside(w, v, r.branch)
  BY CommitsBeside
<1>a. AskedFits(w) /\ q.branch \in Branches /\ q.op = p
  BY BranchOf DEF WorldFits
<1>1. CASE q.branch # r.branch
  BY <1>0, <1>1, <1>a, ElsewhereVerdict
<1>2. CASE q.branch = r.branch
  <2>1. verdict # "proposal_prepared"
    <3> SUFFICES ASSUME verdict = "proposal_prepared" PROVE FALSE
      OBVIOUS
    <3>1. w.branch[q.branch] # 0 /\ w.commits[w.branch[q.branch]].op = p
      BY <1>a DEF VerdictFits
    <3>2. Own(w, q.branch)
      BY <3>1 DEF Own, ProposalIn, RequestIn
    <3> QED BY <3>2, <1>2 DEF CommitsTo
  <2>2. ASSUME verdict = "no_change", q.command # "task.update" PROVE FALSE
    <3>1. ~ IsBootstrap(q) /\ Done(q, RootTree(w, q.branch))
      BY <2>2 DEF VerdictFits
    <3>2. q = r
      BY <3>1, <1>a, <1>2, BranchShared
    <3>3. Legal(r, TreeIn(w, w.branch[r.branch])) /\ ~ Own(w, r.branch)
      BY <3>1, <3>2 DEF CommitsTo, Proposes
    <3> QED BY <3>1, <3>2, <3>3 DEF RootTree, Root, Legal
  <2> QED BY <2>1, <2>2 DEF VerdictFits
<1> QED BY <1>1, <1>2

LEMMA CommitsCall ==
    ASSUME NEW w, NEW v, IsWorld(w), WorldFits(w), NEW o \in Operations, Begun(w, o),
           CommitsTo(w, v, w.asked[o]),
           NEW c, c.pc # "idle", CallFits(c, w),
           c.req.branch = w.asked[o].branch /\ IsBootstrap(c.req) =>
              c.pc \notin {"write", "recapture", "commit", "verify"}
    PROVE  CallFits(c, v)
<1> DEFINE r == w.asked[o]
           b == r.branch
<1>0. CallBegun(c, w) /\ CallPlace(c, w) /\ CallWork(c, w) /\ CallInputs(c, w)
      /\ (c.pc \in {"effect", "finish"} => VerdictFits(w, c.req, c.verdict))
  BY DEF CallFits
<1>a. AskedFits(w)
  BY DEF WorldFits
<1>b. /\ c.req.op \in Operations /\ Begun(w, c.req.op)
      /\ w.asked[c.req.op] = c.req /\ c.req.branch \in Branches
  BY <1>0, <1>a, CallOf
<1>c. Beside(w, v, b) /\ Own(v, b) /\ RootTree(v, b) = RootTree(w, b)
  BY CommitsBeside
<1>d. v.asked = w.asked /\ v.place = w.place /\ w.branch[b] # 0 /\ v.branch[b] # 0
  <2>w. CommitParts(w, v, w.asked[o]) /\ w.asked[o].op = o
    BY CommitsWorld
  <2>1. v.asked = w.asked /\ v.place = w.place /\ w.branch[b] # 0
    BY <2>w DEF CommitParts
  <2> QED BY <2>1, <1>c DEF Own
<1>e. Later(w, v) /\ w.place[b].there
  BY <1>c DEF Beside, CommitsTo
<1>1. CASE c.req.branch # b
  BY <1>1, <1>b, <1>c, ElsewhereCall
<1>2. CASE c.req.branch = b
  <2> HIDE DEF b
  <2>1. CallBegun(c, v)
    BY <1>0, <1>d DEF CallBegun
  <2>2. CallPlace(c, v)
    BY <1>0, <1>2, <1>d, <1>e DEF CallPlace
  <2>3. CallWork(c, v)
    BY <1>0, <1>2, <1>c, <1>d DEF CallWork
  <2>4. CallInputs(c, v)
    <3> SUFFICES ASSUME IsBootstrap(c.req) PROVE CallInputs(c, v)
      BY DEF CallInputs
    <3>1. c.pc \notin {"write", "recapture", "commit", "verify"}
      BY <1>2 DEF b
    <3> QED BY <3>1, <1>0, <1>e, InputsKept DEF CallInputs
  <2>5. c.pc \in {"effect", "finish"} => VerdictFits(v, c.req, c.verdict)
    <3> DEFINE p == c.req.op
    <3>1. p \in Operations /\ Begun(w, p) /\ w.asked[p] = c.req
      BY <1>b
    <3> HIDE DEF p
    <3>2. ASSUME c.pc \in {"effect", "finish"} PROVE VerdictFits(v, w.asked[p], c.verdict)
      BY <3>1, <3>2, <1>0, CommitsVerdict
    <3> QED BY <3>1, <3>2
  <2> QED BY <2>1, <2>2, <2>3, <2>4, <2>5 DEF CallFits
<1> QED BY <1>1, <1>2

-----------------------------------------------------------------------------
(* A proposal is merged.                                                    *)

ForkIn(w, n) == CHOOSE f \in PastIn(w, n) \cap Merged(w) :
                   \A g \in PastIn(w, n) \cap Merged(w) : g <= f
\* what a proposal n changes since its fork
FromTo(old, new) == {s \in Slots : new[s] # old[s]}
FilesOf(changed) == {FileOf[s] : s \in changed}
Joined(files, theirs, ours) ==
    [s \in Slots |-> IF FileOf[s] \in files THEN theirs[s] ELSE ours[s]]

(* A change of one file, that permits of every Task of it.                  *)
Moved(old, new) ==
    /\ old # Absent => new.state \in Transitions[old.state]
    /\ old = Absent => new.state \in {"absent", "planned"}
OneFile(old, new) ==
    /\ \A s, t \in FromTo(old, new) : FileOf[s] = FileOf[t]
    /\ \A s \in TaskSlots : Moved(old[s], new[s])

LEMMA MovedSame ==
    ASSUME NEW v, TaskFits(v)
    PROVE  Moved(v, v)
BY TransitionsClosed DEF Moved, TaskFits, Absent, Value

(* The past of what is merged is merged.                                    *)
LEMMA PastOfMerged ==
    ASSUME NEW w, WorldFits(w), NEW f \in Merged(w)
    PROVE  /\ f \in Commits(w) /\ PastIn(w, f) \subseteq Merged(w)
           /\ \A g \in PastIn(w, f) : g \in Nat /\ f \in Nat /\ g <= f
<1>1. w.main \in Commits(w) /\ CommitFits(w, w.main) /\ Len(w.commits) \in Nat
  BY DEF WorldFits, HistoryFits
<1>2. f \in Commits(w)
  BY <1>1 DEF Merged, PastIn, CommitFits, Commits
<1>3. CommitFits(w, f) /\ f \in Nat
  BY <1>2, <1>1 DEF WorldFits, HistoryFits, Commits
<1>4. PastIn(w, f) \subseteq Merged(w)
  BY <1>1 DEF Merged, PastIn, CommitFits
<1>5. \A g \in PastIn(w, f) : g \in Nat /\ g <= f
  BY <1>2, <1>3 DEF PastIn, CommitFits
<1> QED BY <1>2, <1>3, <1>4, <1>5

LEMMA ForkIs ==
    ASSUME NEW w, WorldFits(w), NEW n, NEW f \in Merged(w),
           PastIn(w, n) \cap Merged(w) = PastIn(w, f)
    PROVE  ForkIn(w, n) = f
<1>1. f \in PastIn(w, f) /\ \A g \in PastIn(w, f) : g \in Nat /\ f \in Nat /\ g <= f
  BY PastOfMerged DEF PastIn
<1> QED BY <1>1 DEF ForkIn

(* A proposal over a merged base.                                           *)
LEMMA ForkOfProposal ==
    ASSUME NEW w, WorldFits(w), NEW n \in Commits(w), n \notin Merged(w)
    PROVE  LET base == w.commits[n].base
           IN  /\ ProposalIn(w, n) /\ ProposalFits(w, n)
               /\ base \in Commits(w)
               /\ base \in Merged(w) => ForkIn(w, n) = base
               /\ base \notin Merged(w) =>
                     /\ RequestIn(w, n).command = "bootstrap.accept"
                     /\ BootstrapProposal(w, base) /\ ProposalFits(w, base)
                     /\ w.commits[base].base \in Merged(w)
                     /\ ForkIn(w, n) = w.commits[base].base
<1> DEFINE base == w.commits[n].base
           r == RequestIn(w, n)
<1>1. ProposalIn(w, n) /\ ProposalFits(w, n)
  BY DEF WorldFits, HistoryFits, CommitFits, ProposalsFit
<1>2. /\ RootFits(w, r, base) /\ w.commits[n].past = PastIn(w, base)
  BY <1>1 DEF ProposalFits
<1>3. base \in Commits(w)
  BY <1>2 DEF RootFits
<1>4. ASSUME base \in Merged(w) PROVE ForkIn(w, n) = base
  <2>1. PastIn(w, n) \cap Merged(w) = PastIn(w, base)
    BY <1>2, <1>4, PastOfMerged DEF PastIn
  <2> QED BY <2>1, <1>4, ForkIs
<1>5. ASSUME base \notin Merged(w)
      PROVE  /\ r.command = "bootstrap.accept"
             /\ BootstrapProposal(w, base) /\ ProposalFits(w, base)
             /\ w.commits[base].base \in Merged(w)
             /\ ForkIn(w, n) = w.commits[base].base
  <2>1. r.command = "bootstrap.accept" /\ BootstrapProposal(w, base)
    BY <1>2, <1>5 DEF RootFits
  <2>2. ProposalFits(w, base)
    BY <2>1, <1>3 DEF WorldFits, ProposalsFit, BootstrapProposal
  <2> DEFINE first == w.commits[base].base
  <2>3. /\ RootFits(w, RequestIn(w, base), first)
        /\ w.commits[base].past = PastIn(w, first)
    BY <2>2 DEF ProposalFits
  <2>4. first \in Merged(w)
    BY <2>1, <2>3 DEF RootFits, BootstrapProposal
  <2> HIDE DEF first
  <2>5. PastIn(w, n) \cap Merged(w) = PastIn(w, first)
    BY <1>2, <1>5, <2>3, <2>4, PastOfMerged DEF PastIn
  <2>6. ForkIn(w, n) = first
    BY <2>4, <2>5, ForkIs
  <2> QED BY <2>1, <2>2, <2>4, <2>6 DEF first
<1> QED BY <1>1, <1>3, <1>4, <1>5

LEMMA BootstrapOneFile ==
    ASSUME NEW old, NEW new, TreeFits(old),
           \A s \in Slots \ {"config", "record"} : new[s] = old[s]
    PROVE  OneFile(old, new)
<1>1. FromTo(old, new) \subseteq {"config", "record"}
  BY DEF FromTo
<1>2. \A s \in TaskSlots : new[s] = old[s] /\ TaskFits(old[s])
  BY SlotAssumption DEF TreeFits
<1> QED BY <1>1, <1>2, MovedSame, SlotAssumption DEF OneFile

LEMMA LegalOneFile ==
    ASSUME NEW r \in Requests, ~ IsBootstrap(r), NEW old, TreeFits(old), Legal(r, old)
    PROVE  OneFile(old, With(r, old))
<1>1. FromTo(old, With(r, old)) \subseteq {r.slot}
  BY WithTree DEF FromTo
<1>2. ASSUME NEW s \in TaskSlots PROVE Moved(old[s], With(r, old)[s])
  <2>0. TaskFits(old[s]) /\ s \in Slots
    BY SlotAssumption DEF TreeFits
  <2>1. CASE s # r.slot
    BY <2>0, <2>1, WithTree, MovedSame
  <2>2. CASE s = r.slot
    <3>1. r.command \in TaskCommands
      BY <2>2, OtherSlot
    <3> QED BY <2>0, <2>2, <3>1, WithTree, LegalTask DEF Moved
  <2> QED BY <2>1, <2>2
<1> QED BY <1>1, <1>2 DEF OneFile

(* What a proposal changes since the fork, and that it does not unmake a    *)
(* managed Project.                                                         *)
ForkFits(w, n) ==
    LET fork == ForkIn(w, n)
    IN  /\ fork \in Merged(w)
        /\ OneFile(TreeIn(w, fork), TreeIn(w, n))
        /\ TreeIn(w, fork)["record"].state = "managed" =>
              TreeIn(w, n)["record"].state = "managed"

LEMMA ManagedManifest ==
    ASSUME NEW version, NEW tree, Holds(tree, Manifest(version))
    PROVE  tree["record"].state # "managed"
<1>1. "record" \in DOMAIN Manifest(version)
      /\ Manifest(version)["record"] = Value("bootstrapping", version)
  BY ManifestIs
<1>2. tree["record"] = Value("bootstrapping", version)
  BY <1>1 DEF Holds
<1>3. Value("bootstrapping", version).state = "bootstrapping"
  BY DEF Value
<1> QED BY <1>2, <1>3

LEMMA ForkOneFile ==
    ASSUME NEW w, WorldFits(w), NEW n \in Commits(w), n \notin Merged(w)
    PROVE  ForkFits(w, n)
<1> DEFINE base == w.commits[n].base
           r == RequestIn(w, n)
<1>1. /\ ProposalIn(w, n) /\ ProposalFits(w, n) /\ base \in Commits(w)
  BY ForkOfProposal
<1>2. Proposes(w, r, base, TreeIn(w, n)) /\ TreeFits(TreeIn(w, base))
  BY <1>1 DEF ProposalFits, WorldFits, HistoryFits, CommitFits
<1>3. r \in Requests
  BY <1>1 DEF ProposalFits, ProposalIn, RequestIn, Begun, WorldFits, AskedFits
<1>4. IsBootstrap(r) =>
         \A s \in Slots \ {"config", "record"} : TreeIn(w, n)[s] = TreeIn(w, base)[s]
  <2> SUFFICES ASSUME IsBootstrap(r)
               PROVE  \A s \in Slots \ {"config", "record"} :
                         TreeIn(w, n)[s] = TreeIn(w, base)[s]
    OBVIOUS
  <2>1. PICK version : TreeIn(w, n) = Over(Changes(r, version), TreeIn(w, base))
    BY <1>2 DEF Proposes
  <2> HIDE DEF r, base
  <2> QED BY <2>1, OverTree, ChangesOfBootstrap
<1>5. CASE base \in Merged(w)
  <2>1. ForkIn(w, n) = base
    BY <1>5, ForkOfProposal
  <2>2. CASE IsBootstrap(r)
    <3>1. OneFile(TreeIn(w, base), TreeIn(w, n))
      BY <2>2, <1>2, <1>4, BootstrapOneFile
    <3>2. TreeIn(w, base)["record"].state # "managed"
      <4>1. PICK version : InputsFit(w, r, version)
        BY <1>2, <2>2 DEF Proposes
      <4>2. base = r.base
        BY <1>1, <2>2 DEF ProposalFits, IsBootstrap, BootstrapCommands, TaskCommands
      <4>3. CASE r.command = "bootstrap.propose"
        BY <4>1, <4>2, <4>3 DEF InputsFit, Absent, Value
      <4>4. CASE r.command = "bootstrap.accept"
        BY <4>1, <4>2, <4>4, ManagedManifest DEF InputsFit
      <4> QED BY <4>3, <4>4, <2>2 DEF IsBootstrap, BootstrapCommands
    <3> QED BY <2>1, <3>1, <3>2, <1>5 DEF ForkFits
  <2>3. CASE ~ IsBootstrap(r)
    <3>1. Legal(r, TreeIn(w, base)) /\ TreeIn(w, n) = With(r, TreeIn(w, base))
      BY <1>2, <2>3 DEF Proposes
    <3>2. OneFile(TreeIn(w, base), TreeIn(w, n))
      BY <3>1, <2>3, <1>2, <1>3, LegalOneFile
    <3>3. TreeIn(w, n)["record"] = TreeIn(w, base)["record"]
      BY <3>1, <2>3, <1>3, OtherSlot, WithTree, SlotAssumption
    <3> QED BY <2>1, <3>2, <3>3, <1>5 DEF ForkFits
  <2> QED BY <2>2, <2>3
<1>6. CASE base \notin Merged(w)
  <2> DEFINE first == w.commits[base].base
             q == RequestIn(w, base)
  <2>1. /\ r.command = "bootstrap.accept"
        /\ BootstrapProposal(w, base) /\ ProposalFits(w, base)
        /\ first \in Merged(w)
        /\ ForkIn(w, n) = first
    BY <1>6, ForkOfProposal
  <2>2. q.command = "bootstrap.propose" /\ Proposes(w, q, first, TreeIn(w, base))
        /\ IsBootstrap(q) /\ first = q.base
    BY <2>1 DEF BootstrapProposal, ProposalFits, IsBootstrap, BootstrapCommands,
                TaskCommands
  <2>3. PICK version : /\ InputsFit(w, q, version)
                       /\ TreeIn(w, base) = Over(Changes(q, version), TreeIn(w, first))
    BY <2>2 DEF Proposes
  <2>4. TreeFits(TreeIn(w, first))
    BY <2>1, PastOfMerged DEF WorldFits, HistoryFits, CommitFits
  <2>5. TreeIn(w, first)["record"] = Absent
    BY <2>2, <2>3 DEF InputsFit
  <2>6. TreeIn(w, first)["record"].state # "managed"
    BY <2>5 DEF Absent, Value
  <2>a. IsBootstrap(r)
    BY <2>1 DEF IsBootstrap, BootstrapCommands
  <2> HIDE DEF q, first, r, base
  <2>7. \A s \in Slots \ {"config", "record"} : TreeIn(w, n)[s] = TreeIn(w, first)[s]
    BY <2>a, <2>2, <2>3, <1>4, OverTree, ChangesOfBootstrap
  <2>8. OneFile(TreeIn(w, first), TreeIn(w, n))
    BY <2>4, <2>7, BootstrapOneFile
  <2> QED BY <2>1, <2>6, <2>8 DEF ForkFits
<1> QED BY <1>5, <1>6

(* What a merge makes of the default branch.                                *)
LEMMA JoinedFits ==
    ASSUME NEW fork, NEW theirs, NEW ours, OneFile(fork, theirs),
           TreeFits(theirs), TreeFits(ours),
           FilesOf(FromTo(fork, theirs)) \cap FilesOf(FromTo(fork, ours)) = {},
           fork["record"].state = "managed" => theirs["record"].state = "managed"
    PROVE  LET files == FilesOf(FromTo(fork, theirs))
               new == Joined(files, theirs, ours)
           IN  /\ TreeFits(new) /\ OneFile(ours, new)
               /\ ours["record"].state = "managed" => new["record"].state = "managed"
<1> DEFINE files == FilesOf(FromTo(fork, theirs))
           new == Joined(files, theirs, ours)
<1>1. \A s \in Slots : /\ FileOf[s] \in files => new[s] = theirs[s] /\ ours[s] = fork[s]
                       /\ FileOf[s] \notin files => new[s] = ours[s]
  BY DEF Joined, FilesOf, FromTo
<1>2. IsTree(new)
  BY DEF Joined, IsTree
<1>3. \A s \in TaskSlots : TaskFits(new[s])
  BY <1>1, SlotAssumption DEF TreeFits
<1>4. {"config", "record"} \subseteq Slots /\ FileOf["config"] = FileOf["record"]
  BY SlotAssumption
<1>a. \A s, t \in FromTo(fork, theirs) : FileOf[s] = FileOf[t]
  BY DEF OneFile
<1>b. \A f, g \in files : f = g
  BY <1>a DEF FilesOf
<1>c. \A s \in TaskSlots : Moved(fork[s], theirs[s]) /\ TaskFits(ours[s]) /\ s \in Slots
  BY SlotAssumption DEF OneFile, TreeFits
<1> HIDE DEF files, new
<1>5. TreeFits(new)
  BY <1>1, <1>2, <1>3, <1>4 DEF TreeFits
<1>6. \A s, t \in FromTo(ours, new) : FileOf[s] = FileOf[t]
  BY <1>1, <1>b DEF FromTo
<1>7. ASSUME NEW s \in TaskSlots PROVE Moved(ours[s], new[s])
  <2>1. CASE FileOf[s] \in files
    BY <2>1, <1>1, <1>c
  <2>2. CASE FileOf[s] \notin files
    BY <2>2, <1>1, <1>c, MovedSame
  <2> QED BY <2>1, <2>2
<1>8. ours["record"].state = "managed" => new["record"].state = "managed"
  BY <1>1, <1>4
<1> QED BY <1>5, <1>6, <1>7, <1>8 DEF OneFile, files, new

Merges(w, v, n) ==
    LET files == FilesOf(FromTo(TreeIn(w, ForkIn(w, n)), TreeIn(w, n)))
    IN  /\ n \in Commits(w) /\ n \notin Merged(w)
        /\ files \cap FilesOf(FromTo(TreeIn(w, ForkIn(w, n)), TreeIn(w, w.main))) = {}
        /\ v = [w EXCEPT
                  !.commits = Append(w.commits,
                      Commit("merge", w.main, PastIn(w, n) \cup PastIn(w, w.main),
                             Joined(files, TreeIn(w, n), TreeIn(w, w.main)))),
                  !.main = Next1(w)]

LEMMA MergesWorld ==
    ASSUME NEW w, NEW v, IsWorld(w), WorldFits(w), NEW n, Merges(w, v, n)
    PROVE  /\ HistoryFits(v) /\ Later(w, v)
           /\ v.asked = w.asked /\ v.branch = w.branch /\ v.place = w.place
           /\ Commits(v) = Commits(w) \cup {Next1(w)}
           /\ ~ ProposalIn(v, Next1(w))
           /\ OneFile(TreeIn(w, w.main), TreeIn(v, v.main))
           /\ TreeIn(w, w.main)["record"].state = "managed" =>
                 TreeIn(v, v.main)["record"].state = "managed"
           /\ TreeFits(TreeIn(v, v.main))
<1> DEFINE fork == TreeIn(w, ForkIn(w, n))
           files == FilesOf(FromTo(fork, TreeIn(w, n)))
           new == Joined(files, TreeIn(w, n), TreeIn(w, w.main))
           e == Commit("merge", w.main, PastIn(w, n) \cup PastIn(w, w.main), new)
<1>1. /\ n \in Commits(w) /\ n \notin Merged(w)
      /\ files \cap FilesOf(FromTo(fork, TreeIn(w, w.main))) = {}
      /\ v.asked = w.asked /\ v.branch = w.branch /\ v.place = w.place
      /\ v.main = Next1(w) /\ Grows(w, v, e)
  BY DEF Merges, IsWorld, Grows
<1>2. e.op = "merge" /\ e.past = PastIn(w, n) \cup PastIn(w, w.main) /\ e.tree = new
  BY DEF Commit
<1>3. /\ CommitFits(w, n) /\ w.main \in Commits(w) /\ CommitFits(w, w.main)
  BY <1>1 DEF WorldFits, HistoryFits
<1>4. TreeFits(TreeIn(w, n)) /\ TreeFits(TreeIn(w, w.main))
  BY <1>3 DEF CommitFits
<1>5. OneFile(fork, TreeIn(w, n))
      /\ (fork["record"].state = "managed" => TreeIn(w, n)["record"].state = "managed")
  BY <1>1, ForkOneFile DEF ForkFits
<1>6. /\ TreeFits(new) /\ OneFile(TreeIn(w, w.main), new)
      /\ TreeIn(w, w.main)["record"].state = "managed" => new["record"].state = "managed"
  <2> DEFINE theirs == TreeIn(w, n)
             ours == TreeIn(w, w.main)
  <2>1. /\ OneFile(fork, theirs) /\ TreeFits(theirs) /\ TreeFits(ours)
        /\ FilesOf(FromTo(fork, theirs)) \cap FilesOf(FromTo(fork, ours)) = {}
        /\ fork["record"].state = "managed" => theirs["record"].state = "managed"
        /\ new = Joined(FilesOf(FromTo(fork, theirs)), theirs, ours)
    BY <1>1, <1>4, <1>5
  <2>2. ours = TreeIn(w, w.main)
    OBVIOUS
  <2> HIDE DEF fork, theirs, ours, new
  <2> QED BY <2>1, <2>2, JoinedFits
<1> HIDE DEF e, new, files, fork
<1>7. /\ Commits(v) = Commits(w) \cup {Next1(w)} /\ v.commits[Next1(w)] = e
      /\ \A m \in Commits(w) : v.commits[m] = w.commits[m]
      /\ Len(w.commits) \in Nat
  BY <1>1, GrowsWorld
<1>8. TreeIn(v, v.main) = new /\ PastIn(v, v.main) = e.past \cup {Next1(w)}
  BY <1>1, <1>2, <1>7 DEF TreeIn, PastIn
<1>9. Merged(w) \subseteq Merged(v) /\ Next1(w) \in Merged(v) /\ v.main \in Commits(v)
  BY <1>1, <1>2, <1>7, <1>8 DEF Merged
<1>10. \A m \in PastIn(w, n) \cup PastIn(w, w.main) :
          m \in Commits(w) /\ w.commits[m].past \subseteq e.past
  <2>1. \A k \in Commits(w) : CommitFits(w, k) =>
           \A m \in PastIn(w, k) :
              m \in Commits(w) /\ w.commits[m].past \subseteq PastIn(w, k)
    BY <1>7 DEF CommitFits, PastIn, Commits
  <2> QED BY <2>1, <1>1, <1>2, <1>3
<1>11. e.past \subseteq Commits(w) /\ \A m \in e.past : w.commits[m].past \subseteq e.past
  BY <1>2, <1>10
<1>12. HistoryFits(v) /\ Later(w, v)
  BY <1>1, <1>2, <1>6, <1>9, <1>11, GrowsHistory
<1>13. ~ ProposalIn(v, Next1(w))
  BY <1>2, <1>7, MarkerAssumption DEF ProposalIn
<1> QED BY <1>1, <1>6, <1>7, <1>8, <1>12, <1>13

LEMMA MergesFits ==
    ASSUME NEW w, NEW v, IsWorld(w), WorldFits(w), NEW n, Merges(w, v, n)
    PROVE  WorldFits(v)
<1>0. /\ HistoryFits(v) /\ Later(w, v)
      /\ v.asked = w.asked /\ v.branch = w.branch /\ v.place = w.place
      /\ Commits(v) = Commits(w) \cup {Next1(w)}
      /\ ~ ProposalIn(v, Next1(w))
      /\ TreeIn(w, w.main)["record"].state = "managed" =>
            TreeIn(v, v.main)["record"].state = "managed"
  BY MergesWorld
<1>a. AskedFits(w)
  BY DEF WorldFits
<1>1. AskedFits(v)
  BY <1>0, <1>a DEF AskedFits, Begun, Later
<1>3. ManagedFits(v)
  BY <1>0 DEF ManagedFits, WorldFits, Begun
<1>4. ProposalsFit(v)
  <2> SUFFICES ASSUME NEW m \in Commits(v), ProposalIn(v, m) PROVE ProposalFits(v, m)
    BY DEF ProposalsFit
  <2>1. m \in Commits(w)
    BY <1>0
  <2>2. ProposalIn(w, m)
    BY <2>1, <1>0, RequestKept
  <2>3. w.branch[RequestIn(w, m).branch] = m
    BY <2>1, <2>2 DEF WorldFits, ProposalsFit, ProposalFits
  <2> QED BY <2>1, <2>2, <2>3, <1>0, ProposalKept
<1>5. BranchesFit(v)
  <2>1. ASSUME NEW p \in Operations, Begun(v, p), v.branch[v.asked[p].branch] # 0
        PROVE  RootFits(v, v.asked[p], Root(v, v.asked[p].branch))
    <3>1. Begun(w, p) /\ w.asked[p].branch \in Branches
      BY <2>1, <1>0, <1>a, BranchOf DEF Begun
    <3>2. RootFits(w, w.asked[p], Root(w, w.asked[p].branch))
      BY <3>1, <2>1, <1>0 DEF WorldFits, BranchesFit
    <3> QED BY <3>1, <3>2, <1>0, RootFitsKept, RootKept
  <2>2. \A a \in Branches : v.branch[a] # 0 => v.branch[a] \in Commits(v)
    BY <1>0 DEF WorldFits, BranchesFit
  <2>3. /\ v.branch = [a \in Branches |-> v.branch[a]]
        /\ \A a \in Branches : v.branch[a] # 0 =>
              \E p \in Operations : Begun(v, p) /\ v.asked[p].branch = a
    BY <1>0 DEF WorldFits, BranchesFit, Begun
  <2> QED BY <2>1, <2>2, <2>3 DEF BranchesFit
<1>6. PlacesFit(v)
  <2>1. ASSUME NEW p \in Operations, Begun(v, p), v.place[v.asked[p].branch].there
        PROVE  PlaceFits(v, v.asked[p])
    <3>1. Begun(w, p) /\ w.asked[p].branch \in Branches
      BY <2>1, <1>0, <1>a, BranchOf DEF Begun
    <3>2. PlaceFits(w, w.asked[p]) /\ w.branch[w.asked[p].branch] # 0
      BY <3>1, <2>1, <1>0 DEF WorldFits, PlacesFit
    <3> QED BY <3>1, <3>2, <1>0, PlaceKept DEF SameBranch
  <2> QED BY <2>1, <1>0 DEF PlacesFit, WorldFits
<1> QED BY <1>0, <1>1, <1>3, <1>4, <1>5, <1>6 DEF WorldFits

-----------------------------------------------------------------------------
(* A step of the program, from what it does to the repository and the call. *)

LEMMA WorldIs ==
    IsWorld(World)
BY DEF IsWorld, World

LEMMA Concludes ==
    ASSUME Inv, NEW x \in Executors, NEW c,
           exec' = [exec EXCEPT ![x] = c],
           journal' = [o \in Operations |-> journal'[o]],
           lock' = [b \in Branches |-> lock'[b]],
           source' \in Sources,
           WorldFits(World'),
           CallFits(c, World'),
           \A y \in Executors \ {x} : CallFits(exec[y], World'),
           \A o \in Operations : RowFits(journal'[o], World'),
           Holding(c) => lock'[c.req.branch] = x,
           \A y \in Executors \ {x} : Holding(exec[y]) => lock'[exec[y].req.branch] = y,
           c.pc = "attach" => \A y \in Executors \ {x} :
               exec[y].pc = "attach" => exec[y].req.branch # c.req.branch
    PROVE  Inv'
<1>1. exec = [y \in Executors |-> exec[y]]
  BY DEF Inv
<1>2. exec' = [y \in Executors |-> exec'[y]]
      /\ exec'[x] = c /\ \A y \in Executors \ {x} : exec'[y] = exec[y]
  BY <1>1
<1>3. ASSUME NEW y \in Executors
      PROVE  /\ CallFits(exec'[y], World')
             /\ Holding(exec'[y]) => lock'[exec'[y].req.branch] = y
  BY <1>2
<1>4. ASSUME NEW y \in Executors, NEW z \in Executors, y # z,
             exec'[y].pc = "attach", exec'[z].pc = "attach"
      PROVE  exec'[y].req.branch # exec'[z].req.branch
  <2>1. CASE y = x
    BY <2>1, <1>2, <1>4
  <2>2. CASE z = x
    BY <2>2, <1>2, <1>4
  <2>3. CASE y # x /\ z # x
    BY <2>3, <1>2, <1>4 DEF Inv
  <2> QED BY <2>1, <2>2, <2>3
<1> QED BY <1>2, <1>3, <1>4 DEF Inv

(* The rows keep their requests and results.                                *)
RowsKept ==
    /\ journal' = [o \in Operations |-> journal'[o]]
    /\ \A o \in Operations :
          /\ journal'[o].request = journal[o].request
          /\ journal'[o].result = journal[o].result
          /\ journal'[o].state = "absent" <=> journal[o].state = "absent"

LEMMA RowsOfHold ==
    ASSUME Inv, UNCHANGED journal
    PROVE  RowsKept
BY DEF Inv, RowsKept

LEMMA RowsOfAppend ==
    ASSUME Inv, NEW o \in Operations, NEW kind, AppendEvent(o, kind)
    PROVE  RowsKept
<1>1. journal = [p \in Operations |-> journal[p]]
  BY DEF Inv
<1>2. /\ journal' = [journal EXCEPT ![o] = journal'[o]]
      /\ journal'[o] = Row("running", journal[o].request,
                           Append(journal[o].events, kind), journal[o].result)
      /\ journal[o].state = "running"
  BY <1>1 DEF AppendEvent, Running
<1>3. /\ journal'[o].request = journal[o].request
      /\ journal'[o].result = journal[o].result
      /\ journal'[o].state = "running" /\ journal[o].state = "running"
  BY <1>2 DEF Row
<1>4. \A p \in Operations \ {o} : journal'[p] = journal[p]
  BY <1>1, <1>2
<1>5. journal' = [p \in Operations |-> journal'[p]]
  BY <1>1, <1>2
<1> QED BY <1>3, <1>4, <1>5 DEF RowsKept

LEMMA WorldOfRows ==
    ASSUME Inv, RowsKept, Keep
    PROVE  /\ World' = World
           /\ \A o \in Operations : RowFits(journal'[o], World')
<1>1. Asked' = Asked
  BY DEF RowsKept, Asked
<1>2. World' = World
  BY <1>1 DEF Keep, World
<1>3. ASSUME NEW o \in Operations PROVE RowFits(journal'[o], World)
  <2>1. RowFits(journal[o], World)
    BY DEF Inv
  <2>2. /\ journal'[o].request = journal[o].request
        /\ journal'[o].result = journal[o].result
        /\ journal'[o].state = "absent" <=> journal[o].state = "absent"
    BY DEF RowsKept
  <2> QED BY <2>1, <2>2 DEF RowFits
<1> QED BY <1>2, <1>3

LEMMA ReleaseKeeps ==
    ASSUME Inv, NEW x \in Executors, Release(x)
    PROVE  /\ lock' = [b \in Branches |-> lock'[b]]
           /\ \A y \in Executors \ {x} :
                 exec[y].req.branch \in Branches /\ Holding(exec[y]) =>
                    lock'[exec[y].req.branch] = y
<1>1. lock' = [b \in Branches |-> lock'[b]]
  BY DEF Release
<1>2. \A b \in Branches : lock[b] # x => lock'[b] = lock[b]
  BY DEF Release
<1> QED BY <1>1, <1>2 DEF Inv

LEMMA BranchOfCall ==
    ASSUME Inv, NEW x \in Executors, exec[x].pc # "idle"
    PROVE  /\ CallFits(exec[x], World) /\ CallBegun(exec[x], World)
           /\ WorldFits(World) /\ AskedFits(World)
           /\ exec[x].req.op \in Operations /\ Begun(World, exec[x].req.op)
           /\ World.asked[exec[x].req.op] = exec[x].req
           /\ journal[exec[x].req.op].request = exec[x].req
           /\ exec[x].req \in Requests /\ exec[x].req.branch \in Branches
<1>1. CallFits(exec[x], World) /\ WorldFits(World)
  BY DEF Inv
<1>2. CallBegun(exec[x], World) /\ AskedFits(World)
  BY <1>1 DEF CallFits, WorldFits
<1>3. /\ exec[x].req.op \in Operations /\ Begun(World, exec[x].req.op)
      /\ World.asked[exec[x].req.op] = exec[x].req
      /\ exec[x].req \in Requests /\ exec[x].req.branch \in Branches
  BY <1>2, CallOf
<1>4. journal[exec[x].req.op].request = exec[x].req
  BY <1>3 DEF World, Asked
<1> QED BY <1>1, <1>2, <1>3, <1>4

LEMMA HoldingBusy ==
    ASSUME NEW c, Holding(c)
    PROVE  c.pc # "idle" /\ c.pc \in Locked
BY DEF Holding, Locked

(* A step of a call that leaves the repository alone.                       *)
LEMMA StaysAsIs ==
    ASSUME Inv, NEW x \in Executors, NEW c,
           exec' = [exec EXCEPT ![x] = c], RowsKept, Keep,
           CallFits(c, World),
           \/ UNCHANGED lock /\ (Holding(c) => lock[c.req.branch] = x)
           \/ Release(x) /\ ~ Holding(c),
           c.pc = "attach" => \A y \in Executors \ {x} :
               exec[y].pc = "attach" => exec[y].req.branch # c.req.branch
    PROVE  Inv'
<1>1. World' = World /\ \A o \in Operations : RowFits(journal'[o], World')
  BY WorldOfRows
<1>2. /\ lock' = [b \in Branches |-> lock'[b]]
      /\ Holding(c) => lock'[c.req.branch] = x
      /\ \A y \in Executors \ {x} : Holding(exec[y]) => lock'[exec[y].req.branch] = y
  <2>1. CASE UNCHANGED lock /\ (Holding(c) => lock[c.req.branch] = x)
    BY <2>1 DEF Inv
  <2>2. CASE Release(x) /\ ~ Holding(c)
    <3>1. \A y \in Executors : Holding(exec[y]) => exec[y].req.branch \in Branches
      BY BranchOfCall, HoldingBusy
    <3> QED BY <2>2, <3>1, ReleaseKeeps
  <2> QED BY <2>1, <2>2
<1>3. /\ WorldFits(World') /\ CallFits(c, World')
      /\ \A y \in Executors \ {x} : CallFits(exec[y], World')
      /\ source' \in Sources /\ journal' = [o \in Operations |-> journal'[o]]
  BY <1>1 DEF Inv, Keep, RowsKept
<1> QED BY <1>1, <1>2, <1>3, Concludes

(* A call that has nothing more to rely on.                                 *)
LEMMA SimpleFits ==
    ASSUME NEW w, NEW c, c.pc \in {"authorize", "lock", "base", "fail"}, CallBegun(c, w)
    PROVE  CallFits(c, w)
BY DEF CallFits, CallPlace, CallWork, CallInputs, Placed, Locked

LEMMA NoCallFits ==
    ASSUME NEW w
    PROVE  CallFits(NoCall, w) /\ ~ Holding(NoCall) /\ NoCall.pc = "idle"
BY DEF CallFits, NoCall, Call, Holding, Locked

LEMMA RefuseKeeps ==
    ASSUME Inv, NEW x \in Executors, exec[x].pc # "idle", Refuse(x)
    PROVE  Inv'
<1> DEFINE c == Call("fail", exec[x].req, exec[x].knows, Unread, "none")
<1>1. c.pc = "fail" /\ c.req = exec[x].req
  BY DEF Call
<1>2. exec' = [exec EXCEPT ![x] = c] /\ Release(x) /\ Keep /\ UNCHANGED journal
  BY DEF Refuse, Goto, Hold
<1> HIDE DEF c
<1>3. CallBegun(c, World)
  BY <1>1, BranchOfCall DEF CallBegun, Locked
<1>4. CallFits(c, World)
  BY <1>1, <1>3, SimpleFits
<1>5. ~ Holding(c)
  BY <1>1 DEF Holding, Locked
<1>6. RowsKept
  BY <1>2, RowsOfHold
<1> QED BY <1>1, <1>2, <1>4, <1>5, <1>6, StaysAsIs

(* A call that is dropped or gives up.                                      *)
LEMMA ReturnKeeps ==
    ASSUME Inv, NEW x \in Executors, RowsKept, Keep, Return(x),
           UNCHANGED lock \/ Release(x)
    PROVE  Inv'
<1>1. exec' = [exec EXCEPT ![x] = NoCall]
  BY DEF Return
<1> QED BY <1>1, NoCallFits, StaysAsIs

-----------------------------------------------------------------------------
(* The steps of a call that leave the repository alone.                     *)

\* what a call keeps from one phase to the next
LEMMA CallOn ==
    ASSUME NEW w, NEW c, NEW d, c.pc # "idle", CallFits(c, w), d.req = c.req,
           d.pc \in Locked \cup {"lock"} => c.pc \in Locked \cup {"lock"} \/ c.req \notin Denied
    PROVE  CallBegun(d, w)
BY DEF CallFits, CallBegun

LEMMA KindOfCall ==
    ASSUME NEW r \in Requests
    PROVE  /\ ~ IsBootstrap(r) <=> r.command \in TaskCommands \cup PolicyCommands
           /\ r.command \in TaskCommands =>
                 ~ IsBootstrap(r) /\ r.command \notin PolicyCommands
           /\ r.command \in PolicyCommands =>
                 ~ IsBootstrap(r) /\ r.command \notin TaskCommands
BY ControlRequestAssumption
   DEF IsBootstrap, TaskCommands, PolicyCommands, BootstrapCommands

LEMMA EndsWith ==
    ASSUME Inv, NEW x \in Executors, exec[x].pc # "idle", NEW pc \in {"effect", "finish"},
           NEW verdict, NEW k, NEW seen,
           exec' = [exec EXCEPT ![x] = Call(pc, exec[x].req, k, seen, verdict)],
           RowsKept, Keep, UNCHANGED lock \/ Release(x),
           VerdictFits(World, exec[x].req, verdict)
    PROVE  Inv'
<1> DEFINE c == Call(pc, exec[x].req, k, seen, verdict)
<1>1. c.pc = pc /\ c.req = exec[x].req /\ c.verdict = verdict
  BY DEF Call
<1>2. exec' = [exec EXCEPT ![x] = c]
  OBVIOUS
<1> HIDE DEF c
<1>3. c.pc # "attach" /\ ~ Holding(c)
  BY <1>1 DEF Holding, Locked
<1>4. CallBegun(c, World)
  BY <1>1, BranchOfCall DEF CallBegun, Locked
<1>5. CallFits(c, World)
  BY <1>1, <1>4 DEF CallFits, CallPlace, CallWork, CallInputs, Placed, Locked
<1> QED BY <1>2, <1>3, <1>5, StaysAsIs

LEMMA AuthorizeKeeps ==
    ASSUME Inv, NEW x \in Executors, AuthorizeActor(x)
    PROVE  Inv'
<1> DEFINE next == IF TaskCall(x) THEN "base" ELSE "lock"
           c == Call(next, exec[x].req, exec[x].knows, exec[x].seen, "none")
<1>0. exec[x].pc = "authorize" /\ exec[x].req \notin Denied /\ Keep /\ UNCHANGED lock
  BY DEF AuthorizeActor, Authorize, controlVars, Keep
<1>1. exec[x].pc # "idle" /\ exec[x].req.op \in Operations
  BY <1>0, BranchOfCall
<1>2. RowsKept
  BY <1>1, RowsOfHold, RowsOfAppend DEF AuthorizeActor, Authorize, Record, Op
<1>3. CASE Return(x)
  BY <1>0, <1>2, <1>3, ReturnKeeps
<1>4. CASE exec' = [exec EXCEPT ![x] = c]
  <2>1. c.req = exec[x].req /\ c.pc \in {"base", "lock"}
        /\ (c.pc = "base" => c.req.command \in TaskCommands)
    BY DEF Call, TaskCall
  <2> HIDE DEF c
  <2>2. CallFits(c, World)
    BY <2>1, <1>0, <1>1, BranchOfCall, CallOn, SimpleFits
  <2>3. ~ Holding(c) /\ c.pc # "attach"
    BY <2>1 DEF Holding, Locked
  <2> QED BY <2>2, <2>3, <1>0, <1>2, <1>4, StaysAsIs
<1> QED BY <1>3, <1>4 DEF AuthorizeActor, Authorize, Record, Read

LEMMA RecordKeeps ==
    ASSUME Inv, NEW x \in Executors, exec[x].pc # "idle", NEW kind, NEW verdict,
           RecordAlways(x, kind, verdict), UNCHANGED controlVars,
           VerdictFits(World, exec[x].req, verdict)
    PROVE  Inv'
<1>0. Keep /\ UNCHANGED lock /\ exec[x].req.op \in Operations
  BY BranchOfCall DEF Keep, controlVars
<1>1. RowsKept
  BY <1>0, RowsOfHold, RowsOfAppend DEF RecordAlways, Op
<1>2. CASE Return(x)
  BY <1>0, <1>1, <1>2, ReturnKeeps
<1>3. CASE Goto(x, "finish", verdict)
  BY <1>0, <1>1, <1>3, EndsWith DEF Goto
<1> QED BY <1>2, <1>3 DEF RecordAlways

LEMMA DenyKeeps ==
    ASSUME Inv, NEW x \in Executors, DenyActor(x)
    PROVE  Inv'
<1>1. exec[x].pc = "authorize" /\ UNCHANGED controlVars
      /\ RecordAlways(x, "authorization_denied", "denied")
  BY DEF DenyActor, Deny
<1>2. VerdictFits(World, exec[x].req, "denied")
  BY DEF VerdictFits
<1> QED BY <1>1, <1>2, RecordKeeps

LEMMA RecordProposalKeeps ==
    ASSUME Inv, NEW x \in Executors, RecordProposal(x), UNCHANGED controlVars
    PROVE  Inv'
<1>1. exec[x].pc = "effect" /\ RecordAlways(x, "effect_persisted", exec[x].verdict)
  BY DEF RecordProposal
<1>2. VerdictFits(World, exec[x].req, exec[x].verdict)
  BY <1>1, BranchOfCall DEF CallFits
<1> QED BY <1>1, <1>2, RecordKeeps

LEMMA RecordFailureKeeps ==
    ASSUME Inv, NEW x \in Executors, RecordFailure(x), UNCHANGED controlVars
    PROVE  Inv'
<1>1. exec[x].pc = "fail" /\ RecordAlways(x, "operation_failed", "failed")
  BY DEF RecordFailure
<1>2. VerdictFits(World, exec[x].req, "failed")
  BY DEF VerdictFits
<1> QED BY <1>1, <1>2, RecordKeeps

LEMMA FinishKeeps ==
    ASSUME Inv, NEW x \in Executors, Finish(x), UNCHANGED controlVars
    PROVE  Inv'
<1> DEFINE o == exec[x].req.op
<1>0. /\ exec[x].pc = "finish" /\ Keep /\ UNCHANGED lock
      /\ exec' = [exec EXCEPT ![x] = NoCall]
      /\ journal' = [journal EXCEPT ![o] =
            IF @.state = "terminal" THEN @
            ELSE Row("terminal", @.request, Append(@.events, "operation_finished"),
                     exec[x].verdict)]
  BY DEF Finish, FinishOperation, Op, Return, Keep, controlVars
<1>1. o \in Operations /\ journal[o].request = exec[x].req /\ exec[x].req # NoRequest
      /\ VerdictFits(World, exec[x].req, exec[x].verdict)
  BY <1>0, BranchOfCall, NoRequestAssumption DEF CallFits
<1>2. journal = [p \in Operations |-> journal[p]]
  BY DEF Inv
<1> HIDE DEF o
<1>3. /\ journal' = [p \in Operations |-> journal'[p]]
      /\ \A p \in Operations : p # o => journal'[p] = journal[p]
      /\ \/ journal'[o] = journal[o]
         \/ /\ journal'[o].state = "terminal" /\ journal'[o].request = journal[o].request
            /\ journal'[o].result = exec[x].verdict
  BY <1>0, <1>1, <1>2 DEF Row
<1>4. \A p \in Operations : journal'[p].request = journal[p].request
  BY <1>3
<1>5. World' = World
  BY <1>0, <1>4 DEF World, Asked, Keep
<1>6. ASSUME NEW p \in Operations PROVE RowFits(journal'[p], World)
  <2>1. RowFits(journal[p], World)
    BY DEF Inv
  <2>2. CASE journal'[p] = journal[p]
    BY <2>1, <2>2
  <2>3. CASE journal'[p] # journal[p]
    <3>1. p = o
      BY <2>3, <1>3
    <3>2. /\ journal'[p].state = "terminal" /\ journal'[p].request = exec[x].req
          /\ journal'[p].result = exec[x].verdict
      BY <3>1, <2>3, <1>1, <1>3
    <3> QED BY <3>2, <1>1 DEF RowFits
  <2> QED BY <2>2, <2>3
<1>7. /\ lock' = [b \in Branches |-> lock'[b]] /\ source' \in Sources
      /\ \A y \in Executors \ {x} : Holding(exec[y]) => lock'[exec[y].req.branch] = y
      /\ WorldFits(World') /\ \A y \in Executors \ {x} : CallFits(exec[y], World')
      /\ \A p \in Operations : RowFits(journal'[p], World')
  BY <1>0, <1>5, <1>6 DEF Inv, Keep
<1>8. CallFits(NoCall, World') /\ ~ Holding(NoCall) /\ NoCall.pc = "idle"
  BY <1>5, NoCallFits
<1> QED BY <1>0, <1>3, <1>7, <1>8, Concludes

LEMMA DieKeeps ==
    ASSUME Inv, NEW x \in Executors, Die(x)
    PROVE  Inv'
<1>1. Keep /\ Release(x) /\ UNCHANGED journal /\ Return(x)
  BY DEF Die, Abandon
<1> QED BY <1>1, RowsOfHold, ReturnKeeps

LEMMA InitAgainKeeps ==
    ASSUME Inv, InitAgain
    PROVE  Inv'
<1>1. /\ World' = World /\ journal' = journal /\ exec' = exec /\ lock' = lock
      /\ source' \in Sources
  BY DEF InitAgain, World, Asked, journalVars
<1> QED BY <1>1 DEF Inv

LEMMA LockKeeps ==
    ASSUME Inv, NEW x \in Executors, Lock(x)
    PROVE  Inv'
<1> DEFINE b == exec[x].req.branch
           c == Call("base", exec[x].req, exec[x].knows, Unread, "none")
<1>0. /\ exec[x].pc = "lock" /\ lock[b] = NoOne /\ lock' = [lock EXCEPT ![b] = x]
      /\ exec' = [exec EXCEPT ![x] = c] /\ Keep /\ UNCHANGED journal
  BY DEF Lock, Free, Branch, Goto, Hold
<1>1. c.pc = "base" /\ c.req = exec[x].req
  BY DEF Call
<1>a. b = exec[x].req.branch
  OBVIOUS
<1> HIDE DEF b, c
<1>2. CallFits(c, World) /\ b \in Branches
  BY <1>0, <1>1, <1>a, BranchOfCall, CallOn, SimpleFits
<1>3. RowsKept
  BY <1>0, RowsOfHold
<1>4. World' = World /\ \A o \in Operations : RowFits(journal'[o], World')
  BY <1>0, <1>3, WorldOfRows
<1>5. lock = [a \in Branches |-> lock[a]] /\ x # NoOne
  BY NoOneAssumption DEF Inv
<1>6. lock' = [a \in Branches |-> lock'[a]] /\ lock'[c.req.branch] = x
      /\ \A a \in Branches : lock[a] # NoOne => lock'[a] = lock[a]
  BY <1>0, <1>1, <1>2, <1>5, <1>a
<1>7. ASSUME NEW y \in Executors \ {x}, Holding(exec[y])
      PROVE  lock'[exec[y].req.branch] = y
  <2>1. lock[exec[y].req.branch] = y /\ y # NoOne /\ exec[y].req.branch \in Branches
    BY <1>7, NoOneAssumption, HoldingBusy, BranchOfCall DEF Inv
  <2> QED BY <2>1, <1>6
<1>8. /\ WorldFits(World') /\ CallFits(c, World')
      /\ \A y \in Executors \ {x} : CallFits(exec[y], World')
      /\ source' \in Sources /\ journal' = [o \in Operations |-> journal'[o]]
  BY <1>0, <1>2, <1>3, <1>4 DEF Inv, Keep, RowsKept
<1> QED BY <1>0, <1>1, <1>4, <1>6, <1>7, <1>8, Concludes

-----------------------------------------------------------------------------
(* What a call finds in its worktree.                                       *)

\* the worktree of a call that has one
PlaceOf(w, r) ==
    LET b == r.branch
    IN  /\ r \in Requests /\ b \in Branches
        /\ PlaceFits(w, r)
        /\ w.branch[b] # 0 /\ w.branch[b] \in Commits(w)
        /\ RootFits(w, r, Root(w, b)) /\ Root(w, b) \in Commits(w)
        /\ TreeFits(RootTree(w, b)) /\ TreeFits(TreeIn(w, w.branch[b]))
        /\ ~ Own(w, b) => Root(w, b) = w.branch[b] /\ RootTree(w, b) = TreeIn(w, w.branch[b])
        /\ Own(w, b) /\ ~ IsBootstrap(r) =>
              /\ Legal(r, RootTree(w, b))
              /\ w.commits[w.branch[b]].op = r.op

LEMMA PlaceIs ==
    ASSUME NEW w, WorldFits(w), NEW o \in Operations, Begun(w, o),
           w.place[w.asked[o].branch].there
    PROVE  PlaceOf(w, w.asked[o])
<1> DEFINE r == w.asked[o]
           b == r.branch
<1>1. r \in Requests /\ b \in Branches /\ r.op = o
  BY BranchOf DEF WorldFits
<1>2. PlaceFits(w, r) /\ w.branch[b] # 0
  BY <1>1 DEF WorldFits, PlacesFit
<1>3. w.branch[b] \in Commits(w) /\ Root(w, b) \in Commits(w)
  BY <1>1, <1>2, BeginsAtCommit
<1>4. RootFits(w, r, Root(w, b))
  BY <1>2 DEF WorldFits, BranchesFit
<1>5. TreeFits(RootTree(w, b)) /\ TreeFits(TreeIn(w, w.branch[b]))
  BY <1>3 DEF WorldFits, HistoryFits, CommitFits, RootTree
<1>6. ~ Own(w, b) => Root(w, b) = w.branch[b] /\ RootTree(w, b) = TreeIn(w, w.branch[b])
  BY DEF Root, RootTree
<1>7. Own(w, b) /\ ~ IsBootstrap(r) =>
         Legal(r, RootTree(w, b)) /\ w.commits[w.branch[b]].op = r.op
  BY <1>1, OwnOther
<1> QED BY <1>1, <1>2, <1>3, <1>4, <1>5, <1>6, <1>7 DEF PlaceOf

(* What a bootstrap has to commit is not there yet.                         *)
LEMMA InputsDiffer ==
    ASSUME NEW w, NEW r, IsBootstrap(r), NEW n, InputsFit(w, r, n), NEW k
    PROVE  TreeIn(w, r.base)["record"] # Changes(r, k)["record"]
<1>1. Changes(r, k)["record"] =
         Value(IF r.command = "bootstrap.propose" THEN "bootstrapping" ELSE "managed", k)
  BY ChangesOfBootstrap
<1>2. CASE r.command = "bootstrap.propose"
  BY <1>1, <1>2 DEF InputsFit, Absent, Value
<1>3. CASE r.command = "bootstrap.accept"
  <2>1. TreeIn(w, r.base)["record"].state # "managed"
    BY <1>3, ManagedManifest DEF InputsFit
  <2>2. Changes(r, k)["record"].state = "managed"
    BY <1>1, <1>3 DEF Value
  <2> QED BY <2>1, <2>2
<1> QED BY <1>2, <1>3 DEF IsBootstrap, BootstrapCommands

LEMMA BootstrapNotOwn ==
    ASSUME NEW w, WorldFits(w), NEW o \in Operations, Begun(w, o),
           IsBootstrap(w.asked[o]), NEW n, InputsFit(w, w.asked[o], n),
           w.branch[w.asked[o].branch] = w.asked[o].base
    PROVE  ~ Own(w, w.asked[o].branch)
<1> SUFFICES ASSUME Own(w, w.asked[o].branch) PROVE FALSE
  OBVIOUS
<1> DEFINE r == w.asked[o]
           h == w.branch[r.branch]
           q == RequestIn(w, h)
<1>1. /\ ProposalFits(w, h) /\ IsBootstrap(q)
      /\ q = r \/ (r.command = "bootstrap.propose" /\ q.command = "bootstrap.propose")
  BY OwnFits
<1>2. Proposes(w, q, w.commits[h].base, TreeIn(w, h))
  BY <1>1 DEF ProposalFits
<1>3. PICK k : TreeIn(w, h) = Over(Changes(q, k), TreeIn(w, w.commits[h].base))
  BY <1>1, <1>2 DEF Proposes
<1>4. h = r.base /\ IsBootstrap(r) /\ InputsFit(w, r, n)
  OBVIOUS
<1> HIDE DEF r, h, q
<1>5. TreeIn(w, h)["record"] = Changes(q, k)["record"]
  BY <1>1, <1>3, OverTree, ChangesOfBootstrap, SlotAssumption
<1>6. Changes(r, k)["record"] = Changes(q, k)["record"]
  BY <1>1, <1>4, ChangesOfBootstrap
<1> QED BY <1>4, <1>5, <1>6, InputsDiffer

(* A commit with an init manifest was made by bootstrap.propose, or merged. *)
LEMMA ManifestCommit ==
    ASSUME NEW w, WorldFits(w), NEW n \in Commits(w), NEW k,
           Holds(TreeIn(w, n), Manifest(k))
    PROVE  n \in Merged(w) \/ BootstrapProposal(w, n)
<1> SUFFICES ASSUME n \notin Merged(w) PROVE BootstrapProposal(w, n)
  OBVIOUS
<1>0. TreeIn(w, n)["record"].state # "managed"
  BY ManagedManifest
<1> DEFINE q == RequestIn(w, n)
           base == w.commits[n].base
<1>1. ProposalIn(w, n) /\ ProposalFits(w, n)
  BY DEF WorldFits, HistoryFits, CommitFits, ProposalsFit
<1>2. q \in Requests /\ RootFits(w, q, base) /\ Proposes(w, q, base, TreeIn(w, n))
  BY <1>1 DEF ProposalFits, ProposalIn, RequestIn, Begun, WorldFits, AskedFits
<1>a. q = RequestIn(w, n)
  OBVIOUS
<1> HIDE DEF q, base
<1>3. CASE ~ IsBootstrap(q)
  <2>1. TreeIn(w, base)["record"].state = "managed"
        /\ TreeIn(w, n) = With(q, TreeIn(w, base))
    BY <1>2, <1>3 DEF RootFits, Proposes
  <2>2. TreeIn(w, n)["record"] = TreeIn(w, base)["record"]
    BY <2>1, <1>2, <1>3, OtherSlot, WithTree, SlotAssumption
  <2> QED BY <2>1, <2>2, <1>0
<1>4. CASE q.command = "bootstrap.accept"
  <2>0. IsBootstrap(q)
    BY <1>4 DEF IsBootstrap, BootstrapCommands
  <2>1. PICK m : TreeIn(w, n) = Over(Changes(q, m), TreeIn(w, base))
    BY <2>0, <1>2 DEF Proposes
  <2>2. TreeIn(w, n)["record"] = Value("managed", m)
    BY <2>0, <2>1, <1>4, OverTree, ChangesOfBootstrap, SlotAssumption
  <2> QED BY <2>2, <1>0 DEF Value
<1>5. CASE q.command = "bootstrap.propose"
  BY <1>1, <1>5, <1>a DEF BootstrapProposal
<1> QED BY <1>3, <1>4, <1>5 DEF IsBootstrap, BootstrapCommands

-----------------------------------------------------------------------------
(* The steps of a call that goes on under the lock that it has.             *)

LEMMA GoesOn ==
    ASSUME Inv, NEW x \in Executors, exec[x].pc # "idle", NEW c,
           exec' = [exec EXCEPT ![x] = c], Keep, Hold, UNCHANGED lock,
           CallFits(c, World), c.req = exec[x].req, c.pc # "attach",
           Holding(c) => Holding(exec[x])
    PROVE  Inv'
<1>1. RowsKept
  BY RowsOfHold DEF Hold
<1>2. Holding(c) => lock[c.req.branch] = x
  BY DEF Inv
<1> QED BY <1>1, <1>2, StaysAsIs

LEMMA ReadIs ==
    ASSUME NEW x \in Executors, NEW pc, NEW snapshot, Read(x, pc, snapshot)
    PROVE  \E c : /\ exec' = [exec EXCEPT ![x] = c]
                  /\ c.pc = pc /\ c.req = exec[x].req /\ c.seen = snapshot
                  /\ c.verdict = "none"
<1> DEFINE c == Call(pc, exec[x].req, exec[x].knows, snapshot, "none")
<1>1. c.pc = pc /\ c.req = exec[x].req /\ c.seen = snapshot /\ c.verdict = "none"
  BY DEF Call
<1>2. exec' = [exec EXCEPT ![x] = c]
  BY DEF Read
<1> HIDE DEF c
<1> QED BY <1>1, <1>2

LEMMA GotoIs ==
    ASSUME NEW x \in Executors, NEW pc, NEW verdict, Goto(x, pc, verdict)
    PROVE  \E c : /\ exec' = [exec EXCEPT ![x] = c]
                  /\ c.pc = pc /\ c.req = exec[x].req /\ c.seen = Unread
                  /\ c.verdict = verdict
<1> DEFINE c == Call(pc, exec[x].req, exec[x].knows, Unread, verdict)
<1>1. c.pc = pc /\ c.req = exec[x].req /\ c.seen = Unread /\ c.verdict = verdict
  BY DEF Call
<1>2. exec' = [exec EXCEPT ![x] = c]
  BY DEF Goto
<1> HIDE DEF c
<1> QED BY <1>1, <1>2

LEMMA PreparedKeeps ==
    ASSUME Inv, NEW x \in Executors, exec[x].pc # "idle", Prepared(x),
           World.branch[exec[x].req.branch] # 0,
           World.commits[World.branch[exec[x].req.branch]].op = exec[x].req.op
    PROVE  Inv'
<1>1. VerdictFits(World, exec[x].req, "proposal_prepared")
  BY DEF VerdictFits
<1>2. /\ exec' = [exec EXCEPT ![x] = Call("effect", exec[x].req, exec[x].knows, Unread,
                                          "proposal_prepared")]
      /\ Release(x) /\ Keep /\ UNCHANGED journal
  BY DEF Prepared, Goto, Hold
<1> QED BY <1>1, <1>2, RowsOfHold, EndsWith

(* What a call finds, as constants.                                         *)
LEMMA ResolveBaseKeeps ==
    ASSUME Inv, NEW x \in Executors, ResolveBase(x)
    PROVE  Inv'
<1>0. exec[x].pc = "base" /\ exec[x].pc # "idle"
  BY DEF ResolveBase
<1>1. CASE Refuse(x)
  BY <1>0, <1>1, RefuseKeeps
<1>2. CASE ~ Refuse(x)
  <2> DEFINE r == exec[x].req
             b == exec[x].req.branch
             head == IF BranchHead(x) # 0 THEN BranchHead(x)
                     ELSE IF TaskCall(x) THEN main ELSE r.base
             seen == IF BootstrapCall(x)
                     THEN Snapshot(head, IF Does(x, "bootstrap.accept") THEN main ELSE r.base,
                                   source, FALSE)
                     ELSE Snapshot(head, 0, 0, FALSE)
  <2>1. /\ Read(x, "worktree", seen) /\ Keep /\ Hold /\ UNCHANGED lock
        /\ BootstrapCall(x) => ValidInputs(x)
        /\ PolicyCall(x) \/ Does(x, "bootstrap.propose") =>
              BranchHead(x) # 0 \/ BaseIsCurrent(r)
    BY <1>2 DEF ResolveBase
  <2> HIDE DEF seen
  <2>2. PICK c : /\ exec' = [exec EXCEPT ![x] = c]
                 /\ c.pc = "worktree" /\ c.req = r /\ c.seen = seen
    BY <2>1, ReadIs
  <2>3. PICK w : w = World
    OBVIOUS
  <2>4. /\ WorldFits(w) /\ AskedFits(w) /\ r.op \in Operations /\ Begun(w, r.op)
        /\ w.asked[r.op] = r /\ r \in Requests /\ b \in Branches
        /\ CallFits(exec[x], w)
    BY <1>0, <2>3, BranchOfCall
  <2>5. /\ BranchHead(x) = w.branch[b] /\ main = w.main
        /\ \A n : Tree(n) = TreeIn(w, n) /\ Past(n) = PastIn(w, n)
        /\ source \in Sources
    BY <2>3 DEF World, BranchHead, Branch, Tree, TreeIn, Past, PastIn, Inv
  <2>a. w.main \in Merged(w) /\ w.main \in Commits(w)
    BY <2>4 DEF WorldFits, HistoryFits, Merged, PastIn
  <2>b. r.command \notin TaskCommands => r.base \in Commits(w)
    BY <2>4 DEF AskedFits
  <2>6. seen.head = head /\ (IsBootstrap(r) =>
            seen.source = source /\ seen = Snapshot(seen.head, seen.main, seen.source, seen.dirty))
    BY DEF seen, Snapshot, BootstrapCall, IsBootstrap
  <2>c. IsBootstrap(r) => InputsFit(w, r, source)
    <3> SUFFICES ASSUME IsBootstrap(r) PROVE InputsFit(w, r, source)
      OBVIOUS
    <3>1. ValidInputs(x) /\ r.base \in Commits(w)
      BY <2>1, <2>4, <2>b, KindOfCall DEF BootstrapCall, IsBootstrap
    <3> QED BY <3>1, <2>5 DEF InputsFit, ValidInputs, Does
  <2>7. w.branch[b] = 0 => RootFits(w, r, head)
    <3> SUFFICES ASSUME w.branch[b] = 0 PROVE RootFits(w, r, head)
      OBVIOUS
    <3>1. ASSUME ~ IsBootstrap(r) PROVE TreeIn(w, w.main)["record"].state = "managed"
      BY <3>1, <2>4 DEF WorldFits, ManagedFits
    <3>2. CASE r.command \in TaskCommands
      <4>1. head = w.main
        BY <3>2, <2>5 DEF TaskCall
      <4> HIDE DEF head
      <4> QED BY <3>1, <3>2, <4>1, <2>4, <2>a, KindOfCall
              DEF RootFits, IsBootstrap, BootstrapCommands
    <3>3. CASE r.command \in PolicyCommands \/ r.command = "bootstrap.propose"
      <4>1. head = r.base /\ w.main = r.base
        BY <3>3, <2>1, <2>4, <2>5, KindOfCall
           DEF TaskCall, PolicyCall, Does, BaseIsCurrent, IsBootstrap, BootstrapCommands
      <4> HIDE DEF head
      <4>2. CASE r.command \in PolicyCommands
        BY <4>2, <3>1, <4>1, <2>4, <2>a, KindOfCall
           DEF RootFits, IsBootstrap, BootstrapCommands
      <4>3. CASE r.command = "bootstrap.propose"
        BY <4>3, <4>1, <2>a DEF RootFits, IsBootstrap, BootstrapCommands, PolicyCommands
      <4> QED BY <3>3, <4>2, <4>3
    <3>4. CASE r.command = "bootstrap.accept"
      <4>1. head = r.base
        BY <3>4, <2>5 DEF TaskCall, TaskCommands
      <4>2. InputsFit(w, r, source) /\ IsBootstrap(r)
        BY <3>4, <2>c DEF IsBootstrap, BootstrapCommands
      <4>3. r.base \in Commits(w) /\ Holds(TreeIn(w, r.base), Manifest(source))
        BY <3>4, <4>2 DEF InputsFit
      <4> DEFINE base == r.base
      <4>d. base \in Commits(w) /\ Holds(TreeIn(w, base), Manifest(source))
        BY <4>3
      <4>e. base = r.base
        OBVIOUS
      <4> HIDE DEF base
      <4>4. base \in Merged(w) \/ BootstrapProposal(w, base)
        BY <4>d, <2>4, ManifestCommit
      <4> HIDE DEF head, r
      <4> QED BY <3>4, <4>1, <4>2, <4>4, <4>d, <4>e DEF RootFits
    <3> QED BY <3>2, <3>3, <3>4, <2>4, ControlRequestAssumption DEF BootstrapCommands
  <2> HIDE DEF head, r, b
  <2>8. CallFits(c, w)
    <3>1. CallBegun(c, w)
      BY <1>0, <2>2, <2>4, CallOn DEF Locked, r
    <3>2. CallPlace(c, w)
      BY <2>2, <2>6, <2>7 DEF CallPlace, Placed, b, r
    <3>3. CallWork(c, w)
      BY <2>2 DEF CallWork
    <3>4. CallInputs(c, w)
      BY <2>2, <2>6, <2>c DEF CallInputs
    <3> QED BY <3>1, <3>2, <3>3, <3>4, <2>2 DEF CallFits
  <2>9. Holding(c) => Holding(exec[x])
    BY <2>2, <1>0 DEF Holding, Locked, r
  <2> QED BY <1>0, <2>1, <2>2, <2>3, <2>8, <2>9, GoesOn DEF r
<1> QED BY <1>1, <1>2

-----------------------------------------------------------------------------
(* The steps of a call that change the repository.                          *)

LEMMA ActsOn ==
    ASSUME Inv, NEW x \in Executors, exec[x].pc # "idle", NEW c,
           exec' = [exec EXCEPT ![x] = c], Hold, UNCHANGED source,
           WorldFits(World'), CallFits(c, World'),
           \A y \in Executors \ {x} : exec[y].pc # "idle" => CallFits(exec[y], World'),
           \A o \in Operations :
              Begun(World, o) => VerdictFits(World', World.asked[o], journal[o].result),
           c.req = exec[x].req,
           \/ UNCHANGED lock /\ (Holding(c) => Holding(exec[x]))
           \/ Release(x) /\ ~ Holding(c)
           \/ Free(Branch(x)) /\ lock' = [lock EXCEPT ![Branch(x)] = x],
           c.pc = "attach" => \A y \in Executors \ {x} :
               exec[y].pc = "attach" => exec[y].req.branch # c.req.branch
    PROVE  Inv'
<1>1. \A y \in Executors : Holding(exec[y]) => exec[y].req.branch \in Branches
  BY BranchOfCall, HoldingBusy
<1>2. /\ lock' = [b \in Branches |-> lock'[b]]
      /\ Holding(c) => lock'[c.req.branch] = x
      /\ \A y \in Executors \ {x} : Holding(exec[y]) => lock'[exec[y].req.branch] = y
  <2>1. CASE UNCHANGED lock /\ (Holding(c) => Holding(exec[x]))
    BY <2>1 DEF Inv
  <2>2. CASE Release(x) /\ ~ Holding(c)
    BY <2>2, <1>1, ReleaseKeeps
  <2>3. CASE Free(Branch(x)) /\ lock' = [lock EXCEPT ![Branch(x)] = x]
    <3>1. lock = [a \in Branches |-> lock[a]]
      BY DEF Inv
    <3>2. lock[Branch(x)] = NoOne /\ Branch(x) = c.req.branch /\ Branch(x) \in Branches
      BY <2>3, BranchOfCall DEF Free, Branch
    <3>3. lock' = [b \in Branches |-> lock'[b]] /\ lock'[c.req.branch] = x
          /\ \A a \in Branches : lock[a] # NoOne => lock'[a] = lock[a]
      BY <2>3, <3>1, <3>2
    <3>4. ASSUME NEW y \in Executors \ {x}, Holding(exec[y])
          PROVE  lock'[exec[y].req.branch] = y
      <4>1. lock[exec[y].req.branch] = y /\ y # NoOne /\ exec[y].req.branch \in Branches
        BY <3>4, <1>1, NoOneAssumption DEF Inv
      <4> QED BY <4>1, <3>3
    <3> QED BY <3>3, <3>4
  <2> QED BY <2>1, <2>2, <2>3
<1>3. \A y \in Executors \ {x} : CallFits(exec[y], World')
  BY DEF CallFits
<1>4. ASSUME NEW o \in Operations PROVE RowFits(journal'[o], World')
  <2>1. RowFits(journal[o], World) /\ journal' = journal /\ World.asked[o] = journal[o].request
    BY DEF Inv, Hold, World, Asked
  <2>2. journal[o].request # NoRequest => VerdictFits(World', journal[o].request, journal[o].result)
    BY <2>1 DEF Begun
  <2> QED BY <2>1, <2>2 DEF RowFits
<1>5. journal' = [o \in Operations |-> journal'[o]] /\ source' \in Sources
  BY DEF Inv, Hold
<1> QED BY <1>2, <1>3, <1>4, <1>5, Concludes

(* What the results say stays so.                                           *)
LEMMA ResultsFit ==
    ASSUME Inv
    PROVE  \A o \in Operations :
              Begun(World, o) =>
                 /\ VerdictFits(World, World.asked[o], journal[o].result)
                 /\ World.asked[o] \in Requests /\ World.asked[o].branch \in Branches
<1>1. AskedFits(World)
  BY DEF Inv, WorldFits
<1> QED BY <1>1, BranchOf DEF Inv, RowFits, World, Asked, Begun

(* The calls of one branch are of one kind, and one of them holds the lock. *)
LEMMA OneHolds ==
    ASSUME Inv, NEW x \in Executors, NEW y \in Executors \ {x},
           Holding(exec[x]), Holding(exec[y])
    PROVE  exec[x].req.branch # exec[y].req.branch
BY DEF Inv

LEMMA SameKind ==
    ASSUME Inv, NEW x \in Executors, NEW y \in Executors,
           exec[x].pc # "idle", exec[y].pc # "idle",
           exec[x].req.branch = exec[y].req.branch
    PROVE  /\ ~ IsBootstrap(exec[x].req) => exec[y].req = exec[x].req
           /\ IsBootstrap(exec[y].req) <=> IsBootstrap(exec[x].req)
<1> DEFINE o == exec[x].req.op
           c == exec[y]
<1>1. /\ AskedFits(World) /\ o \in Operations /\ Begun(World, o)
      /\ World.asked[o] = exec[x].req
      /\ CallBegun(c, World) /\ c.req.branch = exec[x].req.branch
  BY BranchOfCall
<1> HIDE DEF o, c
<1>2. /\ ~ IsBootstrap(World.asked[o]) => c.req = World.asked[o]
      /\ IsBootstrap(c.req) <=> IsBootstrap(World.asked[o])
  BY <1>1, CallShared
<1> QED BY <1>1, <1>2 DEF c

LEMMA AttachKeeps ==
    ASSUME Inv, NEW x \in Executors, Attach(x)
    PROVE  Inv'
<1>0. exec[x].pc = "attach" /\ exec[x].pc # "idle" /\ Read(x, "scope", Seen(x))
      /\ UNCHANGED <<commits, main, branch, source, lock>> /\ Hold
  BY DEF Attach
<1> DEFINE r == exec[x].req
           b == exec[x].req.branch
<1>2. PICK c : /\ exec' = [exec EXCEPT ![x] = c]
               /\ c.pc = "scope" /\ c.req = r /\ c.seen = exec[x].seen
  BY <1>0, ReadIs DEF Seen
<1>w. PICK w : w = World
  OBVIOUS
<1>v. PICK v : v = World'
  OBVIOUS
<1>3. /\ WorldFits(w) /\ AskedFits(w) /\ r.op \in Operations /\ Begun(w, r.op)
      /\ w.asked[r.op] = r /\ r \in Requests /\ b \in Branches
      /\ CallFits(exec[x], w) /\ IsWorld(w)
  BY <1>0, <1>w, BranchOfCall, WorldIs
<1>4. w.branch[b] # 0 /\ ~ w.place[b].there
  BY <1>0, <1>3 DEF CallFits, CallPlace
<1>5. Attaches(w, v, b) /\ v.asked = w.asked
  <2>1. place' = [place EXCEPT ![b] =
                    [there |-> TRUE, tree |-> TreeIn(w, w.branch[b]), litter |-> FALSE]]
    BY <1>w DEF Attach, Branch, Tree, TreeIn, World
  <2>2. /\ v = [w EXCEPT !.place = place'] /\ w.place = place
        /\ v.place = place' /\ v.asked = w.asked
    BY <1>0, <1>w, <1>v DEF World, Asked, Hold
  <2>3. w.place = [a \in Branches |-> w.place[a]]
    BY <1>3 DEF WorldFits, PlacesFit
  <2>4. v.place[b] = [there |-> TRUE, tree |-> TreeIn(w, w.branch[b]), litter |-> FALSE]
    BY <2>1, <2>2, <2>3, <1>3
  <2>5. v = [w EXCEPT !.place = [w.place EXCEPT ![b] = v.place[b]]]
    BY <2>1, <2>2, <2>4
  <2> QED BY <2>2, <2>4, <2>5, <1>4 DEF Attaches, Moves
<1>a. Moves(w, v, b) /\ v.place[b].there
  BY <1>5 DEF Attaches
<1>6. WorldFits(v)
  <2> DEFINE o == r.op
  <2>1. o \in Operations /\ Begun(w, o) /\ Attaches(w, v, w.asked[o].branch)
    BY <1>3, <1>5
  <2> HIDE DEF o
  <2> QED BY <2>1, <1>3, AttachesFits
<1>7. CallFits(c, v)
  <2>1. CallBegun(c, v)
    BY <1>0, <1>2, <1>3, <1>5 DEF CallFits, CallBegun, Locked
  <2>2. CallPlace(c, v) /\ CallWork(c, v)
    BY <1>2, <1>a DEF CallPlace, CallWork
  <2>3. Later(w, v)
    BY <1>3, <1>a, MovesWorld DEF Beside
  <2>4. CallInputs(c, v)
    BY <1>0, <1>2, <1>3, <2>3, InputsKept DEF CallFits, CallInputs, Locked
  <2> QED BY <2>1, <2>2, <2>4, <1>2 DEF CallFits
<1>8. ASSUME NEW y \in Executors \ {x}, exec[y].pc # "idle" PROVE CallFits(exec[y], v)
  <2>1. /\ CallFits(exec[y], w) /\ exec[y].req.branch \in Branches
        /\ exec[y].req.branch = b => exec[y].pc # "attach"
    BY <1>0, <1>8, <1>w, BranchOfCall DEF Inv
  <2> QED BY <2>1, <1>3, <1>5, <1>8, AttachesCall
<1>9. \A o \in Operations :
         Begun(w, o) => VerdictFits(v, w.asked[o], journal[o].result)
  BY <1>3, <1>a, <1>w, ResultsFit, MovesVerdict
<1>10. Holding(c) => Holding(exec[x])
  BY <1>0, <1>2 DEF Holding, Locked
<1> HIDE DEF r, b
<1> QED BY <1>0, <1>2, <1>w, <1>v, <1>6, <1>7, <1>8, <1>9, <1>10, ActsOn DEF r

LEMMA WorktreeKeeps ==
    ASSUME Inv, NEW x \in Executors, Worktree(x)
    PROVE  Inv'
<1>0. exec[x].pc = "worktree" /\ exec[x].pc # "idle"
  BY DEF Worktree
<1> DEFINE r == exec[x].req
           b == exec[x].req.branch
           n == exec[x].seen.head
<1>w. PICK w : w = World
  OBVIOUS
<1>3. /\ WorldFits(w) /\ AskedFits(w) /\ r.op \in Operations /\ Begun(w, r.op)
      /\ w.asked[r.op] = r /\ r \in Requests /\ b \in Branches
      /\ CallFits(exec[x], w) /\ IsWorld(w)
  BY <1>0, <1>w, BranchOfCall, WorldIs
<1>4. /\ w.branch[b] = branch[b] /\ w.place[b] = place[b] /\ w.branch = branch
  BY <1>w DEF World
<1>5. /\ CallBegun(exec[x], w) /\ CallInputs(exec[x], w)
      /\ branch[b] = 0 => RootFits(w, r, n)
  BY <1>0, <1>3, <1>4 DEF CallFits, CallPlace
\* the call that goes on
<1>6. ASSUME NEW pc \in {"attach", "scope"}, NEW c, c.pc = pc,
             c.req = r, c.seen = exec[x].seen,
             NEW v, v.asked = w.asked, Later(w, v),
             pc = "scope" => v.place[b].there,
             pc = "attach" => v.branch[b] # 0 /\ ~ v.place[b].there
      PROVE  CallFits(c, v)
  <2>1. CallBegun(c, v)
    BY <1>0, <1>5, <1>6 DEF CallBegun, Locked
  <2>2. CallPlace(c, v) /\ CallWork(c, v)
    BY <1>6 DEF CallPlace, CallWork, Placed
  <2>3. CallInputs(c, v)
    BY <1>0, <1>5, <1>6, InputsKept, <1>3 DEF CallInputs, Locked
  <2> QED BY <2>1, <2>2, <2>3, <1>6 DEF CallFits
<1>7. Later(w, w)
  BY DEF Later
\* the branch is made
<1>8. CASE /\ branch[b] = 0 /\ ~ place[b].there
           /\ branch' = [branch EXCEPT ![b] = n]
           /\ Read(x, "attach", exec[x].seen)
           /\ UNCHANGED <<commits, main, place, source, lock>> /\ Hold
  <2>2. PICK c : /\ exec' = [exec EXCEPT ![x] = c]
                 /\ c.pc = "attach" /\ c.req = r /\ c.seen = exec[x].seen
    BY <1>8, ReadIs
  <2>v. PICK v : v = World'
    OBVIOUS
  <2>3. v.asked = w.asked /\ v.place = w.place /\ v.branch = branch'
        /\ v = [w EXCEPT !.branch = branch']
    BY <1>8, <1>w, <2>v DEF World, Asked, Hold
  <2>4. w.branch = [a \in Branches |-> w.branch[a]]
    BY <1>3 DEF WorldFits, BranchesFit
  <2>5. v.branch[b] = n /\ branch' = [w.branch EXCEPT ![b] = v.branch[b]]
    BY <1>3, <1>4, <1>8, <2>3, <2>4
  <2>6. Starts(w, v, b) /\ v.branch[b] = n
    BY <1>4, <1>8, <2>3, <2>5 DEF Starts
  <2>7. RootFits(w, r, n) /\ n \in Commits(w)
    BY <1>5, <1>8 DEF RootFits
  <2>8. v.branch[b] # 0 /\ Later(w, v)
    <3>1. v.branch[b] # 0
      BY <2>6, <2>7, <1>3, StartsAtRoot
    <3>2. Beside(w, v, b)
      BY <2>6, <1>3, StartsWorld
    <3> QED BY <3>1, <3>2 DEF Beside
  <2>9. WorldFits(v)
    <3> DEFINE o == r.op
    <3>1. o \in Operations /\ Begun(w, o) /\ Starts(w, v, w.asked[o].branch)
          /\ RootFits(w, w.asked[o], v.branch[w.asked[o].branch])
      BY <1>3, <2>6, <2>7
    <3> HIDE DEF o
    <3> QED BY <3>1, <1>3, StartsFits
  <2>10. CallFits(c, v)
    BY <2>2, <2>3, <2>8, <1>4, <1>6, <1>8
  <2>11. ASSUME NEW y \in Executors \ {x}, exec[y].pc # "idle" PROVE CallFits(exec[y], v)
    <3>1. CallFits(exec[y], w) /\ exec[y].req.branch \in Branches
      BY <2>11, <1>w, BranchOfCall
    <3>2. v.branch[b] \in Commits(w)
      BY <2>6, <2>7
    <3> QED BY <3>1, <3>2, <1>3, <2>6, <2>11, StartsCall
  <2>12. \A o \in Operations :
           Begun(w, o) => VerdictFits(v, w.asked[o], journal[o].result)
    <3>2. v.branch[b] \in Commits(w)
      BY <2>6, <2>7
    <3> QED BY <3>2, <1>3, <2>6, <1>w, ResultsFit, StartsVerdict
  <2>13. Holding(c) => Holding(exec[x])
    BY <1>0, <2>2 DEF Holding, Locked
  <2>14. \A y \in Executors \ {x} :
            exec[y].pc = "attach" => exec[y].req.branch # c.req.branch
    <3> SUFFICES ASSUME NEW y \in Executors \ {x}, exec[y].pc = "attach"
                 PROVE  exec[y].req.branch # b
      BY <2>2
    <3>1. World.branch[exec[y].req.branch] # 0
      BY BranchOfCall DEF CallFits, CallPlace
    <3> QED BY <3>1, <1>4, <1>8, <1>w
  <2> HIDE DEF r, b, n
  <2> QED BY <1>0, <1>8, <2>2, <1>w, <2>v, <2>9, <2>10, <2>11, <2>12, <2>13, <2>14, ActsOn DEF r
\* there is one
<1>9. CASE /\ branch[b] = n /\ place[b].there
           /\ Read(x, "scope", exec[x].seen)
           /\ Keep /\ Hold /\ UNCHANGED lock
  <2>2. PICK c : /\ exec' = [exec EXCEPT ![x] = c]
                 /\ c.pc = "scope" /\ c.req = r /\ c.seen = exec[x].seen
    BY <1>9, ReadIs
  <2>3. CallFits(c, w)
    BY <2>2, <1>4, <1>6, <1>7, <1>9
  <2>4. Holding(c) => Holding(exec[x])
    BY <1>0, <2>2 DEF Holding, Locked
  <2> QED BY <1>0, <1>9, <2>2, <2>3, <2>4, <1>w, GoesOn
<1>10. CASE /\ branch[b] = n /\ ~ place[b].there /\ ~ TaskCall(x)
            /\ Read(x, "attach", exec[x].seen)
            /\ Keep /\ Hold /\ UNCHANGED lock
  <2>2. PICK c : /\ exec' = [exec EXCEPT ![x] = c]
                 /\ c.pc = "attach" /\ c.req = r /\ c.seen = exec[x].seen
    BY <1>10, ReadIs
  <2>3. branch[b] # 0
    BY <1>5, <1>10 DEF RootFits, Commits
  <2>4. CallFits(c, w)
    BY <2>2, <2>3, <1>4, <1>6, <1>7, <1>10
  <2>5. r.command \notin TaskCommands
    BY <1>10 DEF TaskCall
  <2>6. Holding(exec[x])
    BY <2>5, <1>0 DEF Holding, Locked
  <2>7. \A y \in Executors \ {x} :
            exec[y].pc = "attach" => exec[y].req.branch # c.req.branch
    <3> SUFFICES ASSUME NEW y \in Executors \ {x}, exec[y].pc = "attach",
                        exec[y].req.branch = b
                 PROVE  FALSE
      BY <2>2
    <3>1. /\ ~ IsBootstrap(r) => exec[y].req = r
          /\ IsBootstrap(exec[y].req) <=> IsBootstrap(r)
      BY <1>0, SameKind
    <3>2. exec[y].req \in Requests
      BY BranchOfCall
    <3>3. exec[y].req.command \notin TaskCommands
      BY <3>1, <3>2, <2>5, <1>3, KindOfCall
    <3>4. Holding(exec[y])
      BY <3>3 DEF Holding, Locked
    <3> QED BY <3>4, <2>6, OneHolds
  <2>8. RowsKept /\ lock[c.req.branch] = x
    BY <1>10, <2>2, <2>6, RowsOfHold DEF Hold, Inv
  <2> QED BY <1>10, <2>2, <2>4, <2>7, <2>8, <1>w, StaysAsIs
<1>11. CASE Refuse(x)
  BY <1>0, <1>11, RefuseKeeps
<1> QED BY <1>8, <1>9, <1>10, <1>11 DEF Worktree, Branch, Seen

LEMMA ObserveBootstrapKeeps ==
    ASSUME Inv, NEW x \in Executors, ObserveBootstrap(x)
    PROVE  Inv'
<1>0. exec[x].pc = "scope" /\ exec[x].pc # "idle"
  BY DEF ObserveBootstrap
<1>w. PICK w : w = World
  OBVIOUS
<1>3. /\ WorldFits(w) /\ CallFits(exec[x], w) /\ exec[x].req.branch \in Branches
  BY <1>0, <1>w, BranchOfCall
<1>4. /\ w.branch[exec[x].req.branch] = BranchHead(x) /\ w.commits = commits
  BY <1>w DEF World, BranchHead, Branch
<1>5. CallBegun(exec[x], w) /\ CallPlace(exec[x], w) /\ CallInputs(exec[x], w)
  BY <1>0, <1>3 DEF CallFits
<1>6. BranchHead(x) # 0
  BY <1>0, <1>3, <1>4, <1>5 DEF CallPlace, Placed, WorldFits, PlacesFit
<1>7. CASE Refuse(x)
  BY <1>0, <1>7, RefuseKeeps
<1>8. CASE VerifiedCommit(x) /\ Prepared(x)
  BY <1>0, <1>4, <1>6, <1>8, <1>w, PreparedKeeps DEF VerifiedCommit
<1>9. CASE BranchHead(x) = exec[x].req.base /\ Read(x, "write", Seen(x)) /\ Keep /\ Hold
           /\ UNCHANGED lock
  <2>1. IsBootstrap(exec[x].req)
    BY DEF ObserveBootstrap, BootstrapCall, IsBootstrap
  <2>2. PICK c : /\ exec' = [exec EXCEPT ![x] = c]
                 /\ c.pc = "write" /\ c.req = exec[x].req /\ c.seen = exec[x].seen
    BY <1>9, ReadIs DEF Seen
  <2>3. CallBegun(c, w)
    BY <1>0, <1>5, <2>2 DEF CallBegun, Locked
  <2>4. CallPlace(c, w) /\ CallWork(c, w)
    BY <1>0, <1>5, <2>1, <2>2 DEF CallPlace, CallWork, Placed
  <2>5. CallInputs(c, w)
    BY <1>0, <1>4, <1>5, <1>9, <2>2 DEF CallInputs, Locked
  <2>6. CallFits(c, w)
    BY <2>2, <2>3, <2>4, <2>5 DEF CallFits
  <2>7. Holding(c) => Holding(exec[x])
    BY <1>0, <2>2 DEF Holding, Locked
  <2> QED BY <1>0, <1>9, <2>2, <2>6, <2>7, <1>w, GoesOn
<1> QED BY <1>7, <1>8, <1>9 DEF ObserveBootstrap

\* the step of a Task or policy call whose branch has a worktree
LEMMA WorkGoesOn ==
    ASSUME Inv, NEW x \in Executors, exec[x].pc \in Placed, ~ IsBootstrap(exec[x].req),
           NEW pc \in {"write", "status", "commit", "verify"}, NEW c,
           exec' = [exec EXCEPT ![x] = c], Keep, Hold, UNCHANGED lock,
           c.pc = pc, c.req = exec[x].req, CallWork(c, World)
    PROVE  Inv'
<1>0. exec[x].pc # "idle" /\ exec[x].pc \in Locked
  BY DEF Placed, Locked
<1>1. CallFits(exec[x], World)
  BY <1>0, BranchOfCall
<1>2. CallBegun(c, World)
  BY <1>0, <1>1, CallOn
<1>3. CallPlace(exec[x], World)
  BY <1>0, <1>1 DEF CallFits
<1>4. CallPlace(c, World) /\ CallInputs(c, World)
  BY <1>3 DEF CallPlace, CallInputs, Placed
<1>5. CallFits(c, World)
  BY <1>2, <1>4 DEF CallFits
<1>6. exec[x].req.command \in TaskCommands => ~ Holding(c)
  BY DEF Holding
<1>7. Holding(c) => Holding(exec[x])
  BY <1>0, <1>6 DEF Holding
<1> QED BY <1>0, <1>5, <1>7, GoesOn

LEMMA AtWork ==
    ASSUME Inv, NEW x \in Executors, exec[x].pc \in Placed
    PROVE  /\ exec[x].pc # "idle" /\ exec[x].pc \in Locked
           /\ CallFits(exec[x], World) /\ CallBegun(exec[x], World)
           /\ CallPlace(exec[x], World) /\ CallWork(exec[x], World)
           /\ CallInputs(exec[x], World)
           /\ PlaceOf(World, exec[x].req)
           /\ World.place[exec[x].req.branch].there
           /\ Files(x) = World.place[exec[x].req.branch]
           /\ BranchHead(x) = World.branch[exec[x].req.branch]
           /\ \A n : Tree(n) = TreeIn(World, n)
<1>0. exec[x].pc # "idle" /\ exec[x].pc \in Locked
  BY DEF Placed, Locked
<1>1. CallFits(exec[x], World) /\ CallBegun(exec[x], World) /\ CallPlace(exec[x], World)
      /\ CallWork(exec[x], World) /\ CallInputs(exec[x], World)
  BY <1>0, BranchOfCall DEF CallFits
<1>2. World.place[exec[x].req.branch].there
  BY <1>1 DEF CallPlace
<1> DEFINE o == exec[x].req.op
<1>w. PICK w : w = World
  OBVIOUS
<1>3. /\ WorldFits(w) /\ o \in Operations /\ Begun(w, o) /\ w.asked[o] = exec[x].req
      /\ w.place[w.asked[o].branch].there
  BY <1>0, <1>2, <1>w, BranchOfCall
<1> HIDE DEF o
<1>4. PlaceOf(w, w.asked[o])
  BY <1>3, PlaceIs
<1>5. PlaceOf(World, exec[x].req)
  BY <1>3, <1>4, <1>w
<1>6. /\ Files(x) = World.place[exec[x].req.branch]
      /\ BranchHead(x) = World.branch[exec[x].req.branch]
      /\ \A n : Tree(n) = TreeIn(World, n)
  BY DEF World, Files, BranchHead, Branch, Tree, TreeIn
<1> QED BY <1>0, <1>1, <1>2, <1>5, <1>6

(* The worktree of a Task or policy call is its root, or has what is asked. *)
RootOrDone(r, tree, root, litter) ==
    \/ tree = root
    \/ tree = With(r, root) /\ ~ litter /\ Legal(r, root)

LEMMA WorkTree ==
    ASSUME NEW w, NEW r, PlaceOf(w, r), ~ IsBootstrap(r)
    PROVE  LET root == RootTree(w, r.branch)
               tree == w.place[r.branch].tree
           IN  /\ RootOrDone(r, tree, root, w.place[r.branch].litter)
               /\ r.slot \in Slots /\ root[r.slot] = root[r.slot]
               /\ With(r, root)[r.slot] = r.value
               /\ IsTree(tree) /\ IsTree(root)
<1>1. r \in Requests /\ PlaceFits(w, r) /\ TreeFits(RootTree(w, r.branch))
  BY DEF PlaceOf
<1>2. r.slot \in Slots
  BY <1>1, OtherSlot
<1> QED BY <1>1, <1>2, WithTree DEF PlaceFits, RootOrDone, TreeFits

LEMMA ScopePolicyKeeps ==
    ASSUME Inv, NEW x \in Executors, ScopePolicy(x)
    PROVE  Inv'
<1> DEFINE r == exec[x].req
           b == exec[x].req.branch
<1>0. exec[x].pc = "scope" /\ exec[x].pc \in Placed /\ r.command \in PolicyCommands
  BY DEF ScopePolicy, PolicyCall, Placed
<1>w. PICK w : w = World
  OBVIOUS
<1>1. /\ exec[x].pc # "idle" /\ PlaceOf(w, r) /\ Files(x) = w.place[b]
      /\ \A n : Tree(n) = TreeIn(w, n)
  BY <1>0, <1>w, AtWork
<1>2. r \in Requests /\ RootFits(w, r, Root(w, b)) /\ TreeFits(RootTree(w, b))
  BY <1>1 DEF PlaceOf
<1>3. ~ IsBootstrap(r) /\ r.command \notin TaskCommands
  BY <1>0, <1>2, KindOfCall
<1> DEFINE tree == w.place[b].tree
           root == RootTree(w, b)
<1>4. Root(w, b) = r.base
  BY <1>0, <1>2 DEF RootFits
<1>5. Desired(x, Tree(r.base)) = With(r, root)
  <2>1. \A t : Over(Changes(r, Seen(x).source), t) = With(r, t)
    BY <1>3, ChangesOfOther
  <2> QED BY <2>1, <1>1, <1>4 DEF Desired, RootTree
<1>6. /\ RootOrDone(r, tree, root, w.place[b].litter)
      /\ IsTree(tree) /\ IsTree(root) /\ r.slot \in Slots
  BY <1>1, <1>3, WorkTree
<1>7. CASE Refuse(x)
  BY <1>1, <1>7, RefuseKeeps
<1>8. CASE tree = With(r, root) /\ Goto(x, "status", "none") /\ Keep /\ Hold /\ UNCHANGED lock
  <2>1. PICK c : exec' = [exec EXCEPT ![x] = c] /\ c.pc = "status" /\ c.req = r
    BY <1>8, GotoIs
  <2>2. Done(r, tree)
    BY <1>2, <1>3, <1>8, WithIsDone
  <2>3. CallWork(c, w)
    BY <2>1, <2>2 DEF CallWork
  <2> QED BY <2>1, <2>3, <1>0, <1>3, <1>8, <1>w, WorkGoesOn
<1>9. CASE tree # With(r, root) /\ Goto(x, "write", "none") /\ Keep /\ Hold /\ UNCHANGED lock
  <2>1. PICK c : exec' = [exec EXCEPT ![x] = c] /\ c.pc = "write" /\ c.req = r
    BY <1>9, GotoIs
  <2>2. tree = root
    BY <1>6, <1>9 DEF RootOrDone
  <2>3. root[r.slot] # r.value
    <3> SUFFICES ASSUME root[r.slot] = r.value PROVE FALSE
      OBVIOUS
    <3>1. \A s \in Slots : With(r, root)[s] = root[s]
      BY WithTree
    <3>a. IsTree(With(r, root)) /\ IsTree(root)
      BY <1>6, WithTree
    <3>b. tree = root /\ tree # With(r, root)
      BY <2>2, <1>9
    <3> HIDE DEF tree, root
    <3>2. With(r, root) = root
      BY <3>1, <3>a DEF IsTree
    <3> QED BY <3>2, <3>b
  <2>4. Legal(r, root)
    BY <2>3, <1>0 DEF Legal, AsSeen, May, Done, PolicyCommands
  <2> HIDE DEF tree, root
  <2>5. CallWork(c, w)
    BY <2>1, <2>2, <2>4, <1>3 DEF CallWork, tree, root
  <2> QED BY <2>1, <2>5, <1>0, <1>3, <1>9, <1>w, WorkGoesOn
<1> QED BY <1>1, <1>5, <1>7, <1>8, <1>9 DEF ScopePolicy

LEMMA LoadTaskKeeps ==
    ASSUME Inv, NEW x \in Executors, LoadTask(x)
    PROVE  Inv'
<1> DEFINE r == exec[x].req
           b == exec[x].req.branch
<1>0. exec[x].pc = "scope" /\ exec[x].pc \in Placed /\ r.command \in TaskCommands
  BY DEF LoadTask, TaskCall, Placed
<1>w. PICK w : w = World
  OBVIOUS
<1>1. exec[x].pc # "idle" /\ PlaceOf(w, r) /\ Files(x) = w.place[b]
  BY <1>0, <1>w, AtWork
<1>2. r \in Requests
  BY <1>1 DEF PlaceOf
<1>3. ~ IsBootstrap(r) /\ r.command \notin PolicyCommands
  BY <1>0, <1>2, KindOfCall
<1> DEFINE tree == w.place[b].tree
           root == RootTree(w, b)
           current == tree[r.slot]
<1>6. /\ RootOrDone(r, tree, root, w.place[b].litter)
      /\ With(r, root)[r.slot] = r.value
  BY <1>1, <1>3, WorkTree
<1>7. CASE Refuse(x)
  BY <1>1, <1>7, RefuseKeeps
\* there is something to write
<1>8. ASSUME Goto(x, "write", "none"), Keep, Hold, UNCHANGED lock,
             \/ r.command = "task.create"
             \/ /\ r.command = "task.update" /\ Updates(current, r.value)
                /\ current # r.value
             \/ /\ r.command = "task.cancel" /\ Cancels(current)
                /\ current.state # "canceled"
      PROVE  Inv'
  <2>0. Goto(x, "write", "none")
    BY <1>8
  <2>1. PICK c : exec' = [exec EXCEPT ![x] = c] /\ c.pc = "write" /\ c.req = r
    BY <2>0, GotoIs
  <2>2. r.command = "task.cancel" => r.value.state = "canceled"
    BY <1>2, ControlRequestAssumption
  <2>3. r.command # "task.create" => tree = root
    BY <1>0, <1>6, <1>8, <2>2 DEF RootOrDone, TaskCommands
  <2> HIDE DEF tree, root
  <2>4. May(r, root) /\ (r.command # "task.create" => ~ Done(r, root))
    BY <1>0, <1>8, <2>3 DEF May, Done, TaskCommands
  <2>5. CallWork(c, w)
    BY <2>1, <2>4, <1>3 DEF CallWork, root
  <2> QED BY <2>1, <2>5, <1>0, <1>3, <1>8, <1>w, WorkGoesOn
<1>9. CASE /\ r.command = "task.update" /\ Goto(x, "effect", "no_change")
           /\ Keep /\ Hold /\ UNCHANGED lock
  <2>1. VerdictFits(World, r, "no_change")
    BY <1>9 DEF VerdictFits
  <2> QED BY <2>1, <1>1, <1>9, RowsOfHold, EndsWith DEF Goto, Hold
<1>10. CASE /\ r.command = "task.cancel" /\ current.state = "canceled"
            /\ Goto(x, "status", "none") /\ Keep /\ Hold /\ UNCHANGED lock
  <2>1. PICK c : exec' = [exec EXCEPT ![x] = c] /\ c.pc = "status" /\ c.req = r
    BY <1>10, GotoIs
  <2>2. Done(r, tree)
    BY <1>10 DEF Done
  <2>3. CallWork(c, w)
    BY <2>1, <2>2 DEF CallWork
  <2> QED BY <2>1, <2>3, <1>0, <1>3, <1>10, <1>w, WorkGoesOn
<1>11. CASE r.command = "task.create"
  <2>1. Goto(x, "write", "none") /\ Keep /\ Hold /\ UNCHANGED lock
    BY <1>11 DEF LoadTask
  <2> QED BY <2>1, <1>8, <1>11
<1>12. CASE r.command = "task.update"
  <2>1. \/ Refuse(x)
        \/ Goto(x, "effect", "no_change") /\ Keep /\ Hold /\ UNCHANGED lock
        \/ /\ Updates(current, r.value) /\ current # r.value
           /\ Goto(x, "write", "none") /\ Keep /\ Hold /\ UNCHANGED lock
    BY <1>1, <1>12 DEF LoadTask
  <2> QED BY <2>1, <1>7, <1>8, <1>9, <1>12
<1>13. CASE r.command = "task.cancel"
  <2>1. \/ Refuse(x)
        \/ /\ current.state = "canceled"
           /\ Goto(x, "status", "none") /\ Keep /\ Hold /\ UNCHANGED lock
        \/ /\ Cancels(current) /\ current.state # "canceled"
           /\ Goto(x, "write", "none") /\ Keep /\ Hold /\ UNCHANGED lock
    BY <1>1, <1>13 DEF LoadTask
  <2> QED BY <2>1, <1>7, <1>8, <1>10, <1>13
<1> QED BY <1>0, <1>11, <1>12, <1>13 DEF TaskCommands

LEMMA RecaptureKeeps ==
    ASSUME Inv, NEW x \in Executors, Recapture(x)
    PROVE  Inv'
<1>0. exec[x].pc = "recapture" /\ exec[x].pc \in Placed
  BY DEF Recapture, Placed
<1>w. PICK w : w = World
  OBVIOUS
<1>1. /\ exec[x].pc # "idle" /\ CallBegun(exec[x], w) /\ CallPlace(exec[x], w)
      /\ CallInputs(exec[x], w)
  BY <1>0, <1>w, AtWork
<1>2. IsBootstrap(exec[x].req)
  BY <1>0, <1>1 DEF CallPlace
<1>3. CASE Refuse(x)
  BY <1>1, <1>3, RefuseKeeps
<1>4. CASE Read(x, "commit", [Seen(x) EXCEPT !.dirty = TRUE]) /\ Keep /\ Hold /\ UNCHANGED lock
  <2>1. PICK c : /\ exec' = [exec EXCEPT ![x] = c]
                 /\ c.pc = "commit" /\ c.req = exec[x].req
                 /\ c.seen = [exec[x].seen EXCEPT !.dirty = TRUE]
    BY <1>4, ReadIs DEF Seen
  <2>2. LET e == exec[x].seen IN e = Snapshot(e.head, e.main, e.source, e.dirty)
    BY <1>0, <1>1, <1>2 DEF CallInputs, Locked
  <2>3. /\ c.seen.dirty /\ c.seen.source = exec[x].seen.source
        /\ c.seen = Snapshot(c.seen.head, c.seen.main, c.seen.source, c.seen.dirty)
    BY <2>1, <2>2 DEF Snapshot
  <2>4. CallBegun(c, w)
    BY <1>0, <1>1, <2>1 DEF CallBegun, Locked
  <2>5. CallPlace(c, w) /\ CallWork(c, w)
    BY <1>0, <1>1, <1>2, <2>1 DEF CallPlace, CallWork, Placed
  <2>6. CallInputs(c, w)
    BY <1>0, <1>1, <2>1, <2>3 DEF CallInputs, Locked
  <2>7. CallFits(c, w)
    BY <2>1, <2>4, <2>5, <2>6 DEF CallFits
  <2>8. Holding(c) => Holding(exec[x])
    BY <1>0, <2>1 DEF Holding, Locked
  <2> QED BY <1>1, <1>4, <2>1, <2>7, <2>8, <1>w, GoesOn
<1> QED BY <1>3, <1>4 DEF Recapture

LEMMA StatusKeeps ==
    ASSUME Inv, NEW x \in Executors, Status(x)
    PROVE  Inv'
<1> DEFINE r == exec[x].req
           b == exec[x].req.branch
<1>0. exec[x].pc = "status" /\ exec[x].pc \in Placed
  BY DEF Status, Placed
<1>w. PICK w : w = World
  OBVIOUS
<1>1. /\ exec[x].pc # "idle" /\ CallPlace(exec[x], w) /\ CallWork(exec[x], w)
      /\ PlaceOf(w, r) /\ Files(x) = w.place[b] /\ BranchHead(x) = w.branch[b]
      /\ \A n : Tree(n) = TreeIn(w, n)
  BY <1>0, <1>w, AtWork
<1> DEFINE tree == w.place[b].tree
           root == RootTree(w, b)
           head == TreeIn(w, w.branch[b])
<1>2. ~ IsBootstrap(r) /\ Done(r, tree)
  BY <1>0, <1>1 DEF CallPlace, CallWork
<1>3. /\ Own(w, b) => tree = head
      /\ ~ Own(w, b) => root = head
  BY <1>1 DEF PlaceOf, PlaceFits
<1>4. CASE Refuse(x)
  BY <1>1, <1>4, RefuseKeeps
<1>5. CASE /\ ~ Files(x).litter /\ Read(x, "commit", Snapshot(0, 0, 0, ~ Clean(x)))
           /\ Keep /\ Hold /\ UNCHANGED lock
  <2> DEFINE snapshot == Snapshot(0, 0, 0, ~ Clean(x))
  <2>a. Read(x, "commit", snapshot)
    BY <1>5
  <2>b. snapshot.dirty = ~ Clean(x)
    BY DEF Snapshot
  <2> HIDE DEF snapshot
  <2>1. PICK c : /\ exec' = [exec EXCEPT ![x] = c]
                 /\ c.pc = "commit" /\ c.req = r /\ c.seen = snapshot
    BY <2>a, ReadIs
  <2>2. Clean(x) <=> tree = head
    BY <1>1, <1>5 DEF Clean
  <2>3. c.seen.dirty <=> tree # head
    BY <2>1, <2>2, <2>b
  <2> HIDE DEF tree, root, head
  <2>4. c.seen.dirty => tree # root
    BY <1>3, <2>3
  <2>5. ~ c.seen.dirty => Own(w, b) \/ Done(r, root)
    BY <1>2, <1>3, <2>3
  <2>6. CallWork(c, w)
    BY <1>2, <2>1, <2>4, <2>5 DEF CallWork, tree, root
  <2> QED BY <1>0, <1>2, <1>5, <2>1, <2>6, <1>w, WorkGoesOn
<1> QED BY <1>4, <1>5 DEF Status

LEMMA VerifyKeeps ==
    ASSUME Inv, NEW x \in Executors, Verify(x)
    PROVE  Inv'
<1> DEFINE r == exec[x].req
           b == exec[x].req.branch
<1>0. exec[x].pc = "verify" /\ exec[x].pc \in Placed
  BY DEF Verify, Placed
<1>w. PICK w : w = World
  OBVIOUS
<1>1. /\ exec[x].pc # "idle" /\ CallInputs(exec[x], w) /\ CallWork(exec[x], w)
      /\ PlaceOf(w, r) /\ BranchHead(x) = w.branch[b] /\ w.commits = commits
  BY <1>0, <1>w, AtWork DEF World
<1>2. w.branch[b] # 0
  BY <1>1 DEF PlaceOf
<1>3. CASE Refuse(x)
  BY <1>1, <1>3, RefuseKeeps
<1>4. CASE Effect(x) /\ Prepared(x)
  BY <1>1, <1>2, <1>4, <1>w, PreparedKeeps DEF Effect
<1>5. CASE ~ Effect(x) /\ Goto(x, "effect", "no_change") /\ Release(x) /\ Keep /\ Hold
  <2>1. w.commits[w.branch[b]].op # r.op
    BY <1>1, <1>5 DEF Effect
  <2>2. ~ IsBootstrap(r)
    BY <1>0, <1>1, <2>1 DEF CallInputs
  <2>3. ~ Own(w, b)
    BY <1>1, <2>1, <2>2 DEF PlaceOf
  <2>4. Done(r, RootTree(w, b))
    BY <1>0, <1>1, <2>2, <2>3 DEF CallWork
  <2>5. VerdictFits(World, r, "no_change")
    BY <1>2, <2>2, <2>4, <1>w DEF VerdictFits
  <2> QED BY <2>5, <1>1, <1>5, RowsOfHold, EndsWith DEF Goto, Hold
<1> QED BY <1>3, <1>4, <1>5 DEF Verify

LEMMA MovesRoot ==
    ASSUME NEW w, NEW v, IsWorld(w), WorldFits(w), NEW b \in Branches, Moves(w, v, b)
    PROVE  RootTree(v, b) = RootTree(w, b)
BY MovesWorld

\* a step that changes only the worktrees
LEMMA WorldMoves ==
    ASSUME NEW w, w = World, NEW v, v = World', UNCHANGED <<commits, main, branch>>, Hold
    PROVE  /\ w.place = place /\ v.place = place' /\ v.asked = w.asked
           /\ v = [w EXCEPT !.place = place']
<1>1. Asked' = Asked
  BY DEF Asked, Hold
<1>2. w = [asked |-> Asked, commits |-> commits, main |-> main,
           branch |-> branch, place |-> place]
  BY DEF World
<1>3. v = [asked |-> Asked', commits |-> commits', main |-> main',
           branch |-> branch', place |-> place']
  BY DEF World
<1>4. v = [asked |-> Asked, commits |-> commits, main |-> main,
           branch |-> branch, place |-> place']
  BY <1>1, <1>3
<1> QED BY <1>2, <1>4

\* a Task or policy call makes its temporary file
LEMMA LitterStep ==
    ASSUME Inv, NEW x \in Executors, exec[x].pc = "write", ~ IsBootstrap(exec[x].req),
           World.place[exec[x].req.branch].tree = RootTree(World, exec[x].req.branch),
           Legal(exec[x].req, RootTree(World, exec[x].req.branch)),
           place' = [place EXCEPT ![exec[x].req.branch].litter = TRUE],
           Goto(x, "replace", "none"),
           UNCHANGED <<commits, main, branch, source>>, Hold,
           \/ UNCHANGED lock /\ Holding(exec[x])
           \/ Free(Branch(x)) /\ lock' = [lock EXCEPT ![Branch(x)] = x]
    PROVE  Inv'
<1> DEFINE r == exec[x].req
           b == exec[x].req.branch
<1>0. exec[x].pc \in Placed
  BY DEF Placed
<1>w. PICK w : w = World
  OBVIOUS
<1>v. PICK v : v = World'
  OBVIOUS
<1>1. /\ exec[x].pc # "idle" /\ CallBegun(exec[x], w)
      /\ PlaceOf(w, r) /\ w.place[b].there
  BY <1>0, <1>w, AtWork
<1>2. PICK c : exec' = [exec EXCEPT ![x] = c] /\ c.pc = "replace" /\ c.req = r
  BY GotoIs
<1>3. /\ WorldFits(w) /\ r.op \in Operations /\ Begun(w, r.op)
      /\ w.asked[r.op] = r /\ b \in Branches /\ IsWorld(w)
  BY <1>1, <1>w, BranchOfCall, WorldIs
<1>a. ~ IsBootstrap(r) /\ w.place[b].tree = RootTree(w, b) /\ Legal(r, RootTree(w, b))
  BY <1>w
<1>4. Litters(w, v, b) /\ v.asked = w.asked
  <2>1. /\ w.place = place /\ v.place = place' /\ v.asked = w.asked
        /\ v = [w EXCEPT !.place = place']
    BY <1>w, <1>v, WorldMoves
  <2>2. w.place = [a \in Branches |-> w.place[a]]
        /\ w.place[b] = [there |-> w.place[b].there, tree |-> w.place[b].tree,
                         litter |-> w.place[b].litter]
    BY <1>3 DEF WorldFits, PlacesFit
  <2>3. v.place[b] = [there |-> w.place[b].there, tree |-> w.place[b].tree, litter |-> TRUE]
    BY <2>1, <2>2, <1>3
  <2>4. place' = [w.place EXCEPT ![b] = v.place[b]]
    BY <2>1, <2>2, <1>3
  <2>5. w.branch[b] # 0
    BY <1>1 DEF PlaceOf
  <2>6. Moves(w, v, b)
    BY <2>1, <2>3, <2>4, <2>5 DEF Moves
  <2>7. v.place[b].there /\ v.place[b].tree = w.place[b].tree
    BY <2>3, <1>1
  <2> QED BY <2>1, <2>6, <2>7, <1>1 DEF Litters
<1>b. Moves(w, v, b) /\ v.place[b].there /\ v.place[b].tree = w.place[b].tree
  BY <1>4 DEF Litters
<1>c. RootTree(v, b) = RootTree(w, b)
  BY <1>3, <1>b, MovesRoot
<1>5. WorldFits(v)
  <2> DEFINE o == r.op
  <2>1. /\ o \in Operations /\ Begun(w, o) /\ Litters(w, v, w.asked[o].branch)
        /\ ~ IsBootstrap(w.asked[o])
        /\ w.place[w.asked[o].branch].tree = RootTree(w, w.asked[o].branch)
    BY <1>3, <1>4, <1>a
  <2> HIDE DEF o
  <2> QED BY <2>1, <1>3, LittersFits
<1>6. CallFits(c, v)
  <2>1. CallBegun(c, v)
    BY <1>1, <1>2, <1>4 DEF CallBegun, Locked
  <2>2. CallPlace(c, v)
    BY <1>2, <1>a, <1>b DEF CallPlace
  <2>3. CallWork(c, v) /\ CallInputs(c, v)
    BY <1>2, <1>a, <1>b, <1>c DEF CallWork, CallInputs
  <2> QED BY <2>1, <2>2, <2>3, <1>2 DEF CallFits
<1>7. ASSUME NEW y \in Executors \ {x}, exec[y].pc # "idle" PROVE CallFits(exec[y], v)
  <2>1. CallFits(exec[y], w) /\ exec[y].req.branch \in Branches
    BY <1>7, <1>w, BranchOfCall
  <2> QED BY <2>1, <1>3, <1>4, <1>7, LittersCall
<1>8. \A o \in Operations :
         Begun(w, o) => VerdictFits(v, w.asked[o], journal[o].result)
  BY <1>3, <1>b, <1>w, ResultsFit, MovesVerdict
<1> HIDE DEF r, b
<1> QED BY <1>1, <1>2, <1>w, <1>v, <1>5, <1>6, <1>7, <1>8, ActsOn DEF r

LEMMA WritePolicyKeeps ==
    ASSUME Inv, NEW x \in Executors, WritePolicy(x)
    PROVE  Inv'
<1> DEFINE r == exec[x].req
           b == exec[x].req.branch
<1>0. exec[x].pc = "write" /\ exec[x].pc \in Placed /\ r.command \in PolicyCommands
      /\ UNCHANGED <<commits, main, branch, source, lock>> /\ Hold
  BY DEF WritePolicy, Placed, PolicyCall
<1>w. PICK w : w = World
  OBVIOUS
<1>1. /\ exec[x].pc # "idle" /\ PlaceOf(w, r) /\ CallWork(exec[x], w)
      /\ w.place[b].there /\ r \in Requests
  BY <1>0, <1>w, AtWork DEF PlaceOf
<1>2. ~ IsBootstrap(r) /\ r.command \notin TaskCommands
  BY <1>0, <1>1, KindOfCall
<1>3. w.place[b].tree = RootTree(w, b) /\ Legal(r, RootTree(w, b))
  BY <1>0, <1>1, <1>2 DEF CallWork
<1>4. Holding(exec[x])
  BY <1>0, <1>2 DEF Holding, Locked
<1> QED BY <1>0, <1>1, <1>2, <1>3, <1>4, <1>w, LitterStep
        DEF WritePolicy, Branch

LEMMA ReplaceKeeps ==
    ASSUME Inv, NEW x \in Executors, Replace(x)
    PROVE  Inv'
<1> DEFINE r == exec[x].req
           b == exec[x].req.branch
<1>0. /\ exec[x].pc = "replace" /\ exec[x].pc \in Placed
      /\ place' = [place EXCEPT ![b].litter = FALSE, ![b].tree = Desired(x, @)]
      /\ Goto(x, "status", "none")
      /\ UNCHANGED <<commits, main, branch, source>> /\ Hold
      /\ IF TaskCall(x) THEN Release(x) ELSE UNCHANGED lock
  BY DEF Replace, Placed, Branch
<1>w. PICK w : w = World
  OBVIOUS
<1>v. PICK v : v = World'
  OBVIOUS
<1>1. /\ exec[x].pc # "idle" /\ CallBegun(exec[x], w) /\ CallPlace(exec[x], w)
      /\ CallWork(exec[x], w) /\ PlaceOf(w, r) /\ w.place[b].there
  BY <1>0, <1>w, AtWork
<1>2. PICK c : exec' = [exec EXCEPT ![x] = c] /\ c.pc = "status" /\ c.req = r
  BY <1>0, GotoIs
<1>3. /\ WorldFits(w) /\ r.op \in Operations /\ Begun(w, r.op) /\ r \in Requests
      /\ w.asked[r.op] = r /\ b \in Branches /\ IsWorld(w)
  BY <1>1, <1>w, BranchOfCall, WorldIs
<1>a. ~ IsBootstrap(r) /\ w.place[b].tree = RootTree(w, b) /\ Legal(r, RootTree(w, b))
  BY <1>0, <1>1 DEF CallPlace, CallWork
<1>b. Desired(x, w.place[b].tree) = With(r, RootTree(w, b))
  <2>1. \A t : Over(Changes(r, Seen(x).source), t) = With(r, t)
    BY <1>a, ChangesOfOther
  <2> QED BY <2>1, <1>a DEF Desired
<1>4. Replaces(w, v, r) /\ v.asked = w.asked
  <2>1. /\ w.place = place /\ v.place = place' /\ v.asked = w.asked
        /\ v = [w EXCEPT !.place = place']
    BY <1>0, <1>w, <1>v, WorldMoves
  <2>2. w.place = [a \in Branches |-> w.place[a]]
        /\ w.place[b] = [there |-> w.place[b].there, tree |-> w.place[b].tree,
                         litter |-> w.place[b].litter]
    BY <1>3 DEF WorldFits, PlacesFit
  <2>a. v.place = [w.place EXCEPT ![b].litter = FALSE, ![b].tree = Desired(x, @)]
    BY <2>1, <1>0
  <2>3. v.place[b] = [there |-> w.place[b].there,
                      tree |-> Desired(x, w.place[b].tree), litter |-> FALSE]
    BY <2>a, <2>2, <1>3
  <2>4. place' = [w.place EXCEPT ![b] = v.place[b]]
    BY <2>1, <2>a, <2>2, <1>3
  <2>5. w.branch[b] # 0
    BY <1>1 DEF PlaceOf
  <2>6. v.place[b] = [there |-> w.place[b].there,
                      tree |-> With(r, RootTree(w, b)), litter |-> FALSE]
    BY <2>3, <1>b
  <2>7. Moves(w, v, b)
    BY <2>1, <2>4, <2>5, <2>6 DEF Moves
  <2> QED BY <2>1, <2>6, <2>7, <1>1, <1>a DEF Replaces
<1>m. Moves(w, v, b) /\ v.place[b].there /\ v.place[b].tree = With(r, RootTree(w, b))
  BY <1>4 DEF Replaces
<1>5. WorldFits(v)
  <2> DEFINE o == r.op
  <2>1. o \in Operations /\ Begun(w, o) /\ Replaces(w, v, w.asked[o])
        /\ ~ IsBootstrap(w.asked[o])
    BY <1>3, <1>4, <1>a
  <2> HIDE DEF o
  <2> QED BY <2>1, <1>3, ReplacesFits
<1>6. CallFits(c, v)
  <2>1. CallBegun(c, v)
    BY <1>0, <1>1, <1>2, <1>4 DEF CallBegun, Locked
  <2>2. CallPlace(c, v)
    BY <1>2, <1>a, <1>m DEF CallPlace
  <2>3. Done(r, v.place[b].tree)
    BY <1>3, <1>a, <1>m, WithIsDone
  <2>4. CallWork(c, v) /\ CallInputs(c, v)
    BY <2>3, <1>2, <1>a DEF CallWork, CallInputs
  <2> QED BY <2>1, <2>2, <2>4, <1>2 DEF CallFits
<1>7. ASSUME NEW y \in Executors \ {x}, exec[y].pc # "idle" PROVE CallFits(exec[y], v)
  <2>1. CallFits(exec[y], w) /\ exec[y].req.branch \in Branches
    BY <1>7, <1>w, BranchOfCall
  <2>2. Holding(exec[x])
    BY <1>0 DEF Holding, Locked
  <2>3. exec[y].req.branch = b => ~ Holding(exec[y])
    BY <2>2, OneHolds
  <2> DEFINE o == r.op
  <2>4. o \in Operations /\ Begun(w, o) /\ Replaces(w, v, w.asked[o])
        /\ ~ IsBootstrap(w.asked[o])
        /\ (exec[y].req.branch = w.asked[o].branch => ~ Holding(exec[y]))
    BY <1>3, <1>4, <1>a, <2>3
  <2> HIDE DEF o
  <2> QED BY <2>1, <2>4, <1>3, <1>7, ReplacesCall
<1>8. \A o \in Operations :
         Begun(w, o) => VerdictFits(v, w.asked[o], journal[o].result)
  BY <1>3, <1>m, <1>w, ResultsFit, MovesVerdict
<1>9. \/ UNCHANGED lock /\ (Holding(c) => Holding(exec[x]))
      \/ Release(x) /\ ~ Holding(c)
  <2>1. Holding(exec[x])
    BY <1>0 DEF Holding, Locked
  <2>2. TaskCall(x) => ~ Holding(c)
    BY <1>2 DEF TaskCall, Holding
  <2> QED BY <2>1, <2>2, <1>0
<1> HIDE DEF r, b
<1> QED BY <1>0, <1>1, <1>2, <1>w, <1>v, <1>5, <1>6, <1>7, <1>8, <1>9, ActsOn DEF r

LEMMA WriteTaskKeeps ==
    ASSUME Inv, NEW x \in Executors, WriteTask(x)
    PROVE  Inv'
<1> DEFINE r == exec[x].req
           b == exec[x].req.branch
<1>0. exec[x].pc = "write" /\ exec[x].pc \in Placed /\ r.command \in TaskCommands
  BY DEF WriteTask, TaskCall, Placed
<1>w. PICK w : w = World
  OBVIOUS
<1>1. /\ exec[x].pc # "idle" /\ PlaceOf(w, r) /\ CallWork(exec[x], w)
      /\ Files(x) = w.place[b]
  BY <1>0, <1>w, AtWork
<1>2. r \in Requests
  BY <1>1 DEF PlaceOf
<1>3. ~ IsBootstrap(r) /\ r.command \notin PolicyCommands
  BY <1>0, <1>2, KindOfCall
<1> DEFINE tree == w.place[b].tree
           root == RootTree(w, b)
<1>6. /\ RootOrDone(r, tree, root, w.place[b].litter)
      /\ With(r, root)[r.slot] = r.value
  BY <1>1, <1>3, WorkTree
<1>7. May(r, root)
  BY <1>0, <1>1, <1>3 DEF CallWork
<1>8. CASE Refuse(x)
  BY <1>1, <1>8, RefuseKeeps
<1>9. CASE /\ r.command = "task.create" /\ tree[r.slot] = r.value
           /\ Goto(x, "status", "none") /\ Keep /\ UNCHANGED lock /\ Hold
  <2>1. PICK c : exec' = [exec EXCEPT ![x] = c] /\ c.pc = "status" /\ c.req = r
    BY <1>9, GotoIs
  <2>2. Done(r, tree)
    BY <1>9 DEF Done
  <2>3. CallWork(c, w)
    BY <2>1, <2>2 DEF CallWork
  <2> QED BY <2>1, <2>3, <1>0, <1>3, <1>9, <1>w, WorkGoesOn
<1>10. CASE /\ \/ r.command = "task.create" /\ tree[r.slot] = Absent
               \/ r.command # "task.create" /\ tree[r.slot] = r.expected
            /\ lock' = [lock EXCEPT ![b] = x] /\ Free(b)
            /\ place' = [place EXCEPT ![b].litter = TRUE]
            /\ Goto(x, "replace", "none")
            /\ UNCHANGED <<commits, main, branch, source>> /\ Hold
  <2>1. r.command = "task.create" => r.value # Absent
    BY <1>2, ControlRequestAssumption DEF Absent, Value
  <2>2. tree = root
    <3> SUFFICES ASSUME tree = With(r, root), Legal(r, root) PROVE FALSE
      BY <1>6 DEF RootOrDone
    <3> HIDE DEF root
    <3>1. tree[r.slot] = r.value
      BY <1>6
    <3>2. r.command # "task.create"
      BY <3>1, <2>1, <1>10
    <3>3. root[r.slot] = r.expected
      BY <3>2, <1>0 DEF Legal, AsSeen, TaskCommands
    <3>4. root[r.slot] = r.value
      BY <3>1, <3>2, <3>3, <1>10
    <3>5. Done(r, root)
      BY <3>4, <1>2, ControlRequestAssumption DEF Done
    <3> QED BY <3>5 DEF Legal
  <2> HIDE DEF tree, root
  <2>3. AsSeen(r, root)
    BY <2>2, <1>10 DEF AsSeen
  <2>4. ~ Done(r, root)
    <3>1. CASE r.command = "task.create"
      BY <3>1, <2>1, <2>2, <1>10 DEF Done
    <3>2. CASE r.command # "task.create"
      BY <3>2, <1>0, <1>1, <1>3 DEF CallWork, root
    <3> QED BY <3>1, <3>2
  <2>5. Legal(r, root)
    BY <2>3, <2>4, <1>7 DEF Legal
  <2> QED BY <2>2, <2>5, <1>0, <1>3, <1>10, <1>w, LitterStep DEF tree, root, Branch
<1> QED BY <1>0, <1>1, <1>8, <1>9, <1>10
        DEF WriteTask, MayCreate, UnchangedSince, Branch

LEMMA WriteBootstrapKeeps ==
    ASSUME Inv, NEW x \in Executors, WriteBootstrap(x)
    PROVE  Inv'
<1> DEFINE r == exec[x].req
           b == exec[x].req.branch
           changes == Changes(r, Seen(x).source)
<1>0. /\ exec[x].pc = "write" /\ exec[x].pc \in Placed /\ IsBootstrap(r)
      /\ UNCHANGED <<commits, main, branch, source, lock>> /\ Hold
  BY DEF WriteBootstrap, Placed, BootstrapCall, IsBootstrap
<1>w. PICK w : w = World
  OBVIOUS
<1>1. /\ exec[x].pc # "idle" /\ CallBegun(exec[x], w) /\ CallPlace(exec[x], w)
      /\ CallInputs(exec[x], w) /\ CallFits(exec[x], w)
      /\ PlaceOf(w, r) /\ Files(x) = w.place[b] /\ w.place[b].there
  BY <1>0, <1>w, AtWork
<1>3. /\ WorldFits(w) /\ r.op \in Operations /\ Begun(w, r.op) /\ r \in Requests
      /\ w.asked[r.op] = r /\ b \in Branches /\ IsWorld(w)
  BY <1>1, <1>w, BranchOfCall, WorldIs
<1>4. /\ InputsFit(w, r, exec[x].seen.source) /\ w.branch[b] = r.base
  BY <1>0, <1>1 DEF CallInputs, Locked
\* both files are written
<1>5. CASE Holds(w.place[b].tree, changes) /\ Read(x, "recapture", exec[x].seen) /\ UNCHANGED place
  <2>1. PICK c : /\ exec' = [exec EXCEPT ![x] = c]
                 /\ c.pc = "recapture" /\ c.req = r /\ c.seen = exec[x].seen
    BY <1>5, ReadIs
  <2>2. CallBegun(c, w)
    BY <1>0, <1>1, <2>1 DEF CallBegun, Locked
  <2>3. CallPlace(c, w) /\ CallWork(c, w)
    BY <1>0, <1>1, <2>1 DEF CallPlace, CallWork, Placed
  <2>4. CallInputs(c, w)
    BY <1>0, <1>1, <1>5, <2>1 DEF CallInputs, Locked, Seen
  <2>5. CallFits(c, w)
    BY <2>1, <2>2, <2>3, <2>4 DEF CallFits
  <2>6. Holding(c) => Holding(exec[x])
    BY <1>0, <2>1 DEF Holding, Locked
  <2>7. Keep
    BY <1>0, <1>5 DEF Keep
  <2> QED BY <1>0, <1>1, <1>w, <2>1, <2>5, <2>6, <2>7, GoesOn
\* a file is written
<1>6. ASSUME NEW s \in DOMAIN changes,
             place' = [place EXCEPT ![b].tree[s] = changes[s]],
             UNCHANGED exec
      PROVE  Inv'
  <2>v. PICK v : v = World'
    OBVIOUS
  <2>1. s \in {"config", "record"}
    BY <1>0, ChangesOfBootstrap
  <2>2. exec' = [exec EXCEPT ![x] = exec[x]]
    BY <1>6 DEF Inv
  <2>n. ~ Own(w, b)
    <3> DEFINE o == r.op
    <3>1. o \in Operations /\ Begun(w, o) /\ IsBootstrap(w.asked[o])
          /\ InputsFit(w, w.asked[o], exec[x].seen.source)
          /\ w.branch[w.asked[o].branch] = w.asked[o].base /\ w.asked[o].branch = b
      BY <1>0, <1>3, <1>4
    <3> HIDE DEF o
    <3> QED BY <3>1, <1>3, BootstrapNotOwn
  <2>3. Writes(w, v, b) /\ v.asked = w.asked
    <3>1. /\ w.place = place /\ v.place = place' /\ v.asked = w.asked
          /\ v = [w EXCEPT !.place = place']
      BY <1>0, <1>w, <2>v, WorldMoves
    <3>a. /\ w.place = [a \in Branches |-> w.place[a]]
          /\ w.place[b] = [there |-> w.place[b].there, tree |-> w.place[b].tree,
                           litter |-> w.place[b].litter]
      BY <1>3 DEF WorldFits, PlacesFit
    <3>b. IsTree(w.place[b].tree)
      BY <1>1 DEF PlaceOf, PlaceFits
    <3>2. /\ w.place = [a \in Branches |-> w.place[a]]
          /\ w.place[b] = [there |-> w.place[b].there, tree |-> w.place[b].tree,
                           litter |-> w.place[b].litter]
          /\ IsTree(w.place[b].tree)
      BY <3>a, <3>b
    <3> DEFINE tree == [w.place[b].tree EXCEPT ![s] = changes[s]]
    <3>3. /\ v.place[b] = [there |-> w.place[b].there, tree |-> tree,
                           litter |-> w.place[b].litter]
          /\ place' = [w.place EXCEPT ![b] = v.place[b]]
      <4> HIDE DEF changes
      <4>1. v.place = [w.place EXCEPT ![b] = [w.place[b] EXCEPT !.tree = tree]]
        BY <3>1, <3>2, <1>3, <1>6
      <4> HIDE DEF tree
      <4>2. v.place[b] = [w.place[b] EXCEPT !.tree = tree]
        BY <4>1, <3>2, <1>3
      <4>3. [w.place[b] EXCEPT !.tree = tree]
              = [there |-> w.place[b].there, tree |-> tree, litter |-> w.place[b].litter]
        <5> PICK u : u = w.place[b]
          OBVIOUS
        <5>1. u = [there |-> u.there, tree |-> u.tree, litter |-> u.litter]
          BY <3>2
        <5>2. [u EXCEPT !.tree = tree] = [there |-> u.there, tree |-> tree, litter |-> u.litter]
          BY <5>1
        <5> QED BY <5>2
      <4> QED BY <4>1, <4>2, <4>3, <3>1
    <3>4. /\ IsTree(tree)
          /\ \A t \in Slots \ {"config", "record"} : tree[t] = w.place[b].tree[t]
      BY <3>2, <2>1 DEF IsTree
    <3>5. w.branch[b] # 0
      BY <1>1 DEF PlaceOf
    <3> HIDE DEF tree
    <3>7. /\ v.place[b].there = w.place[b].there /\ v.place[b].tree = tree
          /\ v.place[b].litter = w.place[b].litter
      BY <3>3
    <3>8. IsTree(v.place[b].tree)
      BY <3>4, <3>7
    <3>9. \A t \in Slots \ {"config", "record"} : v.place[b].tree[t] = w.place[b].tree[t]
      BY <3>4, <3>7
    <3>6. Moves(w, v, b)
      BY <3>1, <3>3, <3>5 DEF Moves
    <3>10. Writes(w, v, b)
      BY <3>6, <3>7, <3>8, <3>9, <2>n, <1>1 DEF Writes
    <3> QED BY <3>1, <3>10
  <2>4. Moves(w, v, b)
    BY <2>3 DEF Writes
  <2>5. WorldFits(v)
    <3> DEFINE o == r.op
    <3>1. o \in Operations /\ Begun(w, o) /\ Writes(w, v, w.asked[o].branch)
          /\ IsBootstrap(w.asked[o])
      BY <1>0, <1>3, <2>3
    <3> HIDE DEF o
    <3> QED BY <3>1, <1>3, WritesFits
  <2>6. ASSUME NEW y \in Executors, exec[y].pc # "idle" PROVE CallFits(exec[y], v)
    <3>1. CallFits(exec[y], w) /\ exec[y].req.branch \in Branches
      BY <2>6, <1>w, BranchOfCall
    <3>2. exec[y].req.branch = b => exec[y].pc \notin {"recapture", "commit"}
      <4> SUFFICES ASSUME exec[y].req.branch = b, exec[y].pc \in {"recapture", "commit"}
                   PROVE  FALSE
        OBVIOUS
      <4>1. y # x
        BY <1>0
      <4>2. IsBootstrap(exec[y].req) /\ exec[y].req \in Requests
        BY <1>0, <1>1, <2>6, SameKind, BranchOfCall
      <4>3. Holding(exec[y]) /\ Holding(exec[x])
        BY <1>0, <1>3, <4>2, KindOfCall DEF Holding, Locked
      <4> QED BY <4>1, <4>3, OneHolds
    <3> DEFINE o == r.op
    <3>3. /\ o \in Operations /\ Begun(w, o) /\ Writes(w, v, w.asked[o].branch)
          /\ IsBootstrap(w.asked[o])
          /\ exec[y].req.branch = w.asked[o].branch =>
                exec[y].pc \notin {"recapture", "commit"}
      BY <1>0, <1>3, <2>3, <3>2
    <3> HIDE DEF o
    <3> QED BY <3>1, <3>3, <1>3, <2>6, WritesCall
  <2>7. \A o \in Operations :
           Begun(w, o) => VerdictFits(v, w.asked[o], journal[o].result)
    BY <1>3, <2>4, <1>w, ResultsFit, MovesVerdict
  <2> HIDE DEF r, b, changes
  <2> QED BY <1>0, <1>1, <1>w, <2>v, <2>2, <2>5, <2>6, <2>7, ActsOn
<1>7. \/ Holds(place[b].tree, changes) /\ Read(x, "recapture", exec[x].seen) /\ UNCHANGED place
      \/ \E s \in DOMAIN changes :
            place' = [place EXCEPT ![b].tree[s] = changes[s]] /\ UNCHANGED exec
  BY DEF WriteBootstrap, Branch, Seen
<1>8. place[b] = w.place[b]
  BY <1>w DEF World
<1> HIDE DEF changes, b
<1> QED BY <1>5, <1>6, <1>7, <1>8

\* a call that has committed its worktree
LEMMA CommitStep ==
    ASSUME Inv, NEW x \in Executors, exec[x].pc = "commit", NEW w, w = World, NEW v, v = World',
           NEW c, exec' = [exec EXCEPT ![x] = c], c.pc = "verify", c.req = exec[x].req,
           UNCHANGED <<source, lock>>, Hold, v.asked = w.asked, v.place = w.place,
           CommitsTo(w, v, exec[x].req)
    PROVE  Inv'
<1> DEFINE r == exec[x].req
           b == exec[x].req.branch
<1>0. exec[x].pc \in Placed
  BY DEF Placed
<1>1. /\ exec[x].pc # "idle" /\ CallBegun(exec[x], w) /\ w.place[b].there
  BY <1>0, AtWork
<1>3. /\ WorldFits(w) /\ r.op \in Operations /\ Begun(w, r.op) /\ r \in Requests
      /\ w.asked[r.op] = r /\ b \in Branches /\ IsWorld(w)
  BY <1>1, BranchOfCall, WorldIs
<1> DEFINE o == r.op
<1>o. /\ o \in Operations /\ Begun(w, o) /\ w.asked[o] = r
      /\ CommitsTo(w, v, w.asked[o])
  BY <1>3
<1> HIDE DEF o
<1>4. WorldFits(v)
  BY <1>o, <1>3, CommitsFits
<1>a. Own(v, w.asked[o].branch) /\ v.commits[Next1(w)].op = o
  BY <1>o, <1>3, CommitsBeside
<1>b. CommitParts(w, v, w.asked[o])
  BY <1>o, <1>3, CommitsWorld
<1>5. /\ Own(v, w.asked[o].branch) /\ v.commits[Next1(w)].op = o
      /\ CommitParts(w, v, w.asked[o]) /\ WorldFits(w)
  BY <1>a, <1>b, <1>3
<1>6. /\ Own(v, b) /\ v.branch[b] # 0 /\ v.commits[v.branch[b]].op = r.op
  <2>1. v.branch[b] = Next1(w) /\ Grows(w, v, Commit(r.op, w.branch[b],
             PastIn(w, w.branch[b]), w.place[b].tree))
    BY <1>5, <1>o DEF CommitParts
  <2>2. v.branch[b] # 0
    BY <2>1, <1>3, GrowsWorld
  <2> QED BY <2>1, <2>2, <1>5, <1>o DEF o
<1>7. CallFits(c, v)
  <2>1. CallBegun(c, v)
    BY <1>1 DEF CallBegun, Locked
  <2>2. CallPlace(c, v) /\ CallWork(c, v) /\ CallInputs(c, v)
    BY <1>1, <1>6 DEF CallPlace, CallWork, CallInputs
  <2> QED BY <2>1, <2>2 DEF CallFits
<1>8. ASSUME NEW y \in Executors \ {x}, exec[y].pc # "idle" PROVE CallFits(exec[y], v)
  <2>1. CallFits(exec[y], w) /\ exec[y].req.branch \in Branches /\ exec[y].req \in Requests
    BY <1>8, BranchOfCall
  <2>2. exec[y].req.branch = b /\ IsBootstrap(exec[y].req) =>
           exec[y].pc \notin {"write", "recapture", "commit", "verify"}
    <3> SUFFICES ASSUME exec[y].req.branch = b, IsBootstrap(exec[y].req),
                        exec[y].pc \in {"write", "recapture", "commit", "verify"}
                 PROVE  FALSE
      OBVIOUS
    <3>1. IsBootstrap(r)
      BY <1>1, <1>8, SameKind
    <3>2. Holding(exec[y]) /\ Holding(exec[x])
      BY <3>1, <2>1, <1>3, KindOfCall DEF Holding, Locked
    <3> QED BY <3>2, OneHolds
  <2>3. exec[y].req.branch = w.asked[o].branch /\ IsBootstrap(exec[y].req) =>
           exec[y].pc \notin {"write", "recapture", "commit", "verify"}
    BY <2>2, <1>o
  <2> QED BY <2>1, <2>3, <1>o, <1>3, <1>8, CommitsCall
<1>9. \A p \in Operations :
         Begun(w, p) => VerdictFits(v, w.asked[p], journal[p].result)
  BY <1>o, <1>3, ResultsFit, CommitsVerdict
<1>10. Holding(c) => Holding(exec[x])
  BY DEF Holding, Locked
<1> HIDE DEF r, b
<1> QED BY <1>1, <1>4, <1>7, <1>8, <1>9, <1>10, ActsOn DEF r

LEMMA WorldWith ==
    ASSUME NEW w, IsWorld(w), NEW k, NEW m, NEW h
    PROVE  /\ [w EXCEPT !.commits = k, !.branch = h]
                = [asked |-> w.asked, commits |-> k, main |-> w.main,
                   branch |-> h, place |-> w.place]
           /\ [w EXCEPT !.commits = k, !.main = m]
                = [asked |-> w.asked, commits |-> k, main |-> m,
                   branch |-> w.branch, place |-> w.place]
<1>1. w = [asked |-> w.asked, commits |-> w.commits, main |-> w.main,
           branch |-> w.branch, place |-> w.place]
  BY DEF IsWorld
<1>2. PICK a, c, d, e, f : a = w.asked /\ c = w.commits /\ d = w.main
                           /\ e = w.branch /\ f = w.place
  OBVIOUS
<1>3. w = [asked |-> a, commits |-> c, main |-> d, branch |-> e, place |-> f]
  BY <1>1, <1>2
<1>4. /\ [w EXCEPT !.commits = k, !.branch = h]
            = [asked |-> a, commits |-> k, main |-> d, branch |-> h, place |-> f]
      /\ [w EXCEPT !.commits = k, !.main = m]
            = [asked |-> a, commits |-> k, main |-> m, branch |-> e, place |-> f]
  <2>1. PICK u : u = [w EXCEPT !.commits = k]
    OBVIOUS
  <2>2. u = [asked |-> a, commits |-> k, main |-> d, branch |-> e, place |-> f]
    BY <1>3, <2>1
  <2>3. /\ [u EXCEPT !.branch = h]
              = [asked |-> a, commits |-> k, main |-> d, branch |-> h, place |-> f]
        /\ [u EXCEPT !.main = m]
              = [asked |-> a, commits |-> k, main |-> m, branch |-> e, place |-> f]
    BY <2>2
  <2>4. /\ [w EXCEPT !.commits = k, !.branch = h]
              = [[w EXCEPT !.commits = k] EXCEPT !.branch = h]
        /\ [w EXCEPT !.commits = k, !.main = m]
              = [[w EXCEPT !.commits = k] EXCEPT !.main = m]
    OBVIOUS
  <2> QED BY <2>1, <2>3, <2>4
<1> QED BY <1>2, <1>4

LEMMA CommitFilesKeeps ==
    ASSUME Inv, NEW x \in Executors, CommitFiles(x)
    PROVE  Inv'
<1> DEFINE r == exec[x].req
           b == exec[x].req.branch
<1>0. exec[x].pc = "commit" /\ exec[x].pc \in Placed
  BY DEF CommitFiles, Placed
<1>w. PICK w : w = World
  OBVIOUS
<1>1. /\ exec[x].pc # "idle" /\ CallBegun(exec[x], w)
      /\ CallInputs(exec[x], w) /\ CallWork(exec[x], w) /\ CallFits(exec[x], w)
      /\ PlaceOf(w, r) /\ Files(x) = w.place[b] /\ w.place[b].there
      /\ BranchHead(x) = w.branch[b] /\ \A n : Tree(n) = TreeIn(w, n)
  BY <1>0, <1>w, AtWork
<1>3. /\ WorldFits(w) /\ r.op \in Operations /\ Begun(w, r.op) /\ r \in Requests
      /\ w.asked[r.op] = r /\ b \in Branches /\ IsWorld(w)
  BY <1>1, <1>w, BranchOfCall, WorldIs
<1> DEFINE tree == w.place[b].tree
           root == RootTree(w, b)
           head == TreeIn(w, w.branch[b])
           version == exec[x].seen.source
<1>4. IsBootstrap(r) => /\ InputsFit(w, r, version) /\ w.branch[b] = r.base
                        /\ Holds(tree, Changes(r, version)) /\ exec[x].seen.dirty
  BY <1>0, <1>1 DEF CallInputs, Locked
<1>5. Clean(x) <=> tree = head /\ ~ w.place[b].litter
  BY <1>1 DEF Clean
<1>6. /\ Own(w, b) => tree = head
      /\ ~ Own(w, b) => root = head /\ Root(w, b) = w.branch[b]
  BY <1>1 DEF PlaceOf, PlaceFits
<1>7. CASE Refuse(x)
  BY <1>1, <1>7, RefuseKeeps
\* there is nothing to commit
<1>8. CASE /\ ~ exec[x].seen.dirty \/ Clean(x)
           /\ Goto(x, "verify", "none") /\ Keep /\ Hold /\ UNCHANGED lock
  <2>1. ~ IsBootstrap(r)
    <3> SUFFICES ASSUME IsBootstrap(r) PROVE FALSE
      OBVIOUS
    <3>1. tree = TreeIn(w, r.base)
      BY <1>4, <1>5, <1>8
    <3>2. tree["record"] = Changes(r, version)["record"]
      BY <1>4, ChangesOfBootstrap DEF Holds
    <3> QED BY <3>1, <3>2, <1>4, InputsDiffer
  <2>2. PICK c : exec' = [exec EXCEPT ![x] = c] /\ c.pc = "verify" /\ c.req = r
    BY <1>8, GotoIs
  <2>3. /\ Done(r, tree)
        /\ IF exec[x].seen.dirty THEN tree # root ELSE Own(w, b) \/ Done(r, root)
    BY <2>1, <1>0, <1>1 DEF CallWork
  <2> HIDE DEF tree, root, head
  <2>4. Own(w, b) \/ Done(r, root)
    BY <2>3, <1>5, <1>6, <1>8
  <2>5. CallWork(c, w)
    BY <2>1, <2>2, <2>4 DEF CallWork, root
  <2> QED BY <2>1, <2>2, <2>5, <1>0, <1>8, <1>w, WorkGoesOn
\* the worktree is committed
<1>9. ASSUME exec[x].seen.dirty, ~ Clean(x),
             commits' = Append(commits,
                Commit(r.op, branch[b], Past(branch[b]), place[b].tree)),
             branch' = [branch EXCEPT ![b] = Len(commits) + 1],
             Goto(x, "verify", "none"),
             UNCHANGED <<main, place, source, lock>>, Hold
      PROVE  Inv'
  <2>v. PICK v : v = World'
    OBVIOUS
  <2>0. Goto(x, "verify", "none")
    BY <1>9
  <2>2. PICK c : exec' = [exec EXCEPT ![x] = c] /\ c.pc = "verify" /\ c.req = r
    BY <2>0, GotoIs
  <2>n. ~ Own(w, b) /\ root = head /\ Root(w, b) = w.branch[b]
    <3>1. CASE IsBootstrap(r)
      <4> DEFINE o == r.op
      <4>1. /\ o \in Operations /\ Begun(w, o) /\ IsBootstrap(w.asked[o])
            /\ InputsFit(w, w.asked[o], version)
            /\ w.branch[w.asked[o].branch] = w.asked[o].base /\ w.asked[o].branch = b
        BY <1>3, <1>4, <3>1
      <4> HIDE DEF o, version
      <4>2. ~ Own(w, b)
        BY <4>1, <1>3, BootstrapNotOwn
      <4> QED BY <4>2, <1>6
    <3>2. CASE ~ IsBootstrap(r)
      <4>1. /\ RootOrDone(r, tree, root, w.place[b].litter)
            /\ tree # root
        <5>1. tree # root
          BY <3>2, <1>0, <1>1, <1>9 DEF CallWork
        <5> QED BY <5>1, <3>2, <1>1, WorkTree
      <4> HIDE DEF tree, root, head
      <4>2. ~ w.place[b].litter
        BY <4>1 DEF RootOrDone
      <4> QED BY <4>2, <1>5, <1>6, <1>9
    <3> QED BY <3>1, <3>2
  <2>3. Proposes(w, r, w.branch[b], tree) /\ TreeFits(tree)
    <3>1. CASE IsBootstrap(r)
      <4>1. /\ IsTree(tree) /\ TreeFits(root)
            /\ \A s \in Slots \ {"config", "record"} : tree[s] = root[s]
        BY <3>1, <1>1 DEF PlaceOf, PlaceFits
      <4> HIDE DEF tree, root, version
      <4>2. tree = Over(Changes(r, version), root)
        BY <4>1, <3>1, <1>4, BootstrapTree
      <4>3. TreeFits(tree)
        BY <4>1, <4>2, <3>1, BootstrapFits
      <4>4. version \in Sources
        BY <3>1, <1>4 DEF InputsFit
      <4> QED BY <4>2, <4>3, <4>4, <3>1, <1>4, <2>n DEF Proposes
    <3>2. CASE ~ IsBootstrap(r)
      <4>1. /\ RootOrDone(r, tree, root, w.place[b].litter)
            /\ tree # root /\ TreeFits(root)
        <5>1. tree # root
          BY <3>2, <1>0, <1>1, <1>9 DEF CallWork
        <5>2. TreeFits(root)
          BY <1>1 DEF PlaceOf
        <5> QED BY <5>1, <5>2, <3>2, <1>1, WorkTree
      <4> HIDE DEF tree, root
      <4>2. tree = With(r, root) /\ Legal(r, root)
        BY <4>1 DEF RootOrDone
      <4>3. TreeFits(tree)
        BY <4>1, <4>2, <3>2, <1>3, WithFits
      <4> QED BY <4>2, <4>3, <3>2, <2>n DEF Proposes
    <3> QED BY <3>1, <3>2
  <2>4. r.command \notin TaskCommands => w.branch[b] = r.base
    <3>1. CASE IsBootstrap(r)
      BY <3>1, <1>4
    <3>2. CASE ~ IsBootstrap(r) /\ r.command \notin TaskCommands
      <4>1. r.command \in PolicyCommands
        BY <3>2, <1>3, KindOfCall
      <4>2. Root(w, b) = r.base
        BY <4>1, <1>1 DEF PlaceOf, RootFits
      <4> QED BY <4>2, <2>n
    <3> QED BY <3>1, <3>2
  <2>5. v = [w EXCEPT
               !.commits = Append(w.commits, Commit(r.op, w.branch[b],
                              PastIn(w, w.branch[b]), w.place[b].tree)),
               !.branch = [w.branch EXCEPT ![b] = Next1(w)]]
    <3>1. /\ w.commits = commits /\ w.branch = branch /\ w.place = place
          /\ Past(branch[b]) = PastIn(w, w.branch[b]) /\ Next1(w) = Len(commits) + 1
      BY <1>w DEF World, Past, PastIn, Next1
    <3>a. Asked' = Asked /\ main' = main /\ place' = place
      BY <1>9 DEF Asked, Hold
    <3>b. v = [asked |-> Asked, commits |-> commits', main |-> main,
               branch |-> branch', place |-> place]
      BY <3>a, <2>v DEF World
    <3>k. PICK k : k = commits'
      OBVIOUS
    <3>h. PICK h : h = branch'
      OBVIOUS
    <3>c. v = [asked |-> w.asked, commits |-> k, main |-> w.main,
               branch |-> h, place |-> w.place]
      BY <3>b, <3>k, <3>h, <1>w DEF World
    <3>2. v = [w EXCEPT !.commits = k, !.branch = h]
      BY <3>c, <1>3, WorldWith
    <3>3. /\ k = Append(w.commits, Commit(r.op, w.branch[b],
                    PastIn(w, w.branch[b]), w.place[b].tree))
          /\ h = [w.branch EXCEPT ![b] = Next1(w)]
      BY <3>1, <3>k, <3>h, <1>9
    <3> QED BY <3>2, <3>3
  <2>6. CommitsTo(w, v, r) /\ v.asked = w.asked /\ v.place = w.place
    <3>1. r \notin Denied
      BY <1>0, <1>1 DEF CallBegun, Locked
    <3>2. v.asked = w.asked /\ v.place = w.place
      BY <1>9, <1>w, <2>v DEF World, Asked, Hold
    <3>b. b = r.branch /\ tree = w.place[b].tree /\ w.place[b].there
      BY <1>1
    <3> HIDE DEF r, b, tree
    <3>3. CommitsTo(w, v, r)
      BY <3>1, <3>b, <2>n, <2>3, <2>4, <2>5 DEF CommitsTo
    <3> QED BY <3>2, <3>3
  <2> QED BY <2>v, <2>2, <2>6, <1>0, <1>1, <1>3, <1>9, <1>w, CommitStep
<1> QED BY <1>7, <1>8, <1>9 DEF CommitFiles, Branch, Seen, Past

LEMMA OpensKeeps ==
    ASSUME NEW w, NEW v, IsWorld(w), WorldFits(w), NEW r \in Requests, Opens(w, v, r)
    PROVE  /\ v.branch = w.branch /\ v.place = w.place /\ Later(w, v)
           /\ v.asked[r.op] = r /\ r # NoRequest
<1>0. /\ v.commits = w.commits /\ v.main = w.main /\ v.branch = w.branch
      /\ v.place = w.place
      /\ v.asked[r.op] = r /\ r.op \in Operations /\ r # NoRequest
      /\ \A o \in Operations : o # r.op => v.asked[o] = w.asked[o]
      /\ v.asked = [o \in Operations |-> v.asked[o]]
      /\ Later(w, v)
  BY OpensWorld
<1> QED BY <1>0

LEMMA ClaimKeeps ==
    ASSUME Inv, NEW x \in Executors, NEW r \in Requests, Claim(x, r)
    PROVE  Inv'
<1>w. PICK w : w = World
  OBVIOUS
<1>v. PICK v : v = World'
  OBVIOUS
<1>0. /\ exec[x].pc = "idle"
      /\ IsBootstrap(r) <=> TreeIn(w, w.main)["record"].state # "managed"
      /\ r.base <= Len(w.commits)
      /\ BeginNew(r) \/ BeginAgain(r)
      /\ UNCHANGED controlVars
  BY <1>w DEF Claim, Begin, IsBootstrap, Tree, TreeIn, World
<1>2. PICK c : exec' = [exec EXCEPT ![x] = c] /\ c.pc = "authorize" /\ c.req = r
  <2> DEFINE c == Call("authorize", r,
                       {journal'[r.op].events[i] : i \in DOMAIN journal'[r.op].events},
                       Unread, "none")
  <2>1. exec' = [exec EXCEPT ![x] = c]
    BY DEF Claim, Begin
  <2>2. c.pc = "authorize" /\ c.req = r
    BY DEF Call
  <2> HIDE DEF c
  <2> QED BY <2>1, <2>2
<1>3. WorldFits(w) /\ IsWorld(w) /\ r.op \in Operations /\ r.branch \in Branches
  BY <1>w, WorldIs, RequestAssumption, ControlRequestAssumption DEF Inv
<1>4. UNCHANGED <<commits, main, branch, place, lock, source>>
  BY <1>0 DEF controlVars
\* what the step is to the repository and the rows
<1>5. ASSUME WorldFits(v), v.asked[r.op] = r, r # NoRequest,
             \A y \in Executors \ {x} : CallFits(exec[y], v),
             \A o \in Operations : RowFits(journal'[o], v),
             journal' = [o \in Operations |-> journal'[o]]
      PROVE  Inv'
  <2>1. CallBegun(c, v)
    BY <1>2, <1>3, <1>5 DEF CallBegun, Locked
  <2>2. CallFits(c, v)
    BY <2>1, <1>2, SimpleFits
  <2>3. ~ Holding(c)
    BY <1>2 DEF Holding, Locked
  <2>4. /\ lock' = [b \in Branches |-> lock'[b]] /\ source' \in Sources
        /\ \A y \in Executors \ {x} : Holding(exec[y]) => lock'[exec[y].req.branch] = y
    BY <1>4 DEF Inv
  <2> QED BY <1>2, <1>5, <1>v, <2>2, <2>3, <2>4, Concludes
<1>6. CASE BeginAgain(r)
  <2>1. RowsKept /\ Keep
    BY <1>4, <1>6, RowsOfHold DEF BeginAgain, Keep
  <2>2. v = w /\ \A o \in Operations : RowFits(journal'[o], v)
    BY <2>1, <1>w, <1>v, WorldOfRows
  <2>3. w.asked[r.op] = r /\ r # NoRequest
    BY <1>3, <1>6, <1>w, NoRequestAssumption DEF BeginAgain, World, Asked
  <2>4. \A y \in Executors \ {x} : CallFits(exec[y], v)
    BY <2>2, <1>w DEF Inv
  <2> QED BY <2>1, <2>2, <2>3, <2>4, <1>3, <1>5 DEF RowsKept
<1>7. CASE BeginNew(r)
  <2>1. /\ journal[r.op].state = "absent" /\ RowFits(journal[r.op], w)
        /\ journal = [o \in Operations |-> journal[o]]
    BY <1>3, <1>7, <1>w DEF BeginNew, Inv
  <2>2. ~ Begun(w, r.op)
    BY <2>1, <1>3, <1>w DEF RowFits, Begun, World, Asked
  <2>3. journal' = [journal EXCEPT
           ![r.op] = Row("running", r, <<"operation_started">>, "none")]
    BY <1>7 DEF BeginNew
  <2>4. /\ journal' = [o \in Operations |-> journal'[o]]
        /\ \A o \in Operations : o # r.op => journal'[o] = journal[o]
        /\ journal'[r.op].request = r /\ journal'[r.op].state = "running"
        /\ journal'[r.op].result = "none"
    BY <2>1, <2>3, <1>3 DEF Row
  <2>5. Opens(w, v, r)
    <3>1. w.asked = Asked /\ Asked = [o \in Operations |-> journal[o].request]
      BY <1>w DEF World, Asked
    <3>2. Asked' = [o \in Operations |-> journal'[o].request]
      BY DEF Asked
    <3>3. Asked' = [w.asked EXCEPT ![r.op] = r]
      BY <3>1, <3>2, <2>4, <1>3
    <3>4. v = [w EXCEPT !.asked = Asked']
      BY <1>4, <1>w, <1>v DEF World
    <3> QED BY <3>3, <3>4, <2>2 DEF Opens
  <2>6. /\ v.branch = w.branch /\ v.place = w.place /\ Later(w, v)
        /\ v.asked[r.op] = r /\ r # NoRequest
    BY <2>5, <1>3, OpensKeeps
  <2>7. WorldFits(v)
    <3>1. r.command \notin TaskCommands => r.base \in Commits(w)
      <4>1. r.command \notin TaskCommands => r.base \in Nat \ {0}
        BY ControlRequestAssumption
      <4>2. Len(w.commits) \in Nat
        BY <1>3 DEF WorldFits, HistoryFits
      <4> QED BY <4>1, <4>2, <1>0 DEF Commits
    <3> QED BY <3>1, <2>5, <1>0, <1>3, OpensFits
  <2>8. ASSUME NEW y \in Executors \ {x} PROVE CallFits(exec[y], v)
    <3>1. CASE exec[y].pc = "idle"
      BY <3>1 DEF CallFits
    <3>2. CASE exec[y].pc # "idle"
      <4>1. CallFits(exec[y], w) /\ exec[y].req.branch \in Branches
        BY <3>2, <1>w, BranchOfCall
      <4> QED BY <4>1, <3>2, <2>6, <1>3, CallKept DEF SameBranch
    <3> QED BY <3>1, <3>2
  <2>9. ASSUME NEW o \in Operations PROVE RowFits(journal'[o], v)
    <3>1. CASE o = r.op
      <4>1. VerdictFits(v, r, "none")
        BY DEF VerdictFits
      <4> QED BY <3>1, <4>1, <2>4, <2>6 DEF RowFits
    <3>2. CASE o # r.op
      <4>1. journal'[o] = journal[o] /\ RowFits(journal[o], w)
        BY <3>2, <2>4, <1>w DEF Inv
      <4>2. journal[o].request # NoRequest =>
               Begun(w, o) /\ w.asked[o] = journal[o].request
        BY <1>w DEF World, Asked, Begun
      <4>3. journal[o].request # NoRequest =>
               VerdictFits(w, journal[o].request, journal[o].result)
               /\ journal[o].request.branch \in Branches
        BY <4>2, <1>w, ResultsFit
      <4>4. journal[o].request # NoRequest =>
               VerdictFits(v, journal[o].request, journal[o].result)
        BY <4>3, <2>6, <1>3, VerdictKept
      <4> QED BY <4>1, <4>4 DEF RowFits
    <3> QED BY <3>1, <3>2
  <2> QED BY <2>4, <2>6, <2>7, <2>8, <2>9, <1>5
<1> QED BY <1>0, <1>6, <1>7

LEMMA MergesKeep ==
    ASSUME NEW w, NEW v, IsWorld(w), WorldFits(w), NEW n, Merges(w, v, n)
    PROVE  v.branch = w.branch /\ v.place = w.place /\ Later(w, v) /\ WorldFits(v)
<1>1. /\ HistoryFits(v) /\ Later(w, v)
      /\ v.asked = w.asked /\ v.branch = w.branch /\ v.place = w.place
      /\ Commits(v) = Commits(w) \cup {Next1(w)}
      /\ ~ ProposalIn(v, Next1(w))
      /\ OneFile(TreeIn(w, w.main), TreeIn(v, v.main))
      /\ TreeIn(w, w.main)["record"].state = "managed" =>
            TreeIn(v, v.main)["record"].state = "managed"
      /\ TreeFits(TreeIn(v, v.main))
  BY MergesWorld
<1>2. WorldFits(v)
  BY MergesFits
<1> QED BY <1>1, <1>2

\* Merge, of the repository as one record
LEMMA MergeIs ==
    ASSUME NEW b \in Branches, Merge(b), WorldFits(World)
    PROVE  Merges(World, World', branch[b])
<1> DEFINE n == branch[b]
           fork == Fork(n)
           files == ChangedFiles(n, fork)
           made == Commit("merge", main, Past(n) \cup Past(main),
                     [s \in Slots |-> IF FileOf[s] \in files THEN Tree(n)[s] ELSE Tree(main)[s]])
<1>w. PICK w : w = World
  OBVIOUS
<1>v. PICK v : v = World'
  OBVIOUS
<1>1. /\ n # 0 /\ n \notin Past(main) /\ files \cap ChangedFiles(main, fork) = {}
      /\ commits' = Append(commits, made) /\ main' = Len(commits) + 1
      /\ UNCHANGED <<journalVars, branch, place>>
  BY DEF Merge
<1>2. /\ \A k : Tree(k) = TreeIn(w, k)
      /\ \A k : Past(k) = PastIn(w, k)
      /\ main = w.main /\ commits = w.commits /\ branch = w.branch /\ place = w.place
      /\ Past(main) = Merged(w)
  BY <1>w DEF World, Tree, TreeIn, Past, PastIn, Merged
<1>3. fork = ForkIn(w, n)
  BY <1>2 DEF Fork, ForkIn
<1>4. \A k : ChangedFiles(k, fork) = FilesOf(FromTo(TreeIn(w, fork), TreeIn(w, k)))
  BY <1>2 DEF ChangedFiles, FilesOf, FromTo
<1> HIDE DEF fork
<1>5. made = Commit("merge", w.main, PastIn(w, n) \cup PastIn(w, w.main),
                    Joined(files, TreeIn(w, n), TreeIn(w, w.main)))
  BY <1>2 DEF Joined
<1>6. n \in Commits(w) /\ n \notin Merged(w)
  BY <1>1, <1>2, <1>w DEF WorldFits, BranchesFit
<1> HIDE DEF files, made
<1>7. v = [w EXCEPT !.commits = Append(w.commits, made), !.main = Next1(w)]
  <2>1. Asked' = Asked /\ branch' = branch /\ place' = place
    BY <1>1 DEF Asked, journalVars
  <2>2. v = [asked |-> Asked, commits |-> commits', main |-> main',
             branch |-> branch, place |-> place]
    BY <2>1, <1>v DEF World
  <2>3. w = [asked |-> Asked, commits |-> commits, main |-> main,
             branch |-> branch, place |-> place]
    BY <1>w DEF World
  <2>4. v = [asked |-> w.asked, commits |-> Append(w.commits, made), main |-> Next1(w),
             branch |-> w.branch, place |-> w.place]
    BY <2>2, <2>3, <1>1, <1>2 DEF Next1
  <2>5. IsWorld(w)
    BY <1>w, WorldIs
  <2> QED BY <2>4, <2>5, WorldWith
<1>8. Merges(w, v, n)
  <2> DEFINE f == FilesOf(FromTo(TreeIn(w, ForkIn(w, n)), TreeIn(w, n)))
  <2>1. files = f
    BY <1>3, <1>4 DEF files
  <2>2. f \cap FilesOf(FromTo(TreeIn(w, ForkIn(w, n)), TreeIn(w, w.main))) = {}
    BY <2>1, <1>1, <1>2, <1>3, <1>4
  <2>3. v = [w EXCEPT
               !.commits = Append(w.commits,
                   Commit("merge", w.main, PastIn(w, n) \cup PastIn(w, w.main),
                          Joined(f, TreeIn(w, n), TreeIn(w, w.main)))),
               !.main = Next1(w)]
    BY <2>1, <1>5, <1>7
  <2> QED BY <2>2, <2>3, <1>6 DEF Merges
<1> QED BY <1>8, <1>w, <1>v

LEMMA MergeKeeps ==
    ASSUME Inv, NEW b \in Branches, Merge(b)
    PROVE  Inv'
<1>w. PICK w : w = World
  OBVIOUS
<1>v. PICK v : v = World'
  OBVIOUS
<1>n. PICK n : n = branch[b]
  OBVIOUS
<1>1. WorldFits(w) /\ IsWorld(w)
  BY <1>w, WorldIs DEF Inv
<1>2. Merges(w, v, n)
  BY <1>w, <1>v, <1>n, <1>1, MergeIs
<1>3. /\ v.branch = w.branch /\ v.place = w.place /\ Later(w, v) /\ WorldFits(v)
  BY <1>1, <1>2, MergesKeep
<1>4. UNCHANGED <<journal, exec, lock, source>> /\ v.asked = w.asked
  BY <1>w, <1>v DEF Merge, journalVars, World, Asked
<1>5. ASSUME NEW x \in Executors PROVE CallFits(exec'[x], v)
  <2>1. CASE exec[x].pc = "idle"
    BY <2>1, <1>4 DEF CallFits
  <2>2. CASE exec[x].pc # "idle"
    <3>1. CallFits(exec[x], w) /\ exec[x].req.branch \in Branches
      BY <2>2, <1>w, BranchOfCall
    <3>2. CallFits(exec[x], v)
      BY <3>1, <2>2, <1>1, <1>3, CallKept DEF SameBranch
    <3> QED BY <3>2, <1>4
  <2> QED BY <2>1, <2>2
<1>6. ASSUME NEW o \in Operations PROVE RowFits(journal'[o], v)
  <2>1. RowFits(journal[o], w)
    BY <1>w DEF Inv
  <2>2. journal[o].request # NoRequest =>
           Begun(w, o) /\ w.asked[o] = journal[o].request
    BY <1>w DEF World, Asked, Begun
  <2>3. journal[o].request # NoRequest =>
           VerdictFits(w, journal[o].request, journal[o].result)
           /\ journal[o].request.branch \in Branches
    BY <2>2, <1>w, ResultsFit
  <2>4. journal[o].request # NoRequest =>
           VerdictFits(v, journal[o].request, journal[o].result)
    BY <2>3, <1>1, <1>3, VerdictKept
  <2> QED BY <2>1, <2>4, <1>4 DEF RowFits
<1> QED BY <1>3, <1>4, <1>5, <1>6, <1>v DEF Inv

-----------------------------------------------------------------------------
(* The invariant.                                                           *)

LEMMA StuttersKeeps ==
    ASSUME Inv, UNCHANGED vars
    PROVE  Inv'
<1>1. World' = World
  BY DEF vars, journalVars, controlVars, World, Asked
<1>2. UNCHANGED <<journal, exec, lock, source>>
  BY DEF vars, journalVars, controlVars
<1> QED BY <1>1, <1>2 DEF Inv

LEMMA CallStepKeeps ==
    ASSUME Inv, NEW x \in Executors, CallStep(x)
    PROVE  Inv'
<1>1. CASE AuthorizeActor(x) \/ DenyActor(x) \/ Lock(x) \/ ResolveBase(x)
  BY <1>1, AuthorizeKeeps, DenyKeeps, LockKeeps, ResolveBaseKeeps
<1>2. CASE Worktree(x) \/ Attach(x) \/ ObserveBootstrap(x) \/ ScopePolicy(x)
  BY <1>2, WorktreeKeeps, AttachKeeps, ObserveBootstrapKeeps, ScopePolicyKeeps
<1>3. CASE LoadTask(x) \/ WriteTask(x) \/ WritePolicy(x) \/ Replace(x)
  BY <1>3, LoadTaskKeeps, WriteTaskKeeps, WritePolicyKeeps, ReplaceKeeps
<1>4. CASE WriteBootstrap(x) \/ Recapture(x) \/ Status(x) \/ CommitFiles(x) \/ Verify(x)
  BY <1>4, WriteBootstrapKeeps, RecaptureKeeps, StatusKeeps, CommitFilesKeeps, VerifyKeeps
<1>5. CASE (RecordProposal(x) \/ RecordFailure(x) \/ Finish(x)) /\ UNCHANGED controlVars
  BY <1>5, RecordProposalKeeps, RecordFailureKeeps, FinishKeeps
<1> QED BY <1>1, <1>2, <1>3, <1>4, <1>5 DEF CallStep

LEMMA InvKept ==
    ASSUME Inv, [Next]_vars
    PROVE  Inv'
<1>1. ASSUME NEW x \in Executors, NEW r \in Requests, Claim(x, r) PROVE Inv'
  BY <1>1, ClaimKeeps
<1>2. ASSUME NEW x \in Executors, CallStep(x) PROVE Inv'
  BY <1>2, CallStepKeeps
<1>3. ASSUME NEW x \in Executors, Die(x) PROVE Inv'
  BY <1>3, DieKeeps
<1>4. ASSUME NEW b \in Branches, Merge(b) PROVE Inv'
  BY <1>4, MergeKeeps
<1>5. CASE InitAgain
  BY <1>5, InitAgainKeeps
<1>6. CASE UNCHANGED vars
  BY <1>6, StuttersKeeps
<1> QED BY <1>1, <1>2, <1>3, <1>4, <1>5, <1>6 DEF Next

LEMMA InitFits ==
    ASSUME Init
    PROVE  Inv
<1>w. PICK w : w = World
  OBVIOUS
<1>t. PICK tree \in Trees : commits = <<Commit("none", 0, {}, tree)>>
  BY DEF Init
<1>1. /\ journal = [o \in Operations |-> NoRow] /\ exec = [x \in Executors |-> NoCall]
      /\ main = 1 /\ branch = [b \in Branches |-> 0]
      /\ place = [b \in Branches |-> NoPlace] /\ lock = [b \in Branches |-> NoOne]
      /\ source = 1
  BY DEF Init, JournalInit
<1>2. /\ w.commits = <<Commit("none", 0, {}, tree)>> /\ w.main = 1
      /\ w.branch = [b \in Branches |-> 0] /\ w.place = [b \in Branches |-> NoPlace]
      /\ w.asked = [o \in Operations |-> NoRequest]
  BY <1>t, <1>1, <1>w DEF World, Asked, NoRow
<1>3. /\ Commits(w) = {1} /\ w.commits[1] = Commit("none", 0, {}, tree)
      /\ \E S : w.commits \in Seq(S)
  <2>1. w.commits \in Seq({Commit("none", 0, {}, tree)}) /\ Len(w.commits) = 1
        /\ w.commits[1] = Commit("none", 0, {}, tree)
    BY <1>2
  <2> QED BY <2>1 DEF Commits
<1>4. \A o \in Operations : ~ Begun(w, o)
  BY <1>2 DEF Begun
<1>5. AskedFits(w)
  BY <1>2, <1>4 DEF AskedFits
<1>6. HistoryFits(w)
  <2>1. w.commits[1].past = {} /\ w.commits[1].tree = tree /\ w.commits[1].op = "none"
    BY <1>3 DEF Commit
  <2>2. TreeFits(TreeIn(w, 1))
    BY <2>1, TreeAssumption DEF TreeIn, TreeFits, IsTree, TaskFits
  <2>3. 1 \in Merged(w)
    BY <1>2 DEF Merged, PastIn
  <2>4. CommitFits(w, 1)
    BY <2>1, <2>2, <2>3 DEF CommitFits
  <2> QED BY <2>4, <1>2, <1>3 DEF HistoryFits
<1>7. ManagedFits(w)
  BY <1>4 DEF ManagedFits
<1>8. ProposalsFit(w)
  <2>1. ~ ProposalIn(w, 1)
    BY <1>3, MarkerAssumption DEF ProposalIn, Commit
  <2> QED BY <2>1, <1>3 DEF ProposalsFit
<1>9. BranchesFit(w)
  BY <1>2, <1>4 DEF BranchesFit
<1>10. PlacesFit(w)
  BY <1>2, <1>4 DEF PlacesFit, NoPlace
<1>11. WorldFits(w)
  BY <1>5, <1>6, <1>7, <1>8, <1>9, <1>10 DEF WorldFits
<1>12. \A x \in Executors : exec[x] = NoCall /\ CallFits(exec[x], w) /\ ~ Holding(exec[x])
                            /\ exec[x].pc = "idle"
  BY <1>1, NoCallFits
<1>13. \A o \in Operations : RowFits(journal[o], w)
  BY <1>1 DEF RowFits, NoRow
<1>14. source \in Sources
  BY <1>1, SlotAssumption
<1> QED BY <1>1, <1>11, <1>12, <1>13, <1>14, <1>w DEF Inv

(* The invariant holds of every behaviour.                                  *)
THEOREM InvHolds == Spec => []Inv
BY InitFits, InvKept, PTL DEF Spec
-----------------------------------------------------------------------------
(* What the invariant says of a proposal, of a result and of a merge.       *)

\* the repository of a state
LEMMA WorldOf ==
    ASSUME Inv
    PROVE  /\ WorldFits(World) /\ HistoryFits(World) /\ AskedFits(World)
           /\ DOMAIN commits = Commits(World)
           /\ \A n : /\ commits[n] = World.commits[n]
                     /\ Tree(n) = TreeIn(World, n)
                     /\ Proposal(n) <=> ProposalIn(World, n)
           /\ \A n : ProposalIn(World, n) =>
                RequestOf(commits[n].op) = RequestIn(World, n)
           /\ \A o \in Operations : RequestOf(o) = World.asked[o]
           /\ branch = World.branch
<1>1. WorldFits(World) /\ HistoryFits(World) /\ AskedFits(World)
  BY DEF Inv, WorldFits
<1>2. World.commits = commits /\ World.branch = branch
  BY DEF World
<1>3. DOMAIN commits = Commits(World)
  <2>1. PICK S : commits \in Seq(S)
    BY <1>1, <1>2 DEF HistoryFits
  <2> QED BY <2>1, <1>2 DEF Commits
<1>4. \A n : /\ commits[n] = World.commits[n]
             /\ Tree(n) = TreeIn(World, n)
             /\ Proposal(n) <=> ProposalIn(World, n)
  BY <1>2 DEF Tree, TreeIn, Proposal, ProposalIn
<1>5. \A o \in Operations : RequestOf(o) = World.asked[o]
  BY DEF RequestOf, World, Asked
<1>6. \A n : ProposalIn(World, n) => RequestOf(commits[n].op) = RequestIn(World, n)
  BY <1>2, <1>5 DEF ProposalIn, RequestIn
<1> QED BY <1>1, <1>2, <1>3, <1>4, <1>5, <1>6

\* what a proposal proposes over its base
LEMMA ProposesExactly ==
    ASSUME NEW w, WorldFits(w), NEW n \in Commits(w), ProposalIn(w, n)
    PROVE  LET r == RequestIn(w, n)
               base == TreeIn(w, w.commits[n].base)
           IN  /\ \A m \in Commits(w) : w.commits[m].op = w.commits[n].op => m = n
               /\ r \notin Denied
               /\ r.command \notin TaskCommands => w.commits[n].base = r.base
               /\ \E version \in Sources :
                     TreeIn(w, n) = Over(Changes(r, version), base)
               /\ r.command = "task.create" => base[r.slot] = Absent
               /\ r.command \in {"task.update", "task.cancel"} =>
                     base[r.slot] = r.expected
               /\ r.command = "bootstrap.accept" =>
                     Holds(base, Manifest(TreeIn(w, n)["record"].at))
<1> DEFINE r == RequestIn(w, n)
           base == TreeIn(w, w.commits[n].base)
           tree == TreeIn(w, n)
<1>1. ProposalFits(w, n)
  BY DEF WorldFits, ProposalsFit
<1>2. /\ r \notin Denied /\ w.branch[r.branch] = n
      /\ r.command \notin TaskCommands => w.commits[n].base = r.base
      /\ Proposes(w, r, w.commits[n].base, tree)
  BY <1>1 DEF ProposalFits
<1>3. ASSUME NEW m \in Commits(w), w.commits[m].op = w.commits[n].op PROVE m = n
  <2>1. ProposalIn(w, m) /\ RequestIn(w, m) = r
    BY <1>3 DEF ProposalIn, RequestIn
  <2>2. ProposalFits(w, m)
    BY <2>1 DEF WorldFits, ProposalsFit
  <2>3. w.branch[r.branch] = m
    BY <2>1, <2>2 DEF ProposalFits
  <2> QED BY <2>3, <1>2
<1>4. CASE IsBootstrap(r)
  <2>1. PICK version \in Sources :
           /\ InputsFit(w, r, version)
           /\ tree = Over(Changes(r, version), base)
    BY <1>2, <1>4 DEF Proposes
  <2>2. r.command \notin TaskCommands
    BY <1>4 DEF IsBootstrap, BootstrapCommands, TaskCommands
  <2>3. ASSUME r.command = "bootstrap.accept"
        PROVE  Holds(base, Manifest(tree["record"].at))
    <3>1. base = TreeIn(w, r.base) /\ Holds(base, Manifest(version))
      BY <2>1, <2>2, <2>3, <1>2 DEF InputsFit
    <3>2. "record" \in Slots /\ "record" \in DOMAIN Changes(r, version)
      BY <1>4, ChangesOfBootstrap, SlotAssumption
    <3>3. tree["record"] = Changes(r, version)["record"]
      BY <2>1, <3>2, OverTree
    <3>4. tree["record"].at = version
      <4>1. Changes(r, version)["record"] = Value(IF r.command = "bootstrap.propose"
                       THEN "bootstrapping" ELSE "managed", version)
        BY <1>4, ChangesOfBootstrap
      <4>2. \A state : Value(state, version).at = version
        BY DEF Value
      <4> QED BY <3>3, <4>1, <4>2
    <3> QED BY <3>1, <3>4
  <2>4. r.command \notin {"task.create", "task.update", "task.cancel"}
    BY <2>2 DEF TaskCommands
  <2> QED BY <2>1, <2>3, <2>4, <1>2, <1>3
<1>5. CASE ~ IsBootstrap(r)
  <2>1. Legal(r, base) /\ tree = With(r, base)
    BY <1>2, <1>5 DEF Proposes
  <2>2. tree = Over(Changes(r, 1), base) /\ 1 \in Sources
    BY <2>1, <1>5, ChangesOfOther, SlotAssumption
  <2>3. AsSeen(r, base) /\ r.command # "bootstrap.accept"
    BY <2>1, <1>5 DEF Legal, IsBootstrap, BootstrapCommands
  <2> QED BY <2>2, <2>3, <1>2, <1>3 DEF AsSeen
<1> QED BY <1>4, <1>5

LEMMA InvIsExact ==
    ASSUME Inv
    PROVE  ProposalIsExact
<1> SUFFICES ASSUME NEW n \in DOMAIN commits, Proposal(n)
             PROVE  LET r == RequestOf(commits[n].op)
                        base == Tree(commits[n].base)
                    IN  /\ \A m \in DOMAIN commits : commits[m].op = commits[n].op => m = n
                        /\ r \notin Denied
                        /\ r.command \notin TaskCommands => commits[n].base = r.base
                        /\ \E version \in Sources :
                              Tree(n) = Over(Changes(r, version), base)
                        /\ r.command = "task.create" => base[r.slot] = Absent
                        /\ r.command \in {"task.update", "task.cancel"} =>
                              base[r.slot] = r.expected
                        /\ r.command = "bootstrap.accept" =>
                              Holds(base, Manifest(Tree(n)["record"].at))
  BY DEF ProposalIsExact
<1>w. PICK w : w = World
  OBVIOUS
<1>1. /\ WorldFits(w) /\ n \in Commits(w) /\ ProposalIn(w, n)
      /\ DOMAIN commits = Commits(w) /\ commits = w.commits
      /\ \A m : Tree(m) = TreeIn(w, m)
      /\ RequestOf(commits[n].op) = RequestIn(w, n)
  BY <1>w, WorldOf DEF World
<1> QED BY <1>1, ProposesExactly

LEMMA InvIsProposed ==
    ASSUME Inv
    PROVE  SuccessIsProposed
<1>w. PICK w : w = World
  OBVIOUS
<1>0. /\ WorldFits(w) /\ AskedFits(w) /\ branch = w.branch /\ commits = w.commits
      /\ DOMAIN commits = Commits(w)
      /\ \A n : Tree(n) = TreeIn(w, n)
      /\ \A o \in Operations : RequestOf(o) = w.asked[o]
  BY <1>w, WorldOf DEF World
<1> SUFFICES ASSUME NEW o \in Operations
             PROVE  LET r == RequestOf(o)
                    IN  /\ journal[o].result = "proposal_prepared" =>
                              commits[branch[r.branch]].op = o
                        /\ journal[o].result = "no_change" /\ r.command # "task.update" =>
                              /\ branch[r.branch] # 0
                              /\ IF r.command = "task.cancel"
                                 THEN Tree(branch[r.branch])[r.slot].state = "canceled"
                                 ELSE Holds(Tree(branch[r.branch]), Changes(r, source))
                              /\ ~ \E n \in DOMAIN commits : commits[n].op = o
  BY DEF SuccessIsProposed
<1> DEFINE r == w.asked[o]
           b == r.branch
<1>1. RequestOf(o) = r
  BY <1>0
<1>2. CASE ~ Begun(w, o)
  <2>1. journal[o].request = NoRequest
    BY <1>1, <1>2 DEF Begun, RequestOf
  <2>2. journal[o].result = "none"
    BY <2>1 DEF Inv, RowFits
  <2> QED BY <2>2
<1>3. CASE Begun(w, o)
  <2>1. VerdictFits(w, r, journal[o].result) /\ r \in Requests /\ b \in Branches
    BY <1>3, <1>w, ResultsFit
  <2>2. r.op = o
    BY <1>0, <1>3 DEF AskedFits
  <2>3. journal[o].result = "proposal_prepared" => commits[branch[b]].op = o
    BY <2>1, <2>2, <1>0 DEF VerdictFits
  <2>4. ASSUME journal[o].result = "no_change", r.command # "task.update"
        PROVE  /\ branch[b] # 0
               /\ IF r.command = "task.cancel"
                  THEN Tree(branch[b])[r.slot].state = "canceled"
                  ELSE Holds(Tree(branch[b]), Changes(r, source))
               /\ ~ \E n \in DOMAIN commits : commits[n].op = o
    <3>1. ~ IsBootstrap(r) /\ w.branch[b] # 0 /\ Done(r, RootTree(w, b))
      BY <2>1, <2>4 DEF VerdictFits
    <3>2. ~ Own(w, b)
      <4> SUFFICES ASSUME Own(w, b) PROVE FALSE
        OBVIOUS
      <4>1. Legal(r, RootTree(w, b))
        BY <3>1, <1>0, <1>3, OwnOther
      <4> QED BY <4>1, <3>1 DEF Legal
    <3>3. Done(r, Tree(branch[b]))
      <4>1. RootTree(w, b) = TreeIn(w, w.branch[b])
        BY <3>2 DEF RootTree, Root
      <4> QED BY <4>1, <3>1, <1>0
    <3>4. ASSUME NEW n \in DOMAIN commits, commits[n].op = o PROVE FALSE
      <4>1. n \in Commits(w) /\ ProposalIn(w, n) /\ RequestIn(w, n) = r
        BY <3>4, <1>0 DEF ProposalIn, RequestIn
      <4>2. ProposalFits(w, n)
        BY <4>1, <1>0 DEF WorldFits, ProposalsFit
      <4>3. w.branch[b] = n
        BY <4>1, <4>2 DEF ProposalFits
      <4> QED BY <4>1, <4>3, <3>1, <3>2 DEF Own
    <3>5. r.command # "task.cancel" => Holds(Tree(branch[b]), Changes(r, source))
      BY <3>1, <3>3, ChangesOfOther DEF Done
    <3>6. r.command = "task.cancel" => Tree(branch[b])[r.slot].state = "canceled"
      BY <3>3 DEF Done
    <3> QED BY <3>1, <3>4, <3>5, <3>6, <1>0
  <2> HIDE DEF b
  <2> QED BY <2>3, <2>4, <1>1 DEF b
<1> QED BY <1>2, <1>3

\* nothing but a merge moves the default branch
LEMMA MainMoves ==
    ASSUME [Next]_vars
    PROVE  UNCHANGED main \/ \E b \in Branches : Merge(b)
<1>1. ASSUME NEW x \in Executors, CallStep(x) PROVE UNCHANGED main
  <2>1. CASE AuthorizeActor(x) \/ DenyActor(x) \/ Lock(x) \/ ResolveBase(x)
    BY <2>1 DEF AuthorizeActor, DenyActor, Lock, ResolveBase, Refuse, Keep, controlVars
  <2>2. CASE Worktree(x) \/ Attach(x) \/ ObserveBootstrap(x) \/ ScopePolicy(x)
    BY <2>2 DEF Worktree, Attach, ObserveBootstrap, ScopePolicy, Refuse, Prepared, Keep
  <2>3. CASE LoadTask(x)
    <3>1. exec[x].req.command \in TaskCommands
      BY <2>3 DEF LoadTask, TaskCall
    <3>2. CASE exec[x].req.command = "task.create"
      BY <2>3, <3>2 DEF LoadTask, Keep
    <3>3. CASE exec[x].req.command = "task.update"
      BY <2>3, <3>3 DEF LoadTask, Refuse, Keep
    <3>4. CASE exec[x].req.command = "task.cancel"
      BY <2>3, <3>4 DEF LoadTask, Refuse, Keep
    <3> QED BY <3>1, <3>2, <3>3, <3>4 DEF TaskCommands
  <2>4. CASE WriteTask(x) \/ WritePolicy(x) \/ Replace(x) \/ WriteBootstrap(x)
    BY <2>4 DEF WriteTask, WritePolicy, Replace, WriteBootstrap, Refuse, Keep
  <2>5. CASE Recapture(x) \/ Status(x) \/ CommitFiles(x) \/ Verify(x)
    BY <2>5 DEF Recapture, Status, CommitFiles, Verify, Refuse, Prepared, Keep
  <2>6. CASE (RecordProposal(x) \/ RecordFailure(x) \/ Finish(x)) /\ UNCHANGED controlVars
    BY <2>6 DEF controlVars
  <2> QED BY <1>1, <2>1, <2>2, <2>3, <2>4, <2>5, <2>6 DEF CallStep
<1>2. ASSUME NEW x \in Executors, NEW r \in Requests, Claim(x, r) PROVE UNCHANGED main
  BY <1>2 DEF Claim, controlVars
<1>3. ASSUME NEW x \in Executors, Die(x) PROVE UNCHANGED main
  BY <1>3 DEF Die, Keep
<1>4. CASE InitAgain
  BY <1>4 DEF InitAgain
<1>5. CASE UNCHANGED vars
  BY <1>5 DEF vars, controlVars
<1> QED BY <1>1, <1>2, <1>3, <1>4, <1>5 DEF Next

MergeIsLegal ==
    LET old == Tree(main)
        new == commits'[main'].tree
    IN  /\ \A s \in TaskSlots :
              /\ old[s] # Absent => new[s].state \in Transitions[old[s].state]
              /\ old[s] = Absent => new[s].state \in {"absent", "planned"}
        /\ \A s, t \in Slots :
              new[s] # old[s] /\ new[t] # old[t] => FileOf[s] = FileOf[t]
        /\ new["record"].state = "managed" =>
              new["config"].at = new["record"].at

LEMMA MergesLegally ==
    ASSUME Inv, NEW b \in Branches, Merge(b)
    PROVE  MergeIsLegal
<1>w. PICK w : w = World
  OBVIOUS
<1>v. PICK v : v = World'
  OBVIOUS
<1>1. WorldFits(w) /\ IsWorld(w) /\ Merges(w, v, branch[b])
  BY <1>w, <1>v, WorldIs, MergeIs DEF Inv
<1> DEFINE old == TreeIn(w, w.main)
           new == TreeIn(v, v.main)
<1>2. OneFile(old, new) /\ TreeFits(new)
  <2> DEFINE n == branch[b]
  <2>1. Merges(w, v, n)
    BY <1>1
  <2> HIDE DEF n
  <2>2. /\ HistoryFits(v) /\ Later(w, v)
        /\ v.asked = w.asked /\ v.branch = w.branch /\ v.place = w.place
        /\ Commits(v) = Commits(w) \cup {Next1(w)}
        /\ ~ ProposalIn(v, Next1(w))
        /\ OneFile(TreeIn(w, w.main), TreeIn(v, v.main))
        /\ TreeIn(w, w.main)["record"].state = "managed" =>
              TreeIn(v, v.main)["record"].state = "managed"
        /\ TreeFits(TreeIn(v, v.main))
    BY <2>1, <1>1, MergesWorld
  <2> QED BY <2>2
<1>3. Tree(main) = old /\ commits'[main'].tree = new
  BY <1>w, <1>v DEF World, Tree, TreeIn
<1> HIDE DEF old, new
<1>4. \A s \in TaskSlots : Moved(old[s], new[s])
  BY <1>2 DEF OneFile
<1>5. \A s, t \in Slots : new[s] # old[s] /\ new[t] # old[t] => FileOf[s] = FileOf[t]
  BY <1>2 DEF OneFile, FromTo
<1>6. new["record"].state = "managed" => new["config"].at = new["record"].at
  BY <1>2 DEF TreeFits
<1> QED BY <1>3, <1>4, <1>5, <1>6 DEF MergeIsLegal, Moved

-----------------------------------------------------------------------------

(* A proposal is one commit of its operation over the base that was asked   *)
(* for, and changes exactly the requested records, in a step that the Task  *)
(* policy permits from what the client saw: for any requests, executors     *)
(* that die or race, branches and merges.                                   *)
THEOREM ProposalsAreExact == Spec => []ProposalIsExact
BY InvHolds, InvIsExact, PTL

(* A proposal that is reported is the head of its branch, and a call that   *)
(* reports no change (an update aside) has nothing to propose.              *)
THEOREM SuccessesAreProposed == Spec => []SuccessIsProposed
BY InvHolds, InvIsProposed, PTL

(* A merge moves every Task as its policy permits, changes the records of   *)
(* one file, and keeps the manifest of a managed Project.                   *)
THEOREM MergesAreAllLegal == Spec => MergesAreLegal
<1>1. ASSUME Inv, [Next]_vars PROVE [MergeIsLegal]_main
  BY <1>1, MainMoves, MergesLegally
<1>2. MergesAreLegal <=> [][MergeIsLegal]_main
  BY DEF MergesAreLegal, MergeIsLegal
<1> QED BY <1>1, <1>2, InvHolds, PTL DEF Spec

=============================================================================
