------------------------------ MODULE MergeGate ------------------------------
(***************************************************************************)
(* The protected default branch: pull requests are pushed by anyone, the    *)
(* exact-head check validates a head with the code and the records of the   *)
(* base that its event names, a manager approves heads, GitHub merges what  *)
(* its protection lets through, and an administrator or                     *)
(* github.apply-governance changes that protection.                         *)
(***************************************************************************)
EXTENDS Naturals, Sequences, FiniteSets

CONSTANTS
    Tasks, Paths, Submissions, Decisions, Impacts, Reports,
    RevisionSlots,  \* [Reports -> the records of their revisions, in order]
    Domains,        \* execution domains of the Project policy
    Branches,       \* [kind, id] of the source branches of pull requests
    Requests,       \* what services and people propose
    Edits,          \* what else a commit may change
    Lines,          \* what the default branch may be at first
    Protections,    \* classic protections and rulesets at first
    MaxLine, MaxCommits, MaxEdits,
    MaxOpen         \* pull requests open at once, by the length of the line

Revisions(r) == 1 .. Len(RevisionSlots[r])
ReportSlots == UNION {{RevisionSlots[r][k] : k \in Revisions(r)} : r \in Reports}
Protocol == {"project", "policy", "linear"} \cup Tasks \cup Submissions
            \cup Decisions \cup Impacts \cup ReportSlots
Slots == Protocol \cup Paths

Absent == [state |-> "absent"]
TaskCommands == {"task.create", "task.update", "task.cancel"}
FieldOf == [c \in {"plan.configure-review", "doc.configure-layout",
                   "github.configure-governance"} |->
    CASE c = "plan.configure-review" -> "review"
      [] c = "doc.configure-layout" -> "layout"
      [] OTHER -> "github"]
(* Mutant: the branch need not be up to date.                               *)
RulesNotStrict == {"pull_request", "reviews", "dismiss", "last_push", "checks"}

\* what the protection of the branch can demand
Rules == {"pull_request", "reviews", "dismiss", "last_push", "checks", "strict"}

\* a path of the repository is of one kind, and that of one revision of a Report
ASSUME KindAssumption ==
    /\ Paths \cap Protocol = {}
    /\ {"project", "policy", "linear"} \cap
          (Tasks \cup Submissions \cup Decisions \cup Impacts \cup ReportSlots) = {}
    /\ Tasks \cap (Submissions \cup Decisions \cup Impacts \cup ReportSlots) = {}
    /\ Submissions \cap (Decisions \cup Impacts \cup ReportSlots) = {}
    /\ Decisions \cap (Impacts \cup ReportSlots) = {}
    /\ Impacts \cap ReportSlots = {}
ASSUME RevisionAssumption ==
    /\ RevisionSlots \in [Reports -> Seq(ReportSlots)]
    /\ \A r, q \in Reports : \A k \in Revisions(r), l \in Revisions(q) :
          RevisionSlots[r][k] = RevisionSlots[q][l] => r = q /\ k = l
\* a decision's branch is named after its record
ASSUME DecisionAssumption == \A b \in Branches : b.kind = "decision" => b.id \in Decisions
ASSUME LineAssumption ==
    \A start \in Lines : /\ start \in Seq({start[n] : n \in DOMAIN start}) \ {<<>>}
                         /\ \A n \in DOMAIN start : start[n] = [s \in Slots |-> start[n][s]]
ASSUME BranchAssumption == \A r \in Requests : r.branch \in Branches
ASSUME EditAssumption == \A e \in Edits : DOMAIN e \subseteq Slots

VARIABLES
    line,        \* the trees that the default branch has had, in order
    pr,          \* pull requests by their source branch
    protection,  \* the classic protection, "admins" if it binds them too
    rulesets,    \* what active rulesets demand
    edits,       \* changes of the protection by administrators
    apply        \* the one call of github.apply-governance

gateVars == <<line, pr>>
ruleVars == <<protection, rulesets, edits, apply>>
vars == <<gateVars, ruleVars>>

Commit(mark, tree, merge) == [mark |-> mark, tree |-> tree, merge |-> merge]
Closed == [open |-> FALSE, fork |-> 0, base |-> 0, commits |-> <<>>,
           verdict |-> "none", approved |-> FALSE, reviewed |-> FALSE]
Open(fork, base, commits, verdict, approved, reviewed) ==
    [open |-> TRUE, fork |-> fork, base |-> base, commits |-> commits,
     verdict |-> verdict, approved |-> approved, reviewed |-> reviewed]
Main == line[Len(line)]
HeadTree(p) == p.commits[Len(p.commits)].tree
HeadMark(p) == p.commits[Len(p.commits)].mark
(* What is observed, and digested, of the classic protection and the        *)
(* rulesets: which of them there are, and the union of what they demand.    *)
Observation ==
    [classic |-> protection # {}, ruleset |-> rulesets # {},
     rules |-> (protection \ {"admins"}) \cup rulesets,
     admins |-> "admins" \in protection]
Call(pc, seen, answer, result, n, pending) ==
    [pc |-> pc, seen |-> seen, answer |-> answer, result |-> result, edits |-> n,
     pending |-> pending]
Unseen == [classic |-> FALSE, ruleset |-> FALSE, rules |-> {}, admins |-> FALSE]
Idle == Call("idle", Unseen, "none", "none", 0, FALSE)

TypeOK ==
    /\ Len(line) \in 1 .. MaxLine
    /\ \A n \in DOMAIN line : DOMAIN line[n] = Slots
    /\ DOMAIN pr = Branches
    /\ \A b \in Branches :
          /\ pr[b].verdict \in {"none", "passed", "failed"}
          /\ {pr[b].fork, pr[b].base} \subseteq 0 .. Len(line)
          /\ pr[b].open => Len(pr[b].commits) \in 1 .. MaxCommits
          /\ {pr[b].open, pr[b].approved, pr[b].reviewed} \subseteq BOOLEAN
    /\ protection \subseteq Rules \cup {"admins"}
    /\ rulesets \subseteq Rules
    /\ edits \in 0 .. MaxEdits
    /\ apply.edits \in 0 .. edits

Init ==
    /\ line \in Lines
    /\ pr = [b \in Branches |-> Closed]
    /\ \E p \in Protections : protection = p.classic /\ rulesets = p.rulesets
    /\ edits = 0
    /\ apply = Idle

-----------------------------------------------------------------------------
(* Records and how they are built.                                          *)

One(slot, cell) == [s \in {slot} |-> cell]
Both(f, g) == [s \in DOMAIN f \cup DOMAIN g |-> IF s \in DOMAIN f THEN f[s] ELSE g[s]]
Over(changes, tree) ==
    [s \in Slots |-> IF s \in DOMAIN changes THEN changes[s] ELSE tree[s]]
Changed(old, new) == {s \in Slots : old[s] # new[s]}
There(tree, s) == tree[s] # Absent
Managed(tree) == tree["project"].state = "managed"

(* load_latest_report and _current_report.                                  *)
Latest(tree, r) == Cardinality({k \in Revisions(r) : There(tree, RevisionSlots[r][k])})
Contiguous(tree, r) ==
    \A k \in Revisions(r) : There(tree, RevisionSlots[r][k]) = (k <= Latest(tree, r))
Report(tree, r) == tree[RevisionSlots[r][Latest(tree, r)]]
MayRevise(tree, r) ==
    r \in Reports /\ Contiguous(tree, r) /\ Latest(tree, r) + 1 \in Revisions(r)
NextRevision(tree, r) == RevisionSlots[r][Latest(tree, r) + 1]

(* SubmissionBundleBuilder.build, over the Task of the base.                *)
OpenSubmission(s, tree) ==
    [state |-> "open", task |-> s.task, at |-> tree[s.task].at, report |-> s.report,
     expected |-> s.expected, baseline |-> s.baseline, deps |-> s.deps,
     external |-> s.external]

(* ReviewAcceptanceBuilder.build.                                           *)
Acceptance(n, id, s, decision, scope) ==
    LET snapshot == scope = "snapshot"
        verdict == [state |-> "accept", submission |-> id, report |-> s.report,
                    expected |-> s.expected, scope |-> scope]
        report == [state |-> IF snapshot THEN "snapshot_only" ELSE "current",
                   scope |-> scope, basis |-> IF snapshot THEN 0 ELSE n,
                   deps |-> s.deps, external |-> s.external, verified |-> TRUE]
    IN  Both(One(id, [s EXCEPT !.state = "accepted"]),
             Both(One(decision, verdict), One(NextRevision(line[n], s.report), report)))

(* scan, analyze and ReportImpactBuilder.build: what a Report becomes over  *)
(* the tree n, where its basis is another one.  Only code paths count.      *)
Eligible(cell) == cell.scope = "baseline" /\ cell.state \in {"current", "impact_pending"}
ChangedPaths(basis, n) == {p \in Paths : line[basis][p] # line[n][p]}
(* Mutant: only the last merge is looked at, not all since the basis.       *)
OutcomeOfTrigger(n, cell) ==
    LET paths == IF n = 1 THEN {} ELSE ChangedPaths(n - 1, n)
    IN  IF ~ Eligible(cell) THEN "ineligible"
        ELSE IF paths = {} THEN "no_change"
        ELSE IF paths \cap cell.deps # {} THEN "overlap"
        ELSE IF cell.external THEN "unresolved"
        ELSE "no_overlap"

Outcome(n, cell) ==
    LET paths == ChangedPaths(cell.basis, n)
    IN  IF ~ Eligible(cell) THEN "ineligible"
        ELSE IF paths = {} THEN "no_change"
        ELSE IF paths \cap cell.deps # {} THEN "overlap"
        ELSE IF cell.external THEN "unresolved"
        ELSE "no_overlap"
Revised(n, cell) ==
    IF Outcome(n, cell) = "overlap" THEN [cell EXCEPT !.state = "stale"]
    ELSE [cell EXCEPT !.state = "current", !.basis = n]
Concerned(n) ==
    {r \in Reports : /\ Latest(line[n], r) > 0
                     /\ Outcome(n, Report(line[n], r)) \in {"overlap", "no_overlap"}}
Impact(n, kind, id, reports) ==
    LET item(r) == [expected |-> Latest(line[n], r),
                    report |-> Revised(n, Report(line[n], r))]
        of(s) == CHOOSE r \in reports : s = NextRevision(line[n], r)
    IN  Both(One(id, [state |-> kind, target |-> n, items |-> [r \in reports |-> item(r)]]),
             [s \in {NextRevision(line[n], r) : r \in reports} |-> item(of(s)).report])

(* ImpactDecisionBuilder.build.                                             *)
Dispositions == {"rerun", "waive", "keep_stale", "invalidate", "dependency_fix"}
MayDecide(n, d) ==
    LET impact == line[n][d.impact]
        cell == Report(line[n], d.report)
    IN  /\ impact.state \in {"single", "batch"}
        /\ d.report \in DOMAIN impact.items
        /\ Latest(line[n], d.report) = impact.items[d.report].expected + 1
        /\ cell = impact.items[d.report].report
        /\ (d.disposition = "dependency_fix") = (d.deps # cell.deps)
        /\ (d.disposition = "rerun") = (d.task # "none")
        /\ d.disposition = "waive" => cell.verified
        /\ MayRevise(line[n], d.report)
Decided(n, cell, d) ==
    IF d.disposition = "waive" THEN [cell EXCEPT !.state = "current", !.basis = n]
    ELSE [cell EXCEPT !.state = "stale", !.deps = d.deps,
                      !.verified = @ /\ d.disposition # "invalidate"]
Decision(n, id, d) ==
    Both(One(id, [state |-> d.disposition, impact |-> d.impact, report |-> d.report,
                  expected |-> Latest(line[n], d.report), base |-> n, task |-> d.task,
                  deps |-> d.deps]),
         One(NextRevision(line[n], d.report), Decided(n, Report(line[n], d.report), d)))

-----------------------------------------------------------------------------
(* What a check of an event says: the head and the base are the event's, and *)
(* the records of the base are trusted.                                     *)

Base(p) == line[p.base]
BaseManaged(p) == Managed(Base(p))
(* One commit over the base, with the marker.                               *)
OneCommit(p, kind, id) ==
    /\ p.fork = p.base
    /\ Len(p.commits) = 1 /\ ~ p.commits[1].merge
    /\ HeadMark(p) = [kind |-> kind, id |-> id]
OneOf(p, b, kinds) ==
    \E kind \in kinds : OneCommit(p, kind, b.id) /\ b.kind = "control"

(* _require_exact_changes with additions only, and the generated files.     *)
Exactly(old, new, changes) ==
    /\ Changed(old, new) = DOMAIN changes
    /\ \A s \in DOMAIN changes : old[s] = Absent /\ new[s] = changes[s]

(* _validate_impact.                                                        *)
ImpactPasses(p, b) ==
    LET id == b.id
        cell == HeadTree(p)[id]
        reports == IF cell.state = "batch" THEN Concerned(p.base)
                   ELSE DOMAIN cell.items \cap Concerned(p.base)
    IN  /\ b.kind = "impact" /\ id \in Impacts
        /\ cell.state \in {"single", "batch"}
        /\ OneCommit(p, IF cell.state = "batch" THEN "impact.batch" ELSE "impact.create", id)
        /\ cell.target = p.base
        /\ reports # {}
        /\ \A r \in reports : MayRevise(Base(p), r)
        /\ Exactly(Base(p), HeadTree(p), Impact(p.base, cell.state, id, reports))
        /\ BaseManaged(p)

(* _validate_impact_decision.                                               *)
DecisionPasses(p, b) ==
    LET cell == HeadTree(p)[b.id]
        d == [disposition |-> cell.state, impact |-> cell.impact, report |-> cell.report,
              task |-> cell.task, deps |-> cell.deps]
    IN  /\ OneCommit(p, "impact.decide", b.id)
        /\ cell.state \in Dispositions
        /\ cell.base = p.base
        /\ MayDecide(p.base, d)
        /\ Exactly(Base(p), HeadTree(p), Decision(p.base, b.id, d))
        /\ d.task # "none" => Base(p)[d.task].state \in {"planned", "ready"}
        /\ BaseManaged(p)

(* _validate_proposal: the commit c over the base.                          *)
ProposalPasses(p, c, id) ==
    LET cell == c.tree[id]
    IN  /\ p.fork = p.base /\ ~ c.merge
        /\ c.mark = [kind |-> "submission.create", id |-> id]
        /\ cell.state = "open"
        /\ There(Base(p), cell.task)
        /\ Exactly(Base(p), c.tree, One(id, OpenSubmission(cell, Base(p))))
        /\ cell.baseline \in 1 .. p.base

(* _validate_revision.                                                      *)
(* Mutant: the revision that the proposal expects is not compared.          *)
RevisionExpectedAny(tree, s) == MayRevise(tree, s.report)

RevisionExpected(tree, s) ==
    MayRevise(tree, s.report) /\ s.expected = Latest(tree, s.report)

(* _validate_acceptance.                                                    *)
AcceptancePasses(p, id) ==
    LET proposal == p.commits[1]
        new == Changed(proposal.tree, HeadTree(p))
        s == proposal.tree[id]
    IN  /\ Len(p.commits) = 2
        /\ ProposalPasses(p, proposal, id)
        /\ ~ p.commits[2].merge
        /\ HeadMark(p) = [kind |-> "review.accept", id |-> id]
        /\ RevisionExpected(Base(p), s)
        /\ \E d \in Decisions \cap new :
              /\ Base(p)[d] = Absent
              /\ HeadTree(p)[d].state = "accept"
              /\ LET accepted == Acceptance(p.base, id, s, d, HeadTree(p)[d].scope)
                 IN  /\ new = DOMAIN accepted
                     /\ \A slot \in new : HeadTree(p)[slot] = accepted[slot]

SubmissionPasses(p, b) ==
    /\ b.kind = "submission" /\ b.id \in Submissions
    /\ There(Base(p), "project")
    /\ \/ /\ HeadTree(p)[b.id].state = "open"
          /\ Len(p.commits) = 1
          /\ ProposalPasses(p, p.commits[1], b.id)
       \/ /\ HeadTree(p)[b.id].state = "accepted"
          /\ AcceptancePasses(p, b.id)

(* _validate_task_control.                                                  *)
Transitions ==
    [planned |-> {"planned", "ready", "canceled"},
     ready |-> {"ready", "active", "canceled"},
     active |-> {"active", "blocked", "needs_review", "canceled"},
     blocked |-> {"blocked", "active", "needs_review", "canceled"},
     needs_review |-> {"needs_review", "active", "done", "canceled"},
     done |-> {"done"},
     canceled |-> {"canceled"}]
(* Mutant: an update may move a Task anywhere.                              *)
TaskMovesAny(command, current, task) ==
    \/ command = "task.create" /\ current = Absent
    \/ command # "task.create" /\ current # Absent /\ task.key = current.key

TaskMoves(command, current, task) ==
    \/ /\ command = "task.create"
       /\ current = Absent /\ task.state = "planned"
    \/ /\ command = "task.update"
       /\ current # Absent /\ task.key = current.key
       /\ task.state \in Transitions[current.state] /\ task.at > current.at
    \/ /\ command = "task.cancel"
       /\ current.state \in DOMAIN Transitions \ {"done", "canceled"}
       /\ task = [state |-> "canceled", key |-> current.key, at |-> task.at,
                  domain |-> current.domain, parent |-> current.parent]

KeysAreUnique(tree) ==
    \A s, t \in {t \in Tasks : There(tree, t)} : tree[s].key = tree[t].key => s = t
TaskPasses(p, b) ==
    /\ OneOf(p, b, TaskCommands)
    /\ BaseManaged(p)
    /\ \E t \in Tasks :
          LET task == HeadTree(p)[t]
          IN  /\ Changed(Base(p), HeadTree(p)) = {t}
              /\ There(HeadTree(p), t)
              /\ TaskMoves(HeadMark(p).kind, Base(p)[t], task)
              /\ task.domain \in Domains
              /\ task.parent # "none" => There(HeadTree(p), task.parent)
    /\ KeysAreUnique(HeadTree(p))

(* The three project policy controls: one field each, and only the layout    *)
(* may be taken back to nothing.                                            *)
ChangesOnly(p, b, command) ==
    LET field == FieldOf[command]
        old == Base(p)["policy"]
        new == HeadTree(p)["policy"]
    IN  /\ OneOf(p, b, {command})
        /\ Changed(Base(p), HeadTree(p)) = {"policy"}
        /\ old # Absent /\ new # Absent
        /\ BaseManaged(p)
        /\ new = [old EXCEPT ![field] = new[field]]
ReviewPolicyPasses(p, b) ==
    ChangesOnly(p, b, "plan.configure-review") /\ HeadTree(p)["policy"].review # 0
LayoutPolicyPasses(p, b) == ChangesOnly(p, b, "doc.configure-layout")
GovernancePolicyPasses(p, b) ==
    ChangesOnly(p, b, "github.configure-governance") /\ HeadTree(p)["policy"].github # 0
PolicyPasses(p, b) ==
    ReviewPolicyPasses(p, b) \/ LayoutPolicyPasses(p, b) \/ GovernancePolicyPasses(p, b)

(* _validate_linear_policy_control.                                         *)
LinearPasses(p, b) ==
    /\ OneOf(p, b, {"linear.configure"})
    /\ Changed(Base(p), HeadTree(p)) = {"linear"}
    /\ There(HeadTree(p), "linear")
    /\ BaseManaged(p)

(* _bootstrap_manifest: the files of init and no other record.              *)
Manifest(tree, state) ==
    /\ {s \in Protocol : There(tree, s)} = {"project", "policy"}
    /\ tree["project"].state = state
BootstrapProposed(p, c) ==
    /\ p.fork = p.base /\ ~ c.merge
    /\ c.mark.kind = "bootstrap.propose"
    /\ {s \in Protocol : There(Base(p), s)} = {}
    /\ Manifest(c.tree, "bootstrapping")
    /\ Changed(Base(p), c.tree) = {"project", "policy"}
BootstrapPasses(p, b) ==
    \/ /\ HeadMark(p).kind = "bootstrap.propose"
       /\ b = [kind |-> "bootstrap", id |-> HeadMark(p).id]
       /\ Len(p.commits) = 1
       /\ BootstrapProposed(p, p.commits[1])
    \/ LET last == Len(p.commits)
           proposal == IF last = 1 THEN Base(p) ELSE p.commits[1].tree
       IN  /\ HeadMark(p).kind = "bootstrap.accept"
           /\ b = [kind |-> "control", id |-> HeadMark(p).id]
           /\ \/ last = 1 /\ p.fork = p.base
              \/ last = 2 /\ BootstrapProposed(p, p.commits[1])
           /\ ~ p.commits[last].merge
           /\ Manifest(proposal, "bootstrapping")
           /\ HeadTree(p) = [proposal EXCEPT !["project"].state = "managed"]

(* ProtectedBasePRDispatcher.validate: the first kind that the changed      *)
(* paths name decides.                                                      *)
Validates(p, b) ==
    LET changed == Changed(Base(p), HeadTree(p))
        Touches(set) == changed \cap set # {}
    IN  /\ p.base <= p.fork
        /\ IF Touches(Impacts) THEN ImpactPasses(p, b)
           ELSE IF b.kind = "decision" THEN DecisionPasses(p, b)
           ELSE IF Touches(Submissions) THEN SubmissionPasses(p, b)
           ELSE IF Touches(Tasks) THEN TaskPasses(p, b)
           ELSE IF "policy" \in changed /\ HeadMark(p).kind \in DOMAIN FieldOf
           THEN PolicyPasses(p, b)
           ELSE IF "linear" \in changed THEN LinearPasses(p, b)
           ELSE IF Touches(Protocol) THEN BootstrapPasses(p, b)
           ELSE TRUE

-----------------------------------------------------------------------------
(* Pull requests.                                                           *)

Built(r, n) ==
    LET tree == line[n]
        id == r.branch.id
    IN  CASE r.kind \in TaskCommands -> One(r.task, r.value)
          [] r.kind \in DOMAIN FieldOf ->
                One("policy", [tree["policy"] EXCEPT ![FieldOf[r.kind]] = r.value])
          [] r.kind = "linear.configure" -> One("linear", r.value)
          [] r.kind = "bootstrap.propose" ->
                Both(One("project", [state |-> "bootstrapping"]), One("policy", r.value))
          [] r.kind = "bootstrap.accept" -> One("project", [state |-> "managed"])
          [] r.kind = "submission.create" -> One(id, OpenSubmission(r, tree))
          [] r.kind = "impact.create" -> Impact(n, "single", id, r.reports)
          [] r.kind = "impact.batch" -> Impact(n, "batch", id, r.reports)
          [] r.kind = "impact.decide" -> Decision(n, id, r)
          [] OTHER -> One(r.path, [v |-> tree[r.path].v + 1])

(* What the services that propose refuse beforehand.                        *)
Buildable(r, n) ==
    CASE r.kind \in DOMAIN FieldOf \cup {"linear.configure"} \cup TaskCommands ->
            Managed(line[n])
      [] r.kind = "bootstrap.propose" -> ~ There(line[n], "project")
      [] r.kind = "bootstrap.accept" -> line[n]["project"].state = "bootstrapping"
      [] r.kind = "submission.create" -> There(line[n], r.task)
      [] r.kind \in {"impact.create", "impact.batch"} ->
            \A i \in r.reports : Latest(line[n], i) > 0 /\ MayRevise(line[n], i)
      [] r.kind = "impact.decide" -> MayDecide(n, r)
      [] OTHER -> TRUE

(* The event of a new head: the base branch is as it is now.                *)
Event(fork, commits, approved) ==
    Open(fork, Len(line), commits, "none",
         IF "dismiss" \in protection \cup rulesets THEN FALSE ELSE approved, FALSE)

(* A branch is pushed: the proposal of a service or of anyone over a tree    *)
(* that the default branch has or had, with or without other changes.       *)
Push(r, n, e) ==
    LET b == r.branch
        mark == [kind |-> r.kind, id |-> b.id]
        first == Commit(mark, Over(e, Over(Built(r, n), line[n])), FALSE)
    IN  /\ ~ pr[b].open
        /\ Cardinality({c \in Branches : pr[c].open}) < MaxOpen[Len(line)]
        /\ n \in DOMAIN line
        /\ Buildable(r, n)
        /\ pr' = [pr EXCEPT ![b] = Event(n, <<first>>, FALSE)]
        /\ UNCHANGED <<line, ruleVars>>

(* A second commit on the proposal: review.accept, or bootstrap.accept.     *)
Accept(b, decision, scope) ==
    LET p == pr[b]
        s == HeadTree(p)[b.id]
        accepted == Over(Acceptance(p.fork, b.id, s, decision, scope), HeadTree(p))
        next == Commit([kind |-> "review.accept", id |-> b.id], accepted, FALSE)
    IN  /\ p.open /\ Len(p.commits) < MaxCommits
        /\ b.id \in Submissions /\ s.state = "open"
        /\ HeadTree(p)[decision] = Absent /\ MayRevise(line[p.fork], s.report)
        /\ pr' = [pr EXCEPT ![b] = Event(p.fork, Append(p.commits, next), p.approved)]
        /\ UNCHANGED <<line, ruleVars>>
AcceptBootstrap(b, c) ==
    LET p == pr[b]
        next == Commit([kind |-> "bootstrap.accept", id |-> c.id],
                       Over(One("project", [state |-> "managed"]), HeadTree(p)), FALSE)
    IN  /\ p.open /\ HeadMark(p).kind = "bootstrap.propose"
        /\ ~ pr[c].open /\ c.kind = "control"
        /\ Cardinality({d \in Branches : pr[d].open}) < MaxOpen[Len(line)]
        /\ pr' = [pr EXCEPT ![c] = Event(p.fork, Append(p.commits, next), FALSE)]
        /\ UNCHANGED <<line, ruleVars>>

(* What both have of a file, or what one of them has changed.               *)
Merged(old, head, main) ==
    [s \in Slots |-> IF main[s] = old[s] THEN head[s] ELSE main[s]]
Clash(old, head, main) ==
    \E s \in Changed(old, head) \cap Changed(old, main) : head[s] # main[s]

UpdateBranch(b) ==
    LET p == pr[b]
        next == Commit([kind |-> "merge", id |-> "none"],
                       Merged(line[p.fork], HeadTree(p), Main), TRUE)
    IN  /\ p.open /\ p.fork < Len(line) /\ Len(p.commits) < MaxCommits
        /\ ~ Clash(line[p.fork], HeadTree(p), Main)
        /\ pr' = [pr EXCEPT ![b] = Event(Len(line), Append(p.commits, next), p.approved)]
        /\ UNCHANGED <<line, ruleVars>>

(* Closed and reopened: the same head, an event over the base of now.       *)
Reopen(b) ==
    LET p == pr[b]
    IN  /\ p.open /\ p.base < Len(line)
        /\ pr' = [pr EXCEPT ![b] = Open(p.fork, Len(line), p.commits, "none",
                                        p.approved, p.reviewed)]
        /\ UNCHANGED <<line, ruleVars>>

Close(b) ==
    /\ pr[b].open
    /\ pr' = [pr EXCEPT ![b] = Closed]
    /\ UNCHANGED <<line, ruleVars>>

Check(b) ==
    LET p == pr[b]
        verdict == IF Validates(p, b) THEN "passed" ELSE "failed"
    IN  /\ p.open /\ p.verdict = "none"
        /\ pr' = [pr EXCEPT ![b] = Open(p.fork, p.base, p.commits, verdict,
                                        p.approved, p.reviewed)]
        /\ UNCHANGED <<line, ruleVars>>

Approve(b) ==
    LET p == pr[b]
    IN  /\ p.open /\ ~ p.reviewed
        /\ pr' = [pr EXCEPT ![b] = Open(p.fork, p.base, p.commits, p.verdict, TRUE, TRUE)]
        /\ UNCHANGED <<line, ruleVars>>

(* What GitHub demands of the one who merges.                               *)
Enforced(admin) ==
    rulesets \cup (IF admin /\ "admins" \notin protection THEN {} ELSE protection)
Merge(b, admin) ==
    LET p == pr[b]
        demands == Enforced(admin)
    IN  /\ p.open /\ Len(line) < MaxLine
        /\ "checks" \in demands => p.verdict = "passed"
        /\ {"checks", "strict"} \subseteq demands => p.fork = Len(line)
        /\ {"pull_request", "reviews"} \subseteq demands => p.approved
        /\ {"pull_request", "last_push"} \subseteq demands => p.reviewed
        /\ ~ Clash(line[p.fork], HeadTree(p), Main)
        /\ line' = Append(line, Merged(line[p.fork], HeadTree(p), Main))
        /\ pr' = [pr EXCEPT ![b] = Closed]
        /\ UNCHANGED ruleVars

-----------------------------------------------------------------------------
(* The protection and github.apply-governance.                              *)

Full == Rules \cup {"admins"}
(* audit_github_governance: no check is an error.                           *)
Healthy(seen) ==
    /\ Rules \subseteq seen.rules
    /\ seen.classic /\ ~ seen.admins => seen.ruleset

AdminEdits ==
    /\ edits < MaxEdits
    /\ edits' = edits + 1
    /\ \/ /\ \E rule \in protection : protection' = protection \ {rule}
          /\ UNCHANGED rulesets
       \/ /\ \E rule \in rulesets : rulesets' = rulesets \ {rule}
          /\ UNCHANGED protection
       \/ /\ protection' = {} /\ protection # {}
          /\ UNCHANGED rulesets
    /\ UNCHANGED <<gateVars, apply>>

Preview ==
    /\ apply.pc \in {"idle", "done"}
    /\ apply' = Call("previewed", Observation, "none", "none", 0, apply.pending)
    /\ UNCHANGED <<gateVars, protection, rulesets, edits>>

Ends(result) ==
    apply' = Call("done", Unseen, "none", result, edits, apply.pending)

(* The observation has to be the one that was previewed.                    *)
BeginApply(manager) ==
    /\ apply.pc = "previewed"
    /\ \/ /\ Observation # apply.seen
          /\ Ends("observation_changed")
       \/ /\ Observation = apply.seen /\ ~ manager
          /\ Ends("manager_required")
       \/ /\ Observation = apply.seen /\ manager /\ Healthy(apply.seen)
          /\ Ends("no_change")
       \/ /\ Observation = apply.seen /\ manager /\ ~ Healthy(apply.seen)
          /\ apply.seen.ruleset
          /\ Ends("ruleset_conflict")
       \/ /\ Observation = apply.seen /\ manager /\ ~ Healthy(apply.seen)
          /\ ~ apply.seen.ruleset
          /\ apply' = Call("put", apply.seen, "none", "none", 0, apply.pending)
    /\ UNCHANGED <<gateVars, protection, rulesets, edits>>

(* The PUT: applied or not, answered or timed out, or applied only later.   *)
Put(answer, applied) ==
    /\ apply.pc = "put"
    /\ answer = "ok" => applied
    /\ answer = "rejected" => ~ applied
    /\ protection' = IF applied THEN Full ELSE protection
    /\ LET late == answer = "timeout" /\ ~ applied
       IN  apply' = Call("read_back", Unseen, answer, "none", 0, apply.pending \/ late)
    /\ UNCHANGED <<gateVars, rulesets, edits>>
LatePut ==
    /\ apply.pending
    /\ protection' = Full
    /\ apply' = Call(apply.pc, apply.seen, apply.answer, apply.result, apply.edits, FALSE)
    /\ UNCHANGED <<gateVars, rulesets, edits>>

(* Mutant: a PUT that was answered is believed.                             *)
ReadBackTrusts(readable) ==
    /\ apply.pc = "read_back"
    /\ IF apply.answer = "ok" THEN Ends("applied") ELSE Ends("uncertain")
    /\ UNCHANGED <<gateVars, protection, rulesets, edits>>

ReadBack(readable) ==
    /\ apply.pc = "read_back"
    /\ Ends(IF ~ readable THEN "uncertain"
            ELSE IF Healthy(Observation) THEN "applied"
            ELSE IF apply.answer = "timeout" THEN "uncertain"
            ELSE IF apply.answer = "rejected" THEN "failed"
            ELSE "incomplete")
    /\ UNCHANGED <<gateVars, protection, rulesets, edits>>

(* The command is cut off.                                                  *)
Cut ==
    /\ apply.pc \in {"previewed", "put", "read_back"}
    /\ apply' = Call("idle", Unseen, "none", "none", 0, apply.pending)
    /\ UNCHANGED <<gateVars, protection, rulesets, edits>>

Next ==
    \/ \E r \in Requests, e \in Edits : Push(r, Len(line), e)
    \/ \E r \in Requests : Push(r, Len(line) - 1, <<>>)
    \/ \E b \in Branches, d \in Decisions, scope \in {"baseline", "snapshot"} :
          Accept(b, d, scope)
    \/ \E b, c \in Branches : AcceptBootstrap(b, c)
    \/ \E b \in Branches : UpdateBranch(b)
    \/ \E b \in Branches : Reopen(b)
    \/ \E b \in Branches : Close(b)
    \/ \E b \in Branches : Check(b)
    \/ \E b \in Branches : Approve(b)
    \/ \E b \in Branches, admin \in BOOLEAN : Merge(b, admin)
    \/ AdminEdits
    \/ Preview
    \/ \E manager \in BOOLEAN : BeginApply(manager)
    \/ \E answer \in {"ok", "rejected", "timeout"}, applied \in BOOLEAN : Put(answer, applied)
    \/ LatePut
    \/ \E readable \in BOOLEAN : ReadBack(readable)
    \/ Cut

Spec == Init /\ [][Next]_vars

-----------------------------------------------------------------------------
(* Properties.                                                              *)

(* No one passes by the rules.                                              *)
Sound == Rules \subseteq Enforced(TRUE)

(* Under a sound protection the default branch becomes only what one open    *)
(* pull request proposes: the tree that the check has passed and a manager   *)
(* has seen, over the very tree that is replaced, so that what was validated *)
(* is what is merged.                                                        *)
MergedAsGated ==
    [][line' # line /\ Sound =>
         \E b \in Branches :
            /\ pr[b].open /\ pr[b].verdict = "passed" /\ pr[b].reviewed
            /\ pr[b].fork = Len(line) /\ pr[b].base = Len(line)
            /\ line' = Append(line, HeadTree(pr[b]))]_vars

(* Under a sound protection no merge changes or removes an accepted record,  *)
(* takes the Project back, moves a Task in a way its states do not allow,    *)
(* gives two Tasks one key or changes two fields of the policy.              *)
RecordsKept(old, new) ==
    /\ \A s \in Submissions \cup Decisions \cup Impacts \cup ReportSlots :
          There(old, s) => new[s] = old[s]
    /\ Managed(old) => Managed(new)
    /\ \A t \in Tasks : There(old, t) =>
          /\ There(new, t) /\ new[t].key = old[t].key
          /\ new[t].state \in Transitions[old[t].state] \cup {old[t].state}
    /\ KeysAreUnique(old) => KeysAreUnique(new)
    /\ There(old, "policy") =>
          /\ There(new, "policy")
          /\ Cardinality({f \in DOMAIN old["policy"] :
                             new["policy"][f] # old["policy"][f]}) <= 1
AcceptedIsKept ==
    [][line' # line /\ Sound => RecordsKept(Main, line'[Len(line')])]_vars

(* Under a sound protection a revision of a Report comes right after the     *)
(* last one, by exactly one accepted Decision or Impact that expected that   *)
(* one: no two proposals over one revision are both merged.                  *)
SourcesOf(old, new, r, k) ==
    {d \in Decisions : /\ d \in Changed(old, new) /\ new[d].report = r
                       /\ new[d].expected = k - 1}
    \cup {i \in Impacts : /\ i \in Changed(old, new) /\ r \in DOMAIN new[i].items
                          /\ new[i].items[r].expected = k - 1}
RevisionsAreSourced ==
    [][line' # line /\ Sound =>
         LET new == line'[Len(line')]
         IN  \A r \in Reports : \A k \in Revisions(r) :
               RevisionSlots[r][k] \in Changed(Main, new) =>
                  /\ k = Latest(Main, r) + 1
                  /\ Cardinality(SourcesOf(Main, new, r, k)) = 1]_vars

(* A Report that is current has, where its basis was moved by an Impact, the *)
(* same dependencies there as where a manager last accepted or waived it;    *)
(* with an external dependency nothing but a manager moves the basis.        *)
Assessments(tree, r) ==
    {k \in 1 .. Latest(tree, r) :
        \E d \in Decisions : /\ tree[d].state \in {"accept", "waive"}
                             /\ tree[d].report = r /\ tree[d].expected = k - 1}
GroundedIn(trees) ==
    LET tree == trees[Len(trees)]
    IN  \A r \in Reports :
          LET cell == Report(tree, r)
              last == CHOOSE k \in Assessments(tree, r) :
                         \A j \in Assessments(tree, r) : j <= k
              assessed == tree[RevisionSlots[r][last]].basis
          IN  Latest(tree, r) > 0 /\ cell.state = "current" =>
                /\ Assessments(tree, r) # {}
                /\ \A p \in cell.deps : trees[cell.basis][p] = trees[assessed][p]
                /\ cell.external => cell.basis = assessed
CurrentIsGrounded ==
    [][line' # line /\ Sound /\ GroundedIn(line) => GroundedIn(line')]_vars

(* A receipt of github.apply-governance that says that the policy holds is   *)
(* true until an administrator changes the protection again, whatever        *)
(* became of its PUT or of an earlier one.                                   *)
ReceiptIsTrue ==
    apply.result \in {"applied", "no_change"} /\ apply.edits = edits => Healthy(Observation)
=============================================================================
