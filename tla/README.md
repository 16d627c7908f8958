# TLA+ models of ResearchAgentOps (`researchctl`)

`researchctl` runs a research project that humans and coding Agents share: it
starts Agent Sessions in tmux, executes frozen Runs, publishes status, proposes
results for review on GitHub and projects accepted ones to Linear. Git holds the
accepted records, a SQLite file (the *runtime store*) the local observations, and
an *operation journal* in that store makes every command repeatable: a client
that does not know what became of its request sends it again with the same
idempotency key. This directory models the parts where that promise is hard to
keep, checks them with TLC, and proves what it can with TLAPS.

Sources are named below relative to `src/src/researchctl/`.

## 1. Inventory

| Part | Code | State it keeps | Operations | What is hard |
|---|---|---|---|---|
| Operation journal | `runtime/store.py` (operations, operation_events), `services/application.py` (`_journaled_mutation`, `_claim`, `_authorize`, `_finish`, `_record_operation_error`) | one row and an event list per operation | begin or observe, append, finish | two executors of one operation; an executor that dies anywhere; an error recorded after the effect |
| Linear delivery | `services/linear_worker.py`, `services/linear_delivery.py`, delivery tables of the store | outbox rows, attempts, claims with leases, receipts; Linear's comments | enqueue, claim, preflight, observe, create, finish | leases against stalled calls, lost or late writes, users who edit and archive |
| Session inbox | `notification.*` in `services/application.py`, notification tables of the store | sessions, notifications with route and revision, replies, reply outbox | send, ack, reply; rerouting on stop or loss | routes that change between check and write, replays after the item has moved |
| Status and attention | `status.publish`, `inbox.*`, attention tables | updates, attention items with a generation, action rows | publish, ack, snooze, resolve | late, repeated and reordered updates; acting on what was listed earlier |
| Agent Sessions | `services/session_harness.py`, `session_host.py`, `adapters/tmux.py`, `adapters/agents.py` | session row, capability token, tmux session, wrapper and Agent | start, pause (idle or stop), the wrapper's reports | one row written by three processes from stale copies; polls with deadlines |
| Run attempts | `services/local_run.py`, `services/run_execution.py`, `services/run_records.py`, `adapters/git_run.py` | marker file per attempt, process, result file, Run branch | start, retry, collect | launch once, torn markers, timeouts, one result for several attempts |
| Run admission | `services/run_preflight.py`, `run_profiles.py`, `experiment_plan.py` | none | verdicts | - |
| Submission proposals | `services/submission_workflow.py`, `submission_delivery.py`, `submissions.py`, `submission_records.py`, `adapters/git_submission.py`, `adapters/github_submission.py` | branch, worktree and its files, proposal commit, remote branch, pull request | prepare, push, open or observe | lost answers of push and create; a base that advances; two processes in one worktree |
| Review acceptance | `services/review_acceptance.py` | acceptance commit on the reviewed head | prepare | repetition with another clock; a cut between file and commit |
| Report impact, impact decisions | `services/report_impact.py`, `impact_*.py`, `dependency_impact.py`, adapters | impact records on their own branches; Report revisions | analyse, propose, decide | a scan that must see every change since a Report's basis; delivery without a lock |
| Post-merge projection | `services/post_merge.py`, `github_post_merge.py`, adapters | outbox row | authenticate a merge, enqueue | reads of GitHub at different moments, runs that are repeated, two bridges |
| Linear ingress | `services/linear_notification_ingress.py` | ingress receipts | resolve a comment, send | duplicate, edited and reordered webhooks; threads that are bound later |
| Reconcile | `services/reconcile.py`, `adapters/reconcile.py` | none | classify what is observed | observation that is not atomic, and fails in parts |
| Task records | `services/task_records.py`, `control_tasks.py` | one file per Task | create, replace, cancel | compare-and-swap under a lock taken late |
| Control proposals | `services/control_*.py`, `bootstrap_proposal.py`, `adapters/git_bootstrap*.py`, `git_control.py` | branch and worktree per proposal | prepare or observe | cut off between worktree, files and commit |
| CI dispatch | `services/ci_dispatch.py`, `ci_validation.py` | none | classify a pull request, validate it over its base | what is valid alone and not over what was merged meanwhile |
| GitHub governance, gates | `services/github_governance.py`, `github_pr_gate.py`, `adapters/github_protection.py` | branch protection | apply, audit; the gate of a merge | administrators and late answers between read, PUT and read-back |
| Documents | `document_cli.py`, `services/project_documents.py`, `simple_document_*.py`, `agent_guides.py` | files in working trees; the site manifest | render, index, guide, lint, site | a tree read file by file while it is edited; locks that a change set could lift itself |
| Plan review, CLIs, domain models, Git adapters | see `PROJECT.json` | none of their own | parse, validate, wrap | - |

Three things join the parts. All journaled commands end in one terminal row of
the journal. The runtime store joins Sessions, the inbox and the outbox: a Session
that stops reroutes its notifications in the transaction that saves it, and a
reply and an accepted result both end as an outbox row that Linear delivery
drains. The protected default branch joins everything that is proposed: a command
makes a commit on a branch of its own, CI checks its exact head, a manager
approves it and GitHub merges it; from there the bridge projects it to Linear, and
comments in the thread that it opens come back as notifications.

For each part, what makes it correct:

- **Journal**: a terminal result never changes, and a success is of what was asked
  and has happened (`SuccessIsOnRecord`, `SuccessIsProposed`, `ReportIsStored`).
- **Linear delivery**: claims are exclusive, a receipt names the event's comment,
  there is one visible comment per event, nothing is sent for an event that must
  be rejected, and every pending event settles.
- **Inbox**: no open item stays with a dead Session, an Agent acts only on items
  that are still routed to it, one reply per item is queued, revisions only grow.
- **Attention**: the current update is the newest published one, an action is on
  evidence that somebody had listed, a closed item comes back for new evidence.
- **Sessions**: a Session that is reported quiet has no Agent, a running Agent's
  token stays valid, a pause that is repeated ends.
- **Runs**: one process per attempt, a terminal marker says what the process did,
  a retry never overlaps its origin, an operation that reports a collected result
  has stored it.
- **Proposals**: what is published is what was generated, whole; a branch is
  never replaced and its pull request shows only what it had; an acceptance
  follows the commit that was reviewed.
- **Control proposals**: a commit is the requested change over the base it names,
  and any order of merges is a sequence of permitted Task steps.
- **Default branch**: what is merged was checked over what it replaces and
  approved; an acceptance is never lost; a revision of a Report is of the sources
  it names and a current Report has no unseen change under it.
- **Governance**: a receipt that the policy holds is true.
- **Projection and ingress**: what is queued was attested by the check that gated
  it; one comment makes one notification, however often it is delivered.
- **Reconcile**: what its plan calls settled, collectable or gone is so.
- **Documents**: the default branch passes its own lint, what it locked is kept, a
  rendered pair passes, a manifest is of one moment.

`PROJECT.json` lists the hazards, each at its line, with the properties that
would catch it and a note where none does.

## 2. Modules

| Module | Models |
|---|---|
| `OperationJournal` | the journal's transactions and the protocol of every journaled method |
| `LinearOutbox` | the delivery tables: one action per store transaction |
| `LinearDelivery` | `run_once` calls over `LinearOutbox`, and Linear: what a write, an answer and a user may do |
| `ProjectionOutbox` | abstract: an event is offered, shown in at most one comment at a time, which its user may take down, and settled |
| `SessionInbox` | the inbox methods over the journal, with sessions, notifications, replies |
| `LocalRun` | `run.start`, `.retry`, `.collect`, the executor, the marker, the process |
| `SessionHarness` | `session.start`, `.pause`, the wrapper and the tmux session |
| `StatusAttention` | `status.publish` and the inbox actions |
| `Proposals` | `submission.create`, `impact.create`, `.batch`, `.decide`, `review.accept`: files, Git and GitHub |
| `ProposalLineage` | abstract: what a proposal branch promises its reviewers |
| `ControlProposals` | the Task, policy and bootstrap commands, up to their commits and merges |
| `MergeGate` | pull requests, CI, approvals, merges and protection of the default branch, and `github.apply-governance` |
| `PostMerge` | the bridge's reads of a merged pull request, and what it queues |
| `LinearIngress` | comments that become notifications |
| `AcceptedLoop` | `PostMerge` and `LinearIngress` joined by the result's thread |
| `Reconcile` | one reconcile pass over `LocalRun`, or over a Session |
| `Documents` | document commands, lints, merges and the site manifest |
| `RunProofs` | theorems about `LocalRun` and `Reconcile` |
| `RemoteProofs` | theorems about `LinearDelivery` and `MergeGate` |
| `ConversationProofs` | theorems about `AcceptedLoop` |
| `ControlProposalsProofs`, `DocumentsProofs`, `ProposalsProofs`, `SessionInboxProofs`, `StatusAttentionProofs` | theorems about the module they are named for |
| `MC*` | values of the constants for TLC, and the constraints that bound a run |

In all of them an action is one transaction, one file-system operation, one
remote call or one observation of another process, with every check that the
code makes since the previous one. Between two actions anything else may run,
and an executor may die. Where a definition has a variant that a comment calls a
mutant, the variant is the code with a plausible bug; `PROJECT.json` names the
property that notices the difference.

### OperationJournal

`journal` holds the operations and operation_events rows, `exec[x]` the service
method executor `x` is in: where it stands, its request, which events it has
seen in the journal and what it has read. `Begin` is `_claim`, `Authorize` and
`Deny` are `_authorize`, `Record` is `append_operation_event` in a method,
`Finish` is `_finish`, `RecordFailure` is `_record_operation_error`, and
`Abandon` is an executor that dies or gives up on a busy store (bounded by
`MaxAbandoned`). Nothing keeps two executors from running the same operation:
every module over the journal uses that.

### LinearOutbox, LinearDelivery and ProjectionOutbox

`outbox`, `attempts`, `receipt`, `holder` and `expired` are the columns of the
two outbox tables and of linear_delivery_status, _receipts and _claims. The two
outbox tables are merged as the claim query merges them. `run[w]` is the
`run_once` call with claim_id `w`: `preflight`, `observe`, `create`, `await`,
`finish`. `note[c]` is a comment of Linear: requested, visible, edited, taken away
by its user (with or without its text: what counts is the marker), or dropped on
its way. Back-off is left to the scheduler (a pending event may be
claimed whenever it is chosen; the order of the claim query, by `created_at`, is
kept with ties broken either way). The attempt limit is the bound on the faults:
a verdict is retryable, delivered or dead-letter as in `_finish`.

Assumptions, each a constant, so that runs show what depends on it:
`LeasesOutlastAttempts` (no call is still running when its lease ends) and
`WritesSettle` (Linear has applied or dropped a write before another attempt looks
for it). Two calls with one claim_id do not overlap.

### SessionInbox

`session`, `notes`, `replies`, `queued` are runtime_sessions.state,
session_notifications, notification_replies and notification_reply_outbox.
"live" stands for preparing, active, idle and stopping, which the inbox does not
tell apart. A method reads the item (`Load`), authorizes, and applies its change
in one later transaction (`ApplySend`, `ApplyAck`, `ApplyReply`); `SaveSession`
may come between, and reroutes. A client quotes a revision that it has read. An
observation of a Session that the store refuses as stale changes nothing and is
not a step.

### LocalRun

`marker[a]` is the attempt's marker file (`created` is the empty file between
O_EXCL and the write), `process[a]` the process, `result` the attempt in
result.yaml, `committed` the commit that carries it, `runnable` whether Session,
Task and host admit the Run, read twice as the code does. The `_exclusive` lock
of the records is `Unlocked`. Freezing a RunSpec is idempotent and left out; so
are events that nothing reads. Executors that die leave their process running:
`Exit` may come later.

### SessionHarness

`row` is the runtime_sessions row (its state, and whether native_session_id is
known), `host` the wrapper with its Agent, which is also the tmux session.
`updated_at` is abstracted by `fresh`: the processes whose last read of the row is
its current content. A write from a fresh copy is accepted; one from a stale copy
may be accepted or refused, depending on whose clock was read later. The token
digest is abstracted by `bearer`, the processes that hold the current token.
`update_session_state` is one step here (it reads and writes in two transactions).

### StatusAttention

`items`, `published`, `actions` are attention_items, status_updates and
attention_actions. An update has the rank of (observed_at, update_id). An
action's client quotes an item it has listed (`Listed`); `Lookup` is
`_attention_for_action` and `Act` the transaction, which sees the item again. A
snooze runs out at any time. There is no step of death: an executor may stay
where it is.

### Proposals and ProposalLineage

Each branch has its log of commits, its tree, the files of its worktree and their
lock (`branch`, `files`, `lock`); GitHub has `remote` heads and `pulls`. A file is
absent, partial, or the bytes of a generation, of which only what distinguishes
them is kept: the content, the operation (an impact is dated by it) and the call
(an acceptance is dated by its clock). `Locked` and the write actions follow the
code: a submission and an acceptance replace files atomically under a lock; an
impact truncates and fills them without one. A push or a create that times out
goes to `flying` and may still be carried out at any later time (`MaxCalls` and
one fault bound them). `main` is the default branch, as far as a base or a
Report's revision is read from it.

`ProposalLineage` states the outcome: one commit proposes, it is published
unchanged, a pull request shows only what the branch had, one acceptance may
follow. `ImplementsLineage` maps each branch to it.

Left out: the evidence, Task and report inputs of a bundle are constant during a
run; pull request bodies; a manager names a head that GitHub shows; the local ref
of the default branch is the head the service resolves.

### ControlProposals

`commits` is the object store, with the parents that matter; `branch` and `place`
are an operation's branch and worktree, `place[b].litter` the temporary file of a
write that was cut off, `lock` the `flock` of a policy or bootstrap branch (from
first read to commit) or of a task directory (the write only), `source` the
uncommitted output of `init`. Records are slots of a file: the three sections of
the project policy are one file, so that proposals of one conflict. `Merge` is
a Git three-way merge of what a manager chooses.

### MergeGate

`line` is the sequence of trees that the default branch has had and `pr[b]` the
pull request of a source branch: where it forked, the base its last event names,
its commits, the verdict of the check and its approval. `Push`, `Reopen` and
`UpdateBranch` make an event; `Check` is CI dispatch on the exact head with the
records of the event's base: one operator per kind of pull request (bootstrap,
control, source, submission, acceptance, impact, decision), with every condition
that relates head to base. `Merge` is GitHub: each rule of `protection` and
`rulesets` demands something. Administrators change the protection, and
`github.apply-governance` observes, PUTs and reads back, with an answer that may
be lost and a PUT that may be applied late.

Left out: force pushes, branch deletion and bypass actors; the observation of a
protection is one read; a branch starts from one of the default branch's commits;
a policy's digest, CODEOWNERS and the verification of evidence are one constant
verdict; a dependency is one file.

### PostMerge, LinearIngress and AcceptedLoop

`hub` holds pull requests with their workflow runs, attempts and artifacts.
The bridge reads the pull request, the runs, the jobs, the artifacts and the
download in separate steps (`bridge[x].pc`); GitHub may push, run again or upload
between any two. Then `Look` and `Enqueue` are the read of the outbox and
the insertion. `LinearIngress` binds a comment by its explicit Session or by the
markers delivered in its thread (`Resolve`), reads the receipt (`ReadReceipt`),
records and sends. `AcceptedLoop` composes them: a queued event, delivered as
`LinearDelivery` promises, puts the submitter's marker in the result's thread.
The modes `shadow` and `disabled` write nothing and are not actions.

### Reconcile

Extends `LocalRun` with the freezing of the RunSpec, or stands beside one
Session's row, worktree, tmux session and wrapper. `seen` is what the pass has
read, one step per read, each of which may fail; `plan` is what the service makes
of it. The Session's side is coarser than `SessionHarness`: one call at a time.
Records that no writer of this system makes are left out.

### Documents

A file is a record of who wrote it and what the lints look at. `tree` is a
branch's working tree, `head` its pushed commit with the default branch it
contains (`from`) and the base that its check was given (`against`), `main` the
default branch. `command` is one of render, index and guide, which look at a file
and write later; `build` is the site manifest: a lint, file by file, the
files, a second lint, the files again, HEAD and the status; what is compared
depends on the policy's version. `MergePull` requires the strict check that governance demands.

Left out: schemas and text; one read per file per lint; scaffolds, single-file
commands, machine artifacts and symlinks; the frontmatter envelope that a route with
`generated_markdown_frontmatter` demands of a render's destination. Path
classification and the legacy list are constants of each policy. A render writes
its source's Markdown or any other but the index.

## 3. Runs

One run for each distinct question. All of them pass: every property below holds
of the code as modelled.

| Run | Question | Bounds |
|---|---|---|
| `linear_delivery_any` | are claims exclusive, receipts true and rejected events silent when leases run out, writes are late, answers are lost, a worker dies, users edit, delete and archive? | a good, a misaddressed and a malformed event; 2 claim_ids, 3 comments; one fault, one crash, one edit or deletion |
| `linear_delivery_prompt` | when attempts are prompt: one comment per event, `ProjectionOutbox` implemented, every pending event settles | 2 good events of the same instant; one lost answer, one death; `LeasesOutlastAttempts`, `WritesSettle` |
| `session_inbox_any` | is anything left on a dead route, or replied to twice, while the Session stops, resumes and is lost? | a send; an Agent's ack or reply; a manager's reply under the same or another id, or an ack that is not permitted; 2 executors, one death |
| `local_run_any` | one process per attempt, true markers, no overlap of a retry with its origin, reports that are stored | a start, its retry, a collection, or a denied one alone; 2 executors, one mishap (a death, or a Run that stops being admitted) |
| `session_harness_one` | is what the row says true, is the Agent's token kept, and does a repeated pause end? | a start and both pauses, one call at a time; one death, one wrapper fault |
| `status_attention_any` | newest is current, actions are on listed evidence, new evidence reopens | three updates of one item, one that conflicts, one that is foreign; an ack, a snooze, a resolve; 2 executors |
| `proposals_any` | is what is published what was generated, is a success on record, is `ProposalLineage` implemented? | a submission against itself, another of its identity or its acceptance; or an impact, a batch or a decision; 2 executors, 3 calls, 2 default heads, one death or late call |
| `control_any` | are commits exact, successes committed, merges permitted Task steps? | ten pairs of commands, with one operation raced by itself or by the other; one death or second `init`; 5 commits |
| `accepted_loop_any` | is what is queued attested, and does a comment make one notification? | an accepting and another pull request; 2 runs, 3 attempts; 2 bridges; 4 comments in 2 threads, 3 events, 2 ingresses |
| `merge_gate_any` | what may reach the default branch, and what is a governance receipt worth? | four histories (below), 2 pull requests at once, up to 5 merged trees; one administrator's edit |
| `reconcile_any` | is what the plan calls settled, collectable or gone so? | one pass over a Run with a start, a retry, a collection and one death, or over one Session |
| `documents_any` | is a manifest of one moment, does a rendered pair pass, does the default branch keep its locked documents and its own lint? | 2 branches, 2 pages, one source and its Markdown, guide, index, owners; 4 policies of both versions, one that lists its source as legacy; 2 edits, 4 commits, one command |

Two executors are enough for the races the code can have: each hazard is one
process acting between two steps of another. A third actor is present where it
matters (the Session under the inbox, the wrapper under the harness, Linear
under the worker, GitHub and administrators under proposals). No
safety run assumes that an executor takes its next step: one that stalls for ever
stands for one that died, and the other may repeat its request meanwhile. (In
`status_attention_any` there is no other death.) One death as a step of its own,
which frees the executor, is enough: the state after it is one in which the
client's repetition starts again. Two events let one be settled while the other is retried; three comments
let both be created and one be a duplicate.

The state constraints of the larger runs separate stories that do not meet, so
that each can be explored in full:

- `proposals_any` (`OneScenario`): operations of different branches share nothing
  but the default branch, so an impact runs alone.
- `control_any` (`Paired`, `OneMishap`, `OneRace`): two operations, with one mishap.
- `accepted_loop_any` (`OtherIsAlone`, `ThreeAttempts`, `CommentsFollow`): the two
  halves meet only in the thread that one delivery opens.
- `merge_gate_any` (`OneFamily`, `OneAtATime`): *bootstrap* begins without records,
  *controls* with Tasks and policies, *evidence* with an accepted Report, *gate*
  with one of several protections; the first three under the full protection,
  since under another one anything may be merged.
- `reconcile_any` (`RunsLater`, `SaysSomething`, `TwoIfCutOff`): nothing that the
  early reads do not look at happens before they end; a plan that says nothing of
  the Run is not followed further.
- `documents_any` (`FirstBranchFirst`, `SiteAlone`, `CommandsFirst`,
  `PushedPasses`): the branches are alike; a manifest looks at one tree; a command
  runs before the first push; a pushed head that does not pass stays unmerged, and
  what it was before it was mended is of no consequence.
- `session_inbox_any` (`TwoIfCutOff`) and `local_run_any` (`OneMishap`): two
  operations where an executor dies; where none does, all three.
- `local_run_any` and `session_harness_one` (`DeniedAlone`): a request that is
  denied changes only the journal.

Deadlock is not checked (`CHECK_DEADLOCK FALSE`) where the requests are finite:
once they have ended the system stops. Symmetry (of claim_ids, comments,
executors, bridges, ingresses) is used in safety runs only.

### Fairness

- `EventuallySettled` (`linear_delivery_prompt`): weak fairness of each call's
  steps, of Linear applying a request it has taken, of leases running out, and of
  the scheduler that runs `run_once` again (a host runs the worker periodically).
  Faults are finite.
- `PausesEnd` (`session_harness_one`): weak fairness of executors, wrapper and the
  client's repetition, which is the mechanism the contracts document for an
  operation whose executor died; strong fairness of the interrupt, which an Agent
  may ignore but not for ever. It is claimed only while no start runs.

Nothing else that the modelled code does must eventually happen without a
caller that asks again, so no other run states fairness.

## 4. Proofs

`RemoteProofs`, of `LinearDelivery`, for every number of events, claim_ids, comments, faults:

- `TypeCorrect`, `ClaimsCorrect`, `ReceiptsCorrect`, `RejectedCorrect`,
  `SettledCorrect` (a settled event never changes) from one inductive invariant
  that ties a call's phase and comment to the store's holder and to the comment's
  state;
- `OneCommentCorrect` and `DeliveryRefines` under `LeasesOutlastAttempts` and
  `WritesSettle`: then a call past `observe` holds its claim and no other comment
  of the event can still arrive. The invariant is needed because
  `NoDuplicateComment` speaks of comments only, and says nothing of the call that is
  about to create one. Users edit and delete at any time here, which they do not in
  `linear_delivery_prompt`.

`SessionInboxProofs`, for every set of requests, executors and Sessions:

- `TypeCorrect`, `LeftBehindCorrect` (an open item of a dead Session is on the
  manager's route: every save reroutes, and a send reads the Session in the same
  transaction), `OneReplyCorrect` (a reply row, a closed item and an outbox row
  come together), and, which no run states, `ForwardCorrect` (revisions and states
  only advance), `AgentsCorrect` (no Agent acts on an item that left it),
  `AbsorbingCorrect` (a lost Session stays lost).

`RemoteProofs`, of `MergeGate`, for every set of records, requests, histories and protections:

- `OrderCorrect`: no event names a base before the fork of its head, and a head
  that has passed contains the base that its event names. This is the inductive
  invariant; one lemma per action preserves it.
- `MergedAsGatedCorrect`: under a sound protection only a head that was checked
  over the very tree it replaces, and approved, is merged. *Up to date* alone
  speaks of the fork, and the check of the event's base; `OrderCorrect` makes
  them the same tree.
- `AcceptedCorrect`, `SourcedCorrect` (`AcceptedIsKept`, `RevisionsAreSourced`):
  every validator lets through only what is *lawful* over the base of its event
  (`PassedIsLawful`, with one lemma for each validator), the line only grows, so a
  verdict stays lawful over that tree (`VerdictCorrect`, the inductive
  invariant), and what is merged replaces that very tree. From `KindAssumption` (a path
  of the repository is of one kind), `RevisionAssumption` (and of one revision)
  and `DecisionAssumption` (a decision's branch is named after its record).
- `ReceiptCorrect`: a receipt that the policy holds is true until an administrator
  changes the protection again, however late an earlier PUT is applied.

`DocumentsProofs`, for every number of branches, files and policies, from
`StartAssumption` (the repository begins with documents that pass) and assumptions
on the parameters: `WalkAssumption` (every file is read), `KindAssumption` (a path
is of one kind), `PairAssumption` (a Markdown file has one source beside it, and
is covered where the source is):

- `BaseCorrect`: a head that contains the whole default branch was checked
  against exactly it. `LockedCorrect` and `PassesCorrect` (`LockedIsKept`,
  `MainPasses`) rest on it: what is merged is then the head's own tree, which
  passed against the tree it replaces.
- `RenderedCorrect`: what a render is about to write, if it is the source's own
  Markdown, is what its policy accepts beside the source it read, the pairs of
  section 6 excepted. The source and the policy may change before the
  write; the property compares them once more, and the lint's verdict rests on
  nothing else.
- `ManifestCorrect`: while nothing comes back, a file found twice with the same
  bytes had them in between, so the first lint's tree, the bytes read and the second
  lint's tree agree at one moment (`MomentFits`); and while the commit that the
  manifest names stays the branch's, a file that was changed differs from the commit
  (`HeadFits`), which is what a clean status rules out.

`RunProofs`, for every set of attempts, requests and executors:

- `RunsAreTyped`, `TerminalMarkersAreTrue`, `RetriesFollowTheirOrigin`,
  `ReportsAreStored`, `AttemptsStartOnce`. The inductive invariant says that an
  attempt has at most one owner, the executor whose exclusive write created its
  marker, until that executor's last write of it; that the owner's place in the
  method fits marker and process; and that a terminal marker is final. None of the
  properties is inductive without it: another executor that finds a marker left
  in mid-air must be seen not to launch again.
- `ObservedRunsAreRuns`: `ReconcileSpec` implies `LocalRun`'s `Spec`, so that its
  invariant holds beside a pass as well.
- `PassesAreTyped`, `SettledRunsHaveEnded`, `AdviceIsStillRight`,
  `GoneSessionsWereGone`: the pass takes no lock, and each verdict rests on something
  it has read that does not change any more (a terminal marker, a committed
  result), or on something it has *not* read that it must then have noted (a marker
  listed and not read leaves a stray or a failure behind).

`StatusAttentionProofs`, for every set of updates, requests and executors:

- `AttentionIsTyped`, `NewestUpdateIsCurrent`, `ClosedItemsReopenForEvidence`,
  `AttentionSuccessIsStored`;
- `ActionsAreOnListedEvidence`, for which the invariant says that evidence is fixed
  within a generation: the action compares generations, the property evidence.

`ConversationProofs`, of `AcceptedLoop`, for every set of pull requests, comments, threads,
processes:

- `QueuedResultsAreAttested`, `ReportedEventsAreQueued`: GitHub moves between any
  two reads of the bridge, so the invariant states, for each place in the
  observation, what was read and cannot become false (the head of a merged pull
  request, the head of a run, an attempt that has passed, what the clone has);
- `CommentsNotifyOnce`, `RepeatsAreRecognised`: receipts are immutable, and a
  process past `record` works with the receipt's own binding;
- `LoopIsTyped`. `NoEvent` and `NoReceipt` are assumed not to be an event, or a
  receipt: they stand for the absent row.

`ProposalsProofs`, for every set of requests, executors, branches and calls, from
`BranchAssumption` (`refs/heads/research/submission/` is used by the Submissions'
operations only) and `CommitAssumption` (what stands for an absent row, file or
commit is none; a proposed record is open), under one inductive invariant,
`Invariant`: the shapes of the repository and of GitHub, and, in `PlaceFits`, what
an executor at each place of the workflow knows to be on the branch, in the log or
on GitHub by then:

- `PublishedCorrect`: what GitHub has of a Submission, or of its acceptance, is
  what one operation generated. `TreeFits` and `HoldFits` carry it: the worktree is
  written by whoever holds the flock, and at the commit it has the generated files
  of that very call, whatever an earlier call that was cut off had left there.
- `SuccessCorrect`: a result that names success was written when the pull request,
  or the acceptance, was already on the branch (`PlaceFits`), and a branch's log
  only grows (`RecordFits`).
- `LineageCorrect`: `Proposals` implements `ProposalLineage` for every branch. A
  push or a pull request that timed out may land at any later moment
  (`FlyingFits`): it carries the commit that proposes, and pushes nothing over an
  acceptance.

`ControlProposalsProofs`, for every set of requests, executors, slots and trees, under
one inductive invariant, `Inv`, over the repository as one record (`World`: what the
operations asked for, the commits, the default branch, the branches, the worktrees):

- `WorldFits` is about the repository alone. Every proposal is one commit on its
  branch over the base it names, and holds what its operation asked for
  (`ProposalFits`); every branch is at its proposal or still at its root
  (`RootFits`); a worktree has the branch's tree, or that tree with what its operation
  writes (`PlaceFits`), whoever left it there.
- `CallFits` is about one call at one place of its method: what it has read and
  must still be true when it uses it. A Task call holds no lock between its reads and
  its write; what saves it is that its branch is its operation's own. Bootstrap calls
  of different operations may share a branch, and are saved by the lock that each
  holds from its first read to its commit (`OneHolds`).
- `VerdictFits` is about the recorded results.
- `ProposalsAreExact`, `SuccessesAreProposed`, `MergesAreAllLegal` (`ProposalIsExact`,
  `SuccessIsProposed`, `MergesAreLegal`) follow. `MergesAreLegal` is an action property:
  a merge takes each Task from the state that the default branch had to one its
  policy permits, changes one file, and leaves a managed Project with the
  configuration it was accepted with.
- From `BranchAssumption` (a branch is named by its operation, or by a bootstrap_id),
  `ControlRequestAssumption` and `SlotAssumption` (what a command may name),
  `TreeAssumption` (a first tree has Tasks in known states, and a managed Project only
  with the configuration it was accepted with), `MarkerAssumption` and
  `NoOneAssumption` (what stands for nobody is nobody).

All proofs use only the constants' named assumptions. Each has one step or lemma
per action, and a temporal last step.

Model-checked only: liveness and anything with ENABLED, which the prover does not
handle; `QuietIsTrue` and `AgentKeepsItsToken`, which hold of one executor's calls
and the wrapper, and not of calls that overlap (section 6), so that they are no
theorems for every set of executors; and `CurrentIsGrounded` of `MergeGate`, which speaks of trees by the numbers
that the records hold: while the protection is not sound a person can merge any
number, so that it holds for the records that the services write, and not for
every line.

## 5. Not modelled

What a process computes, what text says, and how records are encoded. The
components of `PROJECT.json` with the status `not_modelled` are pure functions or
wrappers: Run admission (its verdict is a condition that may change between two
calls), plan review (one provider process), the domain models (validation on
construction), the command lines. Of the components that are `partly` modelled,
the note names what is missing: mainly `session.continue`, the monitor and preview
of Linear delivery, worktree creation, the artifacts of a Run, path patterns of
dependencies, `init`'s output, bypass actors of a protection, document schemas.

## 6. Facts a reader of the code should know

These behaviours appear in the models. No checked property contradicts them: the
properties and the runs' bounds are stated so as to say what does hold. Where a
document says otherwise its line is given, relative to `src/`.

Linear and Sessions:

- `create_comment` (`services/linear_worker.py:472`) is not fenced by the claim: a
  call that stalls past its lease and the call that takes over both create a
  comment (`docs/MUTATION_CONTRACTS.md:312` promises one). Without
  `WritesSettle`, a create that times out and is applied late is created again. So
  is a comment that its user deletes, or takes the marker from, before the receipt
  is written.
- Nothing orders the calls of one Session. A pause or a second start that looked for
  the tmux session before it was made records the Session as `lost` while its Agent
  runs, or rotates the token that the Agent holds
  (`services/session_harness.py:192`). The store means to refuse the rotation
  ("Session token can rotate only before launch or while resumable",
  `runtime/store.py:1207`), but goes by the row, which is `preparing` until the Agent
  has declared its identity. `QuietIsTrue` and `AgentKeepsItsToken` are checked of one
  executor's calls; with two executors and two starts TLC finds both violated.
- A resume that is cut off after it wrote `preparing` is repeated as a fresh start
  (`services/session_harness.py:201`; `docs/MUTATION_CONTRACTS.md:93`). A pause
  whose deadline passes may end with the result `active`.
- A stored acknowledgement is recorded as failed when its operation is repeated
  after the Session was lost, and so is a stored inbox action when the item has
  moved on (`_attention_for_action`).
- A manager may act on an item of a live Session: an Agent is refused an item on
  the manager's route, a manager is not refused one on the Session's.
- An inbox action may be stored for a newer update than the one it names when that
  update is published in between and leaves the generation unchanged.

Runs:

- A repeated `run.start` checks Session, Task and preflight before it observes the
  marker, and records `failed` while the first executor's process runs
  (`services/application.py:1422`; `docs/MUTATION_CONTRACTS.md:54`).
- A retry may be launched after the Run has a result: the look for one is over
  before the claim. A retry that committed its result and is cut off is recorded as
  failed when repeated. The attempt of an executor that died is never ended.

Proposals:

- The impact workflows have no lock and write in place: two processes of one
  operation can commit and publish a truncated file. `PublishedIsGenerated` is
  therefore claimed of submissions and acceptances only.
- Of two executors of one operation one may meet a conflict or "nothing to commit"
  and record `failed` while the other publishes. A repetition after the base has
  moved ends in `stale_submission_base` with the pull request open
  (`services/submission_workflow.py:257`), and that of an acceptance after its own
  commit in `stale_submission_head`.
- `prepare_acceptance` reads the current Report at the proposal's base, never at
  the accepted head (`services/submission_workflow.py:355`;
  `docs/MUTATION_CONTRACTS.md:133`). One that is cut off between file and commit
  and repeated at another time is a record conflict for ever.
- A process killed in an atomic write leaves a temporary file that makes the
  worktree dirty for good, here and in the control worktrees.
- An update of a Task that is cut off after its write is repeated as `no_change`
  with nothing committed (`services/application.py:1283`;
  `docs/MUTATION_CONTRACTS.md:79`).
- Two creations with one human key can be prepared from one base; the check of the
  exact head refuses the second merge (`ci_task_key_conflict`).
- A task branch without its worktree is a conflict for ever, while policy and
  bootstrap commands attach it. A repeated `bootstrap.accept` fails after its commit
  when the default branch has moved.

The default branch:

- An open submission's head passes CI and may be merged before its acceptance,
  which can then never pass. Cycles of Task parents are not refused. Submission CI
  does not require a managed Project.
- `waive` moves a Report's basis to the decision's base, past changes merged after
  the Impact's target that no Impact has shown. A Report that is stale after a
  decision comes back through a new Submission only.
- A change by an administrator between the observation and the PUT is overwritten.
  A `failed` receipt says that the read-back is unchanged although it only knows
  that it does not comply. A check belongs to a commit: a second pull request with
  the same head inherits it.

Projection and ingress:

- A check that is run again after the result was queued makes every repetition end
  in `linear_projection_event_conflict` instead of `already_queued`
  (`docs/MUTATION_CONTRACTS.md:244`). Two bridges can both report `queued`.
- A redelivered comment that was bound by its thread is refused with
  `linear_source_marker_ambiguous` once the thread has receipts of two Sessions
  (`docs/MUTATION_CONTRACTS.md:102`).

Reconcile:

- tmux is listed before the row is read, so that a start in between makes a live
  Session LOST, with the advice to continue in a new one
  (`docs/RESEARCH_CONTROL_PLANE_SPEC.md:1153`). The branch of a start that has not
  saved its row yet is taken for that of a lost database.
- A failed start leaves the row `preparing`, with a plan to retry an operation that
  has ended. A Run whose retry is not collected is `inconsistent`, and so is one
  that is being frozen. A temporary file that is listed makes an item of its own.

Documents:

- A version 2 manifest calls the repository clean by a status that is read after
  its last look at HEAD: a commit in between is not noticed. A version 1 manifest
  does not notice a page that is added.
- Locks are read under the base's own root: when a merge moves the root, documents
  locked under the old one are free from then on
  (`services/project_documents.py:1478`).
- Render and guide replace a file as they found it earlier; a hand edit made in
  between is overwritten.
- `doc render` does not look at what a version 1 policy lists as legacy, and takes an
  analysis brief that is named `.YAML` (`document_cli.py:1779`): the tree's lint then
  calls the Markdown it wrote orphaned, or finds that the brief has none.
  `RenderedPairPasses` excepts both.

## 7. Plan

The modules of the first plan are written, with their runs and their proofs. What
would add most next:

1. Proof: `CurrentIsGrounded` for lines whose records name trees that there are.
2. `session.continue` and a second Session in `SessionHarness`.
3. Dependency patterns in `MergeGate`, with the fixpoint over dependents checked
   against its definition; bypass actors and force pushes.
