---------------------------- MODULE MCProposals ----------------------------
(* Instances of Proposals for TLC.                                          *)
EXTENDS Proposals, TLC

CONSTANTS o1, o2, x1, x2

Create(op, command, content, base, revision) ==
    [op |-> op, key |-> op, command |-> command, branch |-> IF command = "submission.create" THEN 1 ELSE 2,
     content |-> content, base |-> base, revision |-> revision]
Decide(op, expects, revision) ==
    [op |-> op, key |-> op, command |-> Accepts, branch |-> 1, content |-> "-",
     expects |-> expects, revision |-> revision]

MCPhases == {"idle", "authorize", "effect", "finish", "fail", "check", "review",
             "resolve", "worktree", "checkout", "lock", "write", "truncate",
             "fill", "commit", "prepared?", "prepared", "head", "push",
             "pushed head", "pushed?", "pushed", "pull", "create",
             "created pull", "opened?", "opened", "note",
             "nothing?", "nothing"}
MCKinds == {"operation_started", "actor_authorized", "authorization_denied",
            "effect_persisted", "operation_failed", "operation_finished",
            "proposal_prepared", "branch_pushed", "pr_created", "pr_observed",
            "review_acceptance_prepared", "batch_unaffected"}
MCResults == {"none", "denied", "failed", "pr_created", "pr_observed",
              "proposal_open", "acceptance_prepared", "no_change"}
MCOperations == {o1, o2}
MCExecutors == {x1, x2}
MCSymmetry == Permutations(MCExecutors)
MCUnread == [head |-> Root(0), at |-> 0, changed |-> {}]
MCSnapshots ==
    [head: [op: MCOperations \cup {NoCommit}, parent: 0 .. MaxMain \cup MCOperations],
     at: 0 .. MaxCalls, changed: SUBSET FileNames]

MCBranches == {1, 2}
\* a Submission, with another one of its identity or its acceptance, which may be
\* denied; or an impact, a batch of them or a decision on one, alone
Submission == Create(o1, "submission.create", "a", 1, 0)
Impact == Create(o1, "impact.create", "a", 1, 0)
Another == Create(o2, "submission.create", "b", 2, 1)
Acceptance == Decide(o2, o1, 0)
Denied == Decide(o2, o1, 1)
Decision == Create(o1, "impact.decide", "a", 1, 0)
Batch == Create(o1, "impact.batch", "a", 1, 0)
MCUnaffected == {Batch}
MCRequests == {Submission, Impact, Another, Acceptance, Denied, Batch, Decision}
OneScenario ==
    /\ journal[o1].request \in {Impact, Batch, Decision} => journal[o2].state = "absent"
    /\ journal[o1].request = Decision => calls = 1
    /\ journal[o2].request = Acceptance => Len(main) = 1
MCPermitted == MCRequests \ {Denied}
MCBuildable == MCRequests
=============================================================================
