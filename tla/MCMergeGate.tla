----------------------------- MODULE MCMergeGate -----------------------------
(***************************************************************************)
(* Four default branches: one without records (bootstrap), one with Tasks   *)
(* and policies (controls), one with an accepted Report (evidence), one     *)
(* under several protections (gate).  What else a pull request may be is    *)
(* narrowed by the two constraints.                                         *)
(***************************************************************************)
EXTENDS MergeGate, TLC

MCTasks == {"t0", "t1"}
MCPaths == {"x", "y"}
MCSubmissions == {"s0", "s1", "s2"}
MCDecisions == {"d0", "d1", "d2"}
MCImpacts == {"i1", "i2"}
MCReports == {"r1", "r2"}
MCRevisionSlots == [r \in MCReports |-> IF r = "r1" THEN <<"r1v1", "r1v2", "r1v3", "r1v4">>
                                       ELSE <<"r2v1", "r2v2">>]
MCDomains == {"cpu"}

Task(state, key, at, parent) ==
    [state |-> state, key |-> key, at |-> at, domain |-> "cpu", parent |-> parent]
Policy == [review |-> 0, layout |-> 0, github |-> 0]
Empty == [s \in Slots |-> IF s \in Paths THEN [v |-> 0] ELSE Absent]
Records == Over(("project" :> [state |-> "managed"]) @@ ("policy" :> Policy)
                @@ ("t0" :> Task("ready", "k0", 1, "none")), Empty)
Baseline(r, deps, external) ==
    ("s0" :> [state |-> "accepted", task |-> "t0", at |-> 1, report |-> r, expected |-> 0,
              baseline |-> 1, deps |-> deps, external |-> external]) @@
    ("d0" :> [state |-> "accept", submission |-> "s0", report |-> r, expected |-> 0,
              scope |-> "baseline"]) @@
    (RevisionSlots[r][1] :> [state |-> "current", scope |-> "baseline", basis |-> 1,
              deps |-> deps, external |-> external, verified |-> TRUE])
Evidence(external) == Over(Baseline("r1", {"x"}, external), Records)
Ruled == Over("x" :> [v |-> 5], Empty)
Evidenced(external) == <<Records, Evidence(external)>>
MCLines == {<<Empty>>, <<Ruled>>, <<Records>>, Evidenced(FALSE), Evidenced(TRUE)}

On(kind, id) == [kind |-> kind, id |-> id]
Source(id, path) == [branch |-> On("source", id), kind |-> "source", path |-> path]
TaskRequest(id, command, t, value) ==
    [branch |-> On("control", id), kind |-> command, task |-> t, value |-> value]
PolicyRequest(id, command, value) ==
    [branch |-> On("control", id), kind |-> command, value |-> value]
Submission(id, r, expected, deps) ==
    [branch |-> On("submission", id), kind |-> "submission.create", task |-> "t0",
     report |-> r, expected |-> expected, baseline |-> 1, deps |-> deps, external |-> FALSE]
ImpactRequest(id, kind) ==
    [branch |-> On("impact", id), kind |-> kind, reports |-> {"r1"}]
DecisionRequest(id, disposition, deps, task) ==
    [branch |-> On("decision", id), kind |-> "impact.decide", disposition |-> disposition,
     impact |-> "i1", report |-> "r1", deps |-> deps, task |-> task]

Controls ==
    {TaskRequest("o1", "task.create", "t1", Task("planned", "k0", 1, "none")),
     TaskRequest("o1", "task.create", "t1", Task("planned", "k1", 1, "t0")),
     TaskRequest("o2", "task.update", "t0", Task("active", "k0", 2, "none")),
     TaskRequest("o2", "task.update", "t0", Task("done", "k0", 2, "none")),
     TaskRequest("o2", "task.cancel", "t0", Task("canceled", "k0", 1, "none")),
     PolicyRequest("o1", "plan.configure-review", 1),
     PolicyRequest("o2", "doc.configure-layout", 1),
     PolicyRequest("o1", "linear.configure", [state |-> "configured", v |-> 1])}
Bootstraps ==
    {[branch |-> On("bootstrap", "b1"), kind |-> "bootstrap.propose", value |-> Policy],
     [branch |-> On("control", "o1"), kind |-> "bootstrap.accept"]}
Evidences ==
    {Submission("s1", "r1", 1, {"x"}),
     Submission("s2", "r2", 0, {"x"}),
     ImpactRequest("i1", "impact.create"), ImpactRequest("i1", "impact.batch"),
     ImpactRequest("i2", "impact.create"),
     DecisionRequest("d1", "waive", {"x"}, "none"),
     DecisionRequest("d1", "rerun", {"x"}, "t0"),
     DecisionRequest("d2", "dependency_fix", {"y"}, "none")}
Sources == {Source("a", "x"), Source("b", "y")}
MCRequests == Controls \cup Bootstraps \cup Evidences \cup Sources
MCBranches == {r.branch : r \in MCRequests}
MCEdits == {<<>>, "d0" :> Absent, "t0" :> Task("done", "k0", 9, "none")}

Guarded == [classic |-> Full, rulesets |-> {}]
MCProtections ==
    {Guarded, [classic |-> Rules, rulesets |-> {}], [classic |-> {}, rulesets |-> Rules],
     [classic |-> Rules \ {"strict"}, rulesets |-> {"strict"}],
     [classic |-> Full \ {"last_push"}, rulesets |-> {}]}

MCMaxOpen == <<2, 2, 1, 1, 1>>

IsGuarded == protection = Full /\ rulesets = {} /\ apply = Idle
OpenOnes == {b \in Branches : pr[b].open}
Family ==
    IF line[1] = Empty THEN "bootstrap"
    ELSE IF line[1] = Ruled THEN "gate"
    ELSE IF Len(line) > 1 /\ line[2] \in {Evidence(FALSE), Evidence(TRUE)} THEN "evidence"
    ELSE "controls"
(* Each default branch meets its own requests; what is not guarded meets    *)
(* changes of source only, and github.apply-governance none at all.         *)
OneFamily ==
    LET kinds == [bootstrap |-> {"bootstrap", "control", "source"}, gate |-> {"source"},
                  controls |-> {"control", "source"},
                  evidence |-> {"submission", "impact", "decision", "source"}]
        length == [bootstrap |-> 3, gate |-> 2, controls |-> 3, evidence |-> 5]
    IN  /\ \A b \in OpenOnes : b.kind \in kinds[Family]
        /\ Family # "gate" => IsGuarded
        /\ Family = "bootstrap" => ~ Managed(Main)
        /\ apply # Idle => OpenOnes = {} /\ Len(line) = 1
        /\ Len(line) <= length[Family]
        /\ Len(line) > 4 => line[2] # Evidence(TRUE)
(* Where the branch is guarded: two are open only when one of them is       *)
(* checked, what fails is not followed and what is approved is checked      *)
(* first.  Elsewhere nothing else is changed with the source.               *)
OneAtATime ==
    IF Family = "gate"
    THEN \A b \in OpenOnes : \A c \in DOMAIN pr[b].commits :
            LET tree == pr[b].commits[c].tree
            IN  tree["d0"] = Absent /\ tree["t0"] = Absent
    ELSE /\ Cardinality({b \in OpenOnes : pr[b].verdict # "passed"}) <= 1
         /\ \A b \in OpenOnes : pr[b].verdict # "failed"
         /\ \A b \in OpenOnes : pr[b].reviewed => pr[b].verdict = "passed"
=============================================================================
