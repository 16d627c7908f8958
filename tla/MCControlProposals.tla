------------------------- MODULE MCControlProposals -------------------------
(* Instances of ControlProposals for TLC.                                   *)
EXTENDS ControlProposals, TLC

CONSTANTS o1, o2, o3, x1, x2

MCPhases == {"idle", "authorize", "lock", "base", "worktree", "attach", "scope",
             "write", "replace", "recapture", "status", "commit", "verify",
             "effect", "finish", "fail"}
MCKinds == {"operation_started", "actor_authorized", "authorization_denied",
            "effect_persisted", "operation_failed", "operation_finished"}
MCResults == {"none", "denied", "failed", "proposal_prepared", "no_change"}
MCUnread == Nothing
MCSnapshots == [head: 0 .. 5, main: 0 .. 5, source: 0 .. 2, dirty: BOOLEAN]

MCTaskSlots == {"t1", "t2"}
MCSlots == {"config", "record", "layout", "review", "linear"} \cup MCTaskSlots
MCFileOf == [s \in MCSlots |->
    CASE s \in {"config", "record"} -> "init"
      [] s \in {"layout", "review"} -> "policy"
      [] OTHER -> s]
MCKeyOf == [s \in MCTaskSlots |-> "key"]
MCOperations == {o1, o2, o3}
\* the branches of the operations, and of one bootstrap_id
MCBranches == MCOperations \cup {"bootstrap"}
MCSources == {1, 2}
Tree0 == [s \in MCSlots |-> Absent]
Managed == [s \in MCSlots |->
    CASE s = "config" -> Value("init", 1)
      [] s = "record" -> Value("managed", 1)
      [] s \in {"layout", "review"} -> Value("default", 0)
      [] s = "t1" -> Value("ready", 1)
      [] OTHER -> Absent]
MCTrees == {Tree0, Managed}

Request(op, command, base, slot, value, expected) ==
    [op |-> op, key |-> op, command |-> command, branch |-> op, base |-> base,
     slot |-> slot, value |-> value, expected |-> expected]
Ready == Value("ready", 1)
Active == Value("active", 2)
Create(op, slot) == Request(op, "task.create", 0, slot, Value("planned", 1), Absent)
Update(op, expected, value) == Request(op, "task.update", 0, "t1", value, expected)
Cancel(op, expected) == Request(op, "task.cancel", 0, "t1", Value("canceled", 2), expected)
Policy(op, command, base, slot) == Request(op, command, base, slot, Value("new", 1), Absent)
Bootstrap(op, command, base, in) ==
    [Request(op, command, base, "record", Absent, Absent) EXCEPT !.branch = in]

DeniedUpdate == Update(o2, Ready, Active)
MCDenied == {DeniedUpdate}
Layout == Policy(o1, "doc.configure-layout", 1, "layout")
Proposed == Bootstrap(o1, "bootstrap.propose", 1, "bootstrap")
\* a Task whose key is taken and one that exists; two cancellations; an update and what follows it
\* or conflicts with it; policies of one file and of another, two proposals of
\* one bootstrap, and an acceptance
Pairs ==
    {{Create(o2, "t2"), Create(o3, "t1")}, {DeniedUpdate, Cancel(o3, Ready)},
     {Cancel(o3, Ready), Cancel(o2, Value("canceled", 2))},
     {Layout, Policy(o2, "plan.configure-review", 1, "review")},
     {Layout, Policy(o3, "linear.configure", 2, "linear")},
     {Proposed, Bootstrap(o2, "bootstrap.propose", 1, "bootstrap")},
     {Proposed, Bootstrap(o3, "bootstrap.accept", 2, o3)}}
    \cup {{Update(o1, Ready, Active), r} :
             r \in {Update(o2, Active, Value("done", 3)), Cancel(o3, Active),
                    Cancel(o2, Ready)}}
MCRequests == UNION Pairs
\* two operations in a run of the model
Paired ==
    LET begun == {journal[o].request : o \in {o \in MCOperations : journal[o].state # "absent"}}
    IN  \E pair \in Pairs : begun \subseteq pair
\* one mishap in a run: a death, or another init
OneMishap == abandoned = 1 => source = 1
\* one operation is raced by itself or by another one
OneRace ==
    (\E x, y \in {x1, x2} : x # y /\ exec[x].req # NoRequest /\ exec[x].req = exec[y].req)
        => Cardinality({o \in MCOperations : journal[o].state # "absent"}) = 1
MCSymmetry == Permutations({x1, x2})
=============================================================================
