----------------------------- MODULE MCDocuments -----------------------------
(* Instances of Documents for TLC.                                          *)
EXTENDS Documents, FiniteSets, TLC

CONSTANTS b1, b2, p1, p2, s1, m1, guide, index, owners, route, section, moved, legacy

MCRenderOf == s1 :> m1
MCWalk == <<owners, guide, index, p1, s1, m1, p2>>
MCPolicies == {route, section, moved, legacy}
MCVersion == route :> 1 @@ section :> 2 @@ moved :> 2 @@ legacy :> 1
\* the third policy's root is the second page's directory
MCBelow == route :> {index, p1, p2, s1, m1} @@ section :> {index, p1, p2, s1, m1}
           @@ moved :> {p2} @@ legacy :> {index, p1, p2, s1, m1}
MCCovered == MCBelow
MCStructured == route :> {s1} @@ section :> {s1} @@ moved :> {} @@ legacy :> {s1}
\* the fourth policy has the source among its legacy files
MCLegacy == legacy :> {s1} @@ [policy \in MCPolicies |-> {}]
MCStartLocked == {{}, {p1}}
MCLinks == p1 :> {{}, {p2}} @@ p2 :> {{}}

Untouched(b) == tree[b] = TreeOf(head[b]) /\ head[b].n = 0
\* the branches are alike: the second one is written to when the first is pushed
FirstBranchFirst == ~Untouched(b2) => head[b1].n > 0
\* a manifest is built in the first branch, before anything is merged
SiteAlone ==
    build.step # "idle" => /\ build.on = b1 /\ Untouched(b2) /\ main.n = 0 /\ commits <= 1
                           /\ commands = 0
                           /\ build.step # "done"    \* the end of this story
                           /\ edits = MaxEdits => TreePasses(tree[b1])
                           /\ build.step = "lint" /\ build.i = 1 => edits <= 1
                           /\ Cardinality({p \in Pages : IsLocked(main.at[p])}) = 0
\* a command runs in the first branch before anything is pushed; of a repository
\* with a locked page it is the guide's
CommandsFirst ==
    \A b \in Branches : command[b].step \in {"look", "write"} =>
        /\ Untouched(b2) /\ commits = 0
        /\ command[b].path = guide \/ ~IsLocked(main.at[p1])
\* what does not pass is mended before it is pushed
PushedPasses == \A b \in Branches : head[b].n > 0 => TreePasses(TreeOf(head[b]))
=============================================================================
