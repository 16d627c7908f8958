------------------------------ MODULE Documents ------------------------------
(***************************************************************************)
(* The document commands of a repository (researchctl doc ...) and the gate   *)
(* that keeps its default branch's documents in order.                      *)
(*                                                                         *)
(* Every branch has a working tree its authors edit at any moment.  The      *)
(* commands read a file, decide, and write later without a lock; the site     *)
(* manifest reads the tree file by file, lints it again and reads it again;   *)
(* a branch is merged when the lint of its exact head passes against the      *)
(* base its check was given.  The bytes of a file are a record that tells     *)
(* who may have written it and what the lints look at.                       *)
(***************************************************************************)
EXTENDS Naturals, Sequences

CONSTANTS
    Branches,
    Pages, Sources, Renders,     \* ordinary Markdown, canonical YAML, its Markdown
    Guide, Index, Owners,        \* agent guide, generated index, CODEOWNERS
    RenderOf,                    \* [Sources -> Renders]
    Walk,                        \* the order in which the files are read
    Policies, NoPolicy, Broken,  \* Broken: a guide whose managed markers do not pair
    Version, Below, Covered, Structured, Indexed, Owned,   \* what a policy says
    Legacy,                      \* and what a version 1 policy leaves as it is
    Locks, Links,                \* what an author's page may declare
    Faults,                      \* what may be wrong with an author's source
    StartPolicies, StartLocked,  \* what the repository begins with
    MaxEdits, MaxCommits, MaxCommands   \* bounds of the edits, commits and commands

Paths == Pages \cup Sources \cup Renders \cup {Guide, Index, Owners}
Markdown == Pages \cup Renders \cup {Index}

ASSUME DocumentsAssumption ==
    /\ RenderOf \in [Sources -> Renders]
    /\ Version \in [Policies -> {1, 2}]
    /\ Below \in [Policies -> SUBSET (Paths \ {Guide, Owners})]
    /\ Covered \in [Policies -> SUBSET Paths]
    /\ Structured \in [Policies -> SUBSET Sources]
    /\ Legacy \in [Policies -> SUBSET (Pages \cup Sources \cup Renders)]
    /\ \A policy \in Policies : Version[policy] = 2 => Legacy[policy] = {}
    /\ NoPolicy \notin Policies
    /\ StartPolicies \subseteq Policies \cup {NoPolicy}
\* every file is read; a path is of one kind
ASSUME WalkAssumption ==
    /\ Walk \in Seq(Paths)
    /\ \A p \in Paths : \E j \in DOMAIN Walk : Walk[j] = p
ASSUME KindAssumption ==
    /\ Pages \cap Renders = {} /\ Sources \cap Markdown = {}
    /\ {Guide, Owners} \cap (Sources \cup Markdown) = {} /\ Guide # Owners
    /\ Index \notin Pages \cup Renders
\* a source and its Markdown are beside each other under one stem, so that no
\* two share it and what covers a canonical source covers its Markdown
ASSUME PairAssumption ==
    /\ \A s, t \in Sources : RenderOf[s] = RenderOf[t] => s = t
    /\ \A policy \in Policies : \A s \in Covered[policy] \cap Structured[policy] :
          RenderOf[s] \in Covered[policy]

VARIABLES
    tree,      \* a branch's working tree
    head,      \* a branch's pushed commit, the base it contains and the base its check got
    main,      \* the protected default branch
    command,   \* the document command running in a branch
    build,     \* the site manifest under construction
    edits, commits, commands

vars == <<tree, head, main, command, build, edits, commits, commands>>

Absent == [is |-> "absent"]
\* fits: the versions of the policy whose frontmatter contract the page meets
Page(n, fits, locked, to) ==
    [is |-> "page", n |-> n, fits |-> fits, locked |-> locked, to |-> to]
Source(n, fault) == [is |-> "source", n |-> n, fault |-> fault]
\* what the renderers make of a source or of a policy; whole: the body digest holds
Rendered(of) == [is |-> "render", of |-> of, whole |-> TRUE, n |-> 0]
Damaged(content, n) == [content EXCEPT !.whole = FALSE, !.n = n]
GuideFile(n, block) == [is |-> "guide", n |-> n, block |-> block]
OwnersFile(n) == [is |-> "owners", n |-> n]

Present(at) == {p \in Paths : at[p] # Absent}

-----------------------------------------------------------------------------
(* The lints of a tree.                                                      *)

\* lint_structured_pair and the pair loop of lint_document_tree: a source is
\* sound under its contract and its Markdown is what the renderer makes of it
SourceIsSound(policy, content) ==
    content.fault \in IF Version[policy] = 1 THEN {"none", "class"} ELSE {"none"}
PairAgrees(policy, at, s) ==
    SourceIsSound(policy, at[s]) /\ at[RenderOf[s]] = Rendered(at[s])

Owner(m) == {s \in Sources : RenderOf[s] = m}
Paired(policy, at, m) ==
    \E s \in (Owner(m) \cap Structured[policy]) \ Legacy[policy] : at[s] # Absent

\* the frontmatter has the fields of the version's contract and no other
PageFits(policy, content) == Version[policy] \in content.fits
PageIsSound(policy, content) == content.is = "page" /\ PageFits(policy, content)

\* version 1: a contract per route
AcceptedByRoute(policy, at, p) ==
    \/ p \in Pages /\ PageIsSound(policy, at[p])
    \/ /\ p \in Structured[policy] /\ RenderOf[p] \notin Legacy[policy]
       /\ PairAgrees(policy, at, p)
    \/ /\ p \in Renders
       /\ IF Owner(p) \cap Structured[policy] # {} THEN Paired(policy, at, p)
                                                  ELSE PageIsSound(policy, at[p])
    \/ p = Index

Claims(content) == content.is = "render"

\* version 2: Markdown that claims a renderer is generated, whatever its name
AcceptedBySection(policy, at, p) ==
    \/ p \in Structured[policy] /\ PairAgrees(policy, at, p)
    \/ p \in Sources \ Structured[policy]
    \/ p \in Markdown /\ Claims(at[p]) /\ Paired(policy, at, p)
    \/ p \in Markdown /\ PageIsSound(policy, at[p]) /\ ~Paired(policy, at, p)

\* a legacy file is passed over with a warning, so that it is no one's pair either
Accepted(policy, at, p) ==
    \/ p \in Legacy[policy]
    \/ /\ p \in Covered[policy]
       /\ IF Version[policy] = 1 THEN AcceptedByRoute(policy, at, p)
                                 ELSE AcceptedBySection(policy, at, p)

\* lint_agent_guide_targets: the one managed block is the policy's own
GuideAgrees(policy, at) == at[Guide] # Absent /\ at[Guide].block = policy
IndexAgrees(policy, at) == policy \in Indexed => at[Index] = Rendered(policy)
OwnersResolve(policy, at) == policy \in Owned => at[Owners] # Absent

Dangling(content, at) == content.is = "page" /\ \E t \in content.to : at[t] = Absent
LinksHold(policy, at) ==
    \A p \in Below[policy] \ Legacy[policy] : ~Dangling(at[p], at)

\* every finding of lint_document_tree and lint_simple_document_tree but the links'
FilesPass(policy, at) ==
    /\ Below[policy] \cap Present(at) # {}
    /\ \A p \in Below[policy] \cap Present(at) : Accepted(policy, at, p)
    /\ GuideAgrees(policy, at)
    /\ IndexAgrees(policy, at)
    /\ OwnersResolve(policy, at)
TreePasses(t) ==
    /\ t.policy # NoPolicy
    /\ FilesPass(t.policy, t.at)
    /\ LinksHold(t.policy, t.at)

HeadRoot(base, t) == Below[t.policy]   \* mutant of BaselineRoot
\* lint_locked_baseline_documents: the base's own root, whatever the head's
\* policy says; without a policy in the base, the head's
BaselineRoot(base, t) == Below[IF base.policy = NoPolicy THEN t.policy ELSE base.policy]
IsLocked(content) == content.is = "page" /\ content.locked
LockedKept(base, t) ==
    LET root == BaselineRoot(base, t)
    IN  /\ root \cap Present(base.at) = {} => base.policy = NoPolicy
        /\ \A p \in root \cap Markdown : IsLocked(base.at[p]) => t.at[p] = base.at[p]

-----------------------------------------------------------------------------
TreeOf(r) == [policy |-> r.policy, at |-> r.at]
Commit(n, t) == [n |-> n, policy |-> t.policy, at |-> t.at]
\* a pushed commit that contains the default branch as of from; its check is given base
Pushed(n, t, from, base) ==
    [n |-> n, policy |-> t.policy, at |-> t.at, from |-> from, against |-> TreeOf(base)]

\* a repository whose documents pass under their policy, or one with none yet
StartFile(policy, locked, p) ==
    CASE p \in Pages ->
            Page(0, {IF policy = NoPolicy THEN 1 ELSE Version[policy]}, p \in locked, {})
      [] p \in Sources -> Source(0, "none")
      [] p \in Renders -> Rendered(Source(0, "none"))
      [] p = Guide -> GuideFile(0, policy)
      [] p = Index -> IF policy \in Indexed THEN Rendered(policy) ELSE Absent
      [] p = Owners -> OwnersFile(0)
StartTree(policy, locked) ==
    [policy |-> policy, at |-> [p \in Paths |-> StartFile(policy, locked, p)]]

ASSUME StartAssumption ==
    \A policy \in StartPolicies \ {NoPolicy}, locked \in StartLocked :
        TreePasses(StartTree(policy, locked))

NoCommand == [step |-> "idle", path |-> NoPolicy, policy |-> NoPolicy, source |-> NoPolicy,
              from |-> Absent, put |-> Absent, saw |-> Absent, ok |-> FALSE]
NoBuild == [step |-> "idle"]

Init ==
    \E policy \in StartPolicies, locked \in StartLocked :
        LET start == StartTree(policy, locked)
            first == Commit(0, start)
        IN  /\ tree = [b \in Branches |-> start]
            /\ main = first
            /\ head = [b \in Branches |-> Pushed(0, start, first, first)]
            /\ command = [b \in Branches |-> NoCommand]
            /\ build = NoBuild
            /\ edits = 0
            /\ commits = 0
            /\ commands = 0

-----------------------------------------------------------------------------
(* The authors, and Git.                                                     *)

Building(b) == build.step \notin {"idle", "done"} /\ build.on = b

\* what the site manifest's ghosts remember of a change of the tree: the contents
\* each file has had since it began, and whether one of them has come back
Witnessed(b, at) ==
    IF ~Building(b) THEN build
    ELSE LET changed == {p \in Paths : at[p] # tree[b].at[p]}
         IN  [build EXCEPT
                !.back = @ \/ \E p \in changed : at[p] \in build.past[p],
                !.past = [p \in Paths |-> IF p \in changed THEN @[p] \cup {at[p]} ELSE @[p]]]

Becomes(b, policy, at) ==
    /\ tree' = [tree EXCEPT ![b] = [policy |-> policy, at |-> at]]
    /\ build' = Witnessed(b, at)
Put(b, p, content) == Becomes(b, tree[b].policy, [tree[b].at EXCEPT ![p] = content])

\* what an author may make of a file; n tells the texts apart
Drafts(b, p, n) ==
    CASE p \in Pages -> {Page(n, fits, locked, to) : fits \in {{1}, {2}}, locked \in Locks,
                                                    to \in Links[p]}
      [] p \in Sources -> {Source(n, fault) : fault \in Faults}
      [] p \in Renders \cup {Index} ->
            {Page(n, {2}, FALSE, {})} \cup
            IF tree[b].at[p].is = "render" THEN {Damaged(tree[b].at[p], n)} ELSE {}
      [] p = Guide ->
            {GuideFile(n, block) : block \in
                {NoPolicy, Broken, IF tree[b].at[p] = Absent THEN NoPolicy
                                                           ELSE tree[b].at[p].block}}
      [] p = Owners -> {OwnersFile(n)}

AuthorWrites(b, p) ==
    /\ edits < MaxEdits
    /\ edits' = edits + 1
    /\ \E content \in Drafts(b, p, edits + 1) : Put(b, p, content)
    /\ UNCHANGED <<head, main, command, commits, commands>>

AuthorDeletes(b, p) ==
    /\ edits < MaxEdits
    /\ tree[b].at[p] # Absent
    /\ edits' = edits + 1
    /\ Put(b, p, Absent)
    /\ UNCHANGED <<head, main, command, commits, commands>>

AuthorRestores(b, p) ==
    /\ edits < MaxEdits
    /\ tree[b].at[p] # head[b].at[p]
    /\ edits' = edits + 1
    /\ Put(b, p, head[b].at[p])
    /\ UNCHANGED <<head, main, command, commits, commands>>

AuthorAdoptsPolicy(b, policy) ==
    /\ edits < MaxEdits
    /\ policy # tree[b].policy
    /\ edits' = edits + 1
    /\ Becomes(b, policy, tree[b].at)
    /\ UNCHANGED <<head, main, command, commits, commands>>

\* git commit and push: the pull request's check gets the base of this moment
CommitAndPush(b) ==
    /\ commits < MaxCommits
    /\ tree[b] # TreeOf(head[b])
    /\ commits' = commits + 1
    /\ head' = [head EXCEPT ![b] = Pushed(commits + 1, tree[b], head[b].from, main)]
    /\ build' = IF Building(b) /\ build.step = "state" THEN [build EXCEPT !.late = TRUE]
                                                       ELSE build
    /\ UNCHANGED <<tree, main, command, edits, commands>>

\* git merge of a head and the default branch; keep: whose side a conflict is left with
Merged(old, ours, theirs, keep) ==
    IF ours = old \/ (theirs # old /\ ~keep) THEN theirs ELSE ours
Joined(b, keep) ==
    LET old == head[b].from
    IN  [policy |-> Merged(old.policy, head[b].policy, main.policy, keep),
         at |-> [p \in Paths |-> Merged(old.at[p], head[b].at[p], main.at[p], keep)]]
UpdateBranch(b) ==
    /\ commits < MaxCommits
    /\ head[b].from.n # main.n
    /\ tree[b] = TreeOf(head[b])
    /\ ~Building(b)
    /\ commits' = commits + 1
    /\ \E keep \in BOOLEAN :
        LET t == Joined(b, keep)
        IN  /\ Becomes(b, t.policy, t.at)
            /\ head' = [head EXCEPT ![b] = Pushed(commits + 1, t, main, main)]
    /\ UNCHANGED <<main, command, edits, commands>>

\* researchctl/source-tests: doc tree --baseline-project of the head, then its site manifest
SourceTestsPass(b) == TreePasses(TreeOf(head[b])) /\ LockedKept(head[b].against, TreeOf(head[b]))

\* the protected merge of a pull request; the required checks are strict
StaleToo(b) == TRUE                    \* mutant of UpToDate
UpToDate(b) == head[b].from.n = main.n
MergePull(b) ==
    /\ commits < MaxCommits
    /\ head[b].n > head[b].from.n
    /\ UpToDate(b)
    /\ SourceTestsPass(b)
    /\ commits' = commits + 1
    /\ LET new == Commit(commits + 1, Joined(b, TRUE))
       IN  /\ main' = new
           /\ head' = [head EXCEPT ![b] = Pushed(head[b].n, head[b], new, new)]
    /\ UNCHANGED <<tree, command, build, edits, commands>>

-----------------------------------------------------------------------------
(* doc render, doc index and doc agent-guide.                               *)

Idle(b) == command[b].step \in {"idle", "done"}
Starts(b, path, source, from, put) ==
    /\ Idle(b)
    /\ commands < MaxCommands
    /\ commands' = commands + 1
    /\ command' = [command EXCEPT ![b] =
            [NoCommand EXCEPT !.step = "look", !.path = path, !.policy = tree[b].policy,
                              !.source = source, !.from = from, !.put = put]]
    /\ UNCHANGED <<tree, head, main, build, edits, commits>>

\* the source is loaded and rendered under the contract of its route or section,
\* whether or not the policy lists it as legacy; version 1 takes a brief named
\* .YAML too ("name"); a refused source ends the command
RenderAcceptsAny(policy, s, content) ==   \* mutant of RenderAccepts
    s \in Covered[policy] \cap Structured[policy] /\ content # Absent
RenderAccepts(policy, s, content) ==
    /\ s \in Covered[policy] \cap Structured[policy]
    /\ content # Absent
    /\ content.fault \in IF Version[policy] = 1 THEN {"none", "name"} ELSE {"none"}
\* out: --output-file, any Markdown but the index
StartRender(b, s, out) ==
    /\ tree[b].policy # NoPolicy
    /\ RenderAccepts(tree[b].policy, s, tree[b].at[s])
    /\ Starts(b, out, s, tree[b].at[s], Rendered(tree[b].at[s]))

StartIndex(b) ==
    /\ tree[b].policy # NoPolicy /\ Version[tree[b].policy] = 1
    /\ Starts(b, Index, NoPolicy, Absent, Rendered(tree[b].policy))

StartGuide(b) ==
    /\ tree[b].policy # NoPolicy
    /\ Starts(b, Guide, NoPolicy, Absent, GuideFile(0, tree[b].policy))

Step(b, next) == command' = [command EXCEPT ![b] = next]
Ends(b, ok) == Step(b, [command[b] EXCEPT !.step = "done", !.ok = ok, !.saw = Absent])

\* permits_generated_markdown_replacement
Replaceable(content) == Claims(content) /\ content.whole

\* _write_or_echo looks at its destination
LookAtOutput(b) ==
    LET c == command[b]
        now == tree[b].at[c.path]
    IN  /\ c.step = "look" /\ c.path # Guide
        /\ IF now = c.put THEN Ends(b, TRUE)
           ELSE IF now = Absent \/ Replaceable(now)
           THEN Step(b, [c EXCEPT !.step = "write", !.saw = now])
           ELSE Ends(b, FALSE)
        /\ UNCHANGED <<tree, head, main, build, edits, commits, commands>>

\* _upsert_agent_guide reads the file it inserts its block into
LookAtGuide(b) ==
    LET c == command[b]
        now == tree[b].at[Guide]
        put == IF now = Absent THEN c.put ELSE [now EXCEPT !.block = c.policy]
    IN  /\ c.step = "look" /\ c.path = Guide
        /\ IF now = put THEN Ends(b, TRUE)
           ELSE IF now # Absent /\ now.block = Broken THEN Ends(b, FALSE)
           ELSE Step(b, [c EXCEPT !.step = "write", !.put = put, !.saw = now])
        /\ UNCHANGED <<tree, head, main, build, edits, commits, commands>>

\* O_EXCL creates what was not there; os.replace puts the rest whatever is there now
WriteOutput(b) ==
    LET c == command[b]
    IN  /\ c.step = "write"
        /\ IF c.saw = Absent /\ c.path # Guide /\ tree[b].at[c.path] # Absent
           THEN Ends(b, FALSE) /\ UNCHANGED <<tree, build>>
           ELSE Ends(b, TRUE) /\ Put(b, c.path, c.put)
        /\ UNCHANGED <<head, main, edits, commits, commands>>

CutOff(b) ==
    /\ ~Idle(b)
    /\ Step(b, NoCommand)
    /\ UNCHANGED <<tree, head, main, build, edits, commits, commands>>

-----------------------------------------------------------------------------
(* doc site-manifest: lint, read, lint again, read again, then HEAD and status. *)

Here == tree[build.on].at
Listing(at, policy) == Below[policy] \cap Present(at)
\* what a lint or a pass of reads has still to go through: listed files, and with
\* a lint the guide and CODEOWNERS beside them
Left(listed) ==
    {j \in DOMAIN Walk :
        /\ j >= build.i
        /\ \/ Walk[j] \in listed
           \/ build.step \in {"lint", "relint"} /\ Walk[j] \in {Guide, Owners}}
Unread == [p \in Paths |-> Absent]

\* the projection of a lint that the second one must reproduce
FactsOf(policy, listed, saw) ==
    [p \in listed \cup (IF policy \in Owned THEN {Owners} ELSE {}) |->
        CASE saw[p].is = "page" -> [locked |-> saw[p].locked, to |-> saw[p].to]
          [] saw[p].is = "owners" -> [owners |-> saw[p].n]
          [] OTHER -> [is |-> saw[p].is]]

BeginManifest(b) ==
    /\ build.step = "idle"
    /\ tree[b].policy # NoPolicy
    /\ build' = [step |-> "lint", on |-> b, policy |-> tree[b].policy, i |-> 1,
                 listed |-> Listing(tree[b].at, tree[b].policy), saw |-> Unread,
                 dangling |-> FALSE, facts |-> <<>>, pages |-> {}, got |-> Unread,
                 head |-> 0, clean |-> FALSE,
                 mid |-> Unread, back |-> FALSE, late |-> FALSE, final |-> Unread,
                 past |-> [p \in Paths |-> {tree[b].at[p], head[b].at[p]}]]
    /\ UNCHANGED <<tree, head, main, command, edits, commits, commands>>

Others == UNCHANGED <<tree, head, main, command, edits, commits, commands>>
Fails == build' = NoBuild
InStep(steps) == build.step \in steps
More(listed) == Left(listed) # {}
Upcoming(listed) == {j \in Left(listed) : \A k \in Left(listed) : j <= k}

\* one file of a lint; version 2 follows a page's links as it reads the page
LintFile ==
    /\ InStep({"lint", "relint"})
    /\ \E j \in Upcoming(build.listed) :
        LET now == Here[Walk[j]]
        IN  build' = [build EXCEPT !.i = j + 1, !.saw[Walk[j]] = now,
                         !.dangling = @ \/ (Version[build.policy] = 2 /\ Dangling(now, Here))]
    /\ Others

\* version 1 follows them when all is read
LintPasses ==
    /\ FilesPass(build.policy, build.saw)
    /\ \A p \in build.listed : build.saw[p] # Absent
    /\ ~build.dangling
    /\ Version[build.policy] = 1 =>
          \A p \in build.listed \ Legacy[build.policy] : ~Dangling(build.saw[p], Here)

\* version 1 lists the files anew before it reads them, version 2 reads HEAD
EndFirstLint ==
    /\ InStep({"lint"}) /\ ~More(build.listed)
    /\ IF ~LintPasses THEN Fails
       ELSE build' = [build EXCEPT
                !.step = "read", !.i = 1, !.saw = Unread, !.dangling = FALSE,
                !.head = head[build.on].n,
                !.facts = FactsOf(build.policy, build.listed, build.saw),
                !.pages = IF Version[build.policy] = 1 THEN Listing(Here, build.policy)
                                                       ELSE build.listed]
    /\ Others

ReadFile ==
    /\ InStep({"read"})
    /\ \E j \in Upcoming(build.pages) :
        IF Here[Walk[j]] = Absent THEN Fails
        ELSE build' = [build EXCEPT !.i = j + 1, !.got[Walk[j]] = Here[Walk[j]]]
    /\ Others

\* legacy YAML is read, but not published
Unpublished(policy) == Legacy[policy] \cap Sources

EndReads ==
    /\ InStep({"read"}) /\ ~More(build.pages)
    /\ LET left == Unpublished(build.policy)
       IN  build' = [build EXCEPT !.step = "relint", !.i = 1, !.mid = Here,
                         !.listed = Listing(Here, build.policy), !.pages = @ \ left,
                         !.got = [p \in Paths |-> IF p \in left THEN Absent ELSE @[p]]]
    /\ Others

\* version 1 only asks that the tree passes again, version 2 that nothing it says differs
EndSecondLint ==
    /\ InStep({"relint"}) /\ ~More(build.listed)
    /\ IF /\ LintPasses
          /\ Version[build.policy] = 2 =>
                build.facts = FactsOf(build.policy, build.listed, build.saw)
       THEN build' = [build EXCEPT !.step = "again", !.i = 1, !.saw = Unread, !.facts = <<>>,
                                   !.listed = {}]
       ELSE Fails
    /\ Others

ReadAgainOnly ==                       \* mutant of ReadAgain
    /\ InStep({"again"})
    /\ \E j \in Upcoming(build.pages) : build' = [build EXCEPT !.i = j + 1]
    /\ Others
ReadAgain ==
    /\ InStep({"again"})
    /\ \E j \in Upcoming(build.pages) :
        IF Here[Walk[j]] # build.got[Walk[j]] THEN Fails ELSE build' = [build EXCEPT !.i = j + 1]
    /\ Others

ReadHead ==
    /\ InStep({"again"}) /\ ~More(build.pages)
    /\ IF Version[build.policy] = 2 /\ head[build.on].n # build.head THEN Fails
       ELSE build' = [build EXCEPT !.step = "state", !.head = head[build.on].n,
                                   !.final = head[build.on].at]
    /\ Others

\* git status, and --require-clean
ReadStatus ==
    /\ InStep({"state"})
    /\ build' = [build EXCEPT !.step = "done", !.past = <<>>,
                              !.clean = tree[build.on] = TreeOf(head[build.on])]
    /\ Others

ManifestStep ==
    LintFile \/ EndFirstLint \/ ReadFile \/ EndReads \/ EndSecondLint \/ ReadAgain
        \/ ReadHead \/ ReadStatus

-----------------------------------------------------------------------------
Next ==
    \/ \E b \in Branches :
        \/ \E p \in Paths : AuthorWrites(b, p) \/ AuthorDeletes(b, p) \/ AuthorRestores(b, p)
        \/ \E policy \in Policies : AuthorAdoptsPolicy(b, policy)
        \/ CommitAndPush(b) \/ UpdateBranch(b) \/ MergePull(b)
        \/ \E s \in Sources, out \in Pages \cup Renders : StartRender(b, s, out)
        \/ StartIndex(b) \/ StartGuide(b)
        \/ LookAtOutput(b) \/ LookAtGuide(b) \/ WriteOutput(b) \/ CutOff(b)
        \/ BeginManifest(b)
    \/ ManifestStep

Spec == Init /\ [][Next]_vars

-----------------------------------------------------------------------------
Contents == {"absent", "page", "source", "render", "guide", "owners"}
TypeOK ==
    /\ \A b \in Branches : tree[b].policy \in Policies \cup {NoPolicy}
    /\ \A b \in Branches, p \in Paths : tree[b].at[p].is \in Contents
    /\ \A b \in Branches : head[b].n <= commits /\ head[b].from.n <= main.n /\ main.n <= commits
    /\ \A b \in Branches : command[b].step \in {"idle", "look", "write", "done"}
    /\ build.step \in {"idle", "lint", "read", "relint", "again", "state", "done"}

\* A manifest is a snapshot although every file was read by itself while the
\* authors and the commands went on: the files it names had their recorded
\* contents all at one moment, and under a version 2 policy they are all the
\* files there were.  Where none of them has returned to an earlier content.
OfOneMoment ==
    LET listed == Below[build.policy]
    IN  /\ \A p \in build.pages : build.mid[p] = build.got[p]
        /\ Version[build.policy] = 2 => build.pages = listed \cap Present(build.mid)
\* And a version 2 manifest that calls the repository clean has the files of the
\* commit it names, unless another was made between the last look at HEAD and the status.
OfItsHead ==
    Version[build.policy] = 2 /\ build.clean /\ ~build.late =>
        \A p \in Below[build.policy] : build.got[p] = build.final[p]
ManifestIsASnapshot ==
    build.step = "done" /\ ~build.back => OfOneMoment /\ OfItsHead

\* A document that the default branch has locked keeps its bytes through every
\* merge, whichever branches are merged in whichever order and whatever their
\* policies say, as long as the default branch's own policy has it in its root.
LockedIsKept ==
    [][main' # main /\ main.policy # NoPolicy =>
        \A p \in Below[main.policy] \cap Markdown :
            IsLocked(main.at[p]) => main'.at[p] = main.at[p]]_main

\* What is merged apart is sound together: the default branch's documents pass
\* the lint under the default branch's policy after every merge.
MainPasses == main.policy # NoPolicy => TreePasses(TreeOf(main))

\* A source that doc render has rendered into its Markdown does not fail the
\* tree's lint: where the command has ended well and neither the source, its
\* Markdown nor the policy has changed since it read them, the pair is accepted,
\* unless the policy lists one of the two as legacy or the source is named .YAML.
RenderedPairPasses ==
    \A b \in Branches, s \in Sources :
        LET c == command[b]
        IN  /\ c.step = "done" /\ c.ok /\ c.source = s /\ c.path = RenderOf[s]
            /\ tree[b].policy = c.policy /\ tree[b].at[s] = c.from
            /\ tree[b].at[c.path] = c.put
            /\ {s, c.path} \cap Legacy[c.policy] = {} /\ c.from.fault # "name"
            => /\ Accepted(c.policy, tree[b].at, s)
               /\ Accepted(c.policy, tree[b].at, c.path)
=============================================================================
