---------------------------- MODULE DocumentsProofs ----------------------------
(* Documents, for any number of branches, files and policies: what is locked on *)
(* the default branch survives every merge, what is merged apart passes together, *)
(* what doc render wrote passes the lint, and a site manifest is a snapshot.      *)
EXTENDS Documents, TLAPS

\* A head that contains the whole default branch was given that very default
\* branch as its base; commits are numbered upwards.
BaseIsMain ==
    \A b \in Branches :
        /\ head[b].from.n \in Nat
        /\ head[b].from.n <= main.n
        /\ head[b].from.n = main.n =>
                head[b].from = main /\ head[b].against = TreeOf(main)
Numbered ==
    /\ commits \in Nat
    /\ main.n \in Nat
    /\ main.n <= commits
    /\ head = [b \in Branches |-> head[b]]
BaseInv == Numbered /\ BaseIsMain

LEMMA PushedFields ==
    ASSUME NEW n, NEW t, NEW from, NEW base
    PROVE  /\ Pushed(n, t, from, base).from = from
           /\ Pushed(n, t, from, base).against = TreeOf(base)
           /\ Pushed(n, t, from, base).policy = t.policy
           /\ Pushed(n, t, from, base).at = t.at
BY DEF Pushed

LEMMA CommitFields ==
    ASSUME NEW n, NEW t
    PROVE  Commit(n, t).n = n /\ Commit(n, t).policy = t.policy /\ Commit(n, t).at = t.at
BY DEF Commit

\* The merge of an up to date head is the head's own tree.
LEMMA UpToDateJoin ==
    ASSUME NEW b \in Branches, head[b].from = main, NEW p \in Paths
    PROVE  Joined(b, TRUE).at[p] = head[b].at[p]
<1>1. Joined(b, TRUE).at[p] =
         Merged(head[b].from.at[p], head[b].at[p], main.at[p], TRUE)
  BY DEF Joined
<1>2. Merged(main.at[p], head[b].at[p], main.at[p], TRUE) = head[b].at[p]
  BY DEF Merged
<1> QED BY <1>1, <1>2

-----------------------------------------------------------------------------
LEMMA BaseInit == Init => BaseInv
<1> SUFFICES ASSUME Init PROVE BaseInv
  OBVIOUS
<1>1. PICK policy \in StartPolicies, locked \in StartLocked :
        LET start == StartTree(policy, locked)
            first == Commit(0, start)
        IN  /\ main = first
            /\ head = [b \in Branches |-> Pushed(0, start, first, first)]
            /\ commits = 0
  BY DEF Init
<1>2. main.n = 0
  BY <1>1, CommitFields
<1>3. Numbered
  <2>1. head = [b \in Branches |-> head[b]]
    BY <1>1
  <2> QED BY <1>1, <1>2, <2>1 DEF Numbered
<1>4. ASSUME NEW b \in Branches
      PROVE  head[b].from = main /\ head[b].against = TreeOf(main)
  <2>1. head[b] = Pushed(0, StartTree(policy, locked), main, main)
    BY <1>1
  <2> QED BY <2>1, PushedFields
<1> QED BY <1>2, <1>3, <1>4 DEF BaseInv, BaseIsMain

\* A step that pushes nothing and merges nothing.
LEMMA BaseQuiet ==
    ASSUME BaseInv, UNCHANGED <<head, main, commits>>
    PROVE  BaseInv'
BY DEF BaseInv, BaseIsMain, Numbered

LEMMA BasePush ==
    ASSUME BaseInv, NEW b \in Branches, NEW t,
           NEW from, from = head[b].from \/ from = main,
           head' = [head EXCEPT ![b] = Pushed(commits + 1, t, from, main)],
           main' = main, commits' = commits + 1
    PROVE  BaseInv'
<1>1. Numbered'
  BY DEF BaseInv, Numbered
<1>2. ASSUME NEW c \in Branches, c # b
      PROVE  head'[c] = head[c]
  BY <1>2 DEF BaseInv, Numbered
<1>3. head'[b] = Pushed(commits + 1, t, from, main)
  BY DEF BaseInv, Numbered
<1>4. head'[b].from = from /\ head'[b].against = TreeOf(main)
  BY <1>3, PushedFields
<1>5. BaseIsMain'
  BY <1>2, <1>4 DEF BaseInv, BaseIsMain, Numbered
<1> QED BY <1>1, <1>5 DEF BaseInv

LEMMA BaseMerge ==
    ASSUME BaseInv, NEW b \in Branches, MergePull(b)
    PROVE  BaseInv'
<1> DEFINE new == Commit(commits + 1, Joined(b, TRUE))
<1>1. /\ main' = new
      /\ head' = [head EXCEPT ![b] = Pushed(head[b].n, head[b], new, new)]
      /\ commits' = commits + 1
  BY DEF MergePull
<1>2. main'.n = commits + 1
  BY <1>1, CommitFields
<1> HIDE DEF new
<1>3. Numbered'
  <2>1. head' = [c \in Branches |-> head'[c]]
    BY <1>1 DEF BaseInv, Numbered
  <2>2. commits' \in Nat /\ main'.n \in Nat /\ main'.n <= commits'
    BY <1>1, <1>2 DEF BaseInv, Numbered
  <2> QED BY <2>1, <2>2 DEF Numbered
<1>4. ASSUME NEW c \in Branches, c # b
      PROVE  head'[c] = head[c]
  BY <1>1, <1>4 DEF BaseInv, Numbered
<1>5. head'[b] = Pushed(head[b].n, head[b], main', main')
  BY <1>1 DEF BaseInv, Numbered
<1>6. head'[b].from = main' /\ head'[b].against = TreeOf(main')
  BY <1>5, PushedFields
<1>7. \A c \in Branches : c # b => head'[c].from.n < main'.n /\ head'[c].from.n \in Nat
  BY <1>2, <1>4 DEF BaseInv, BaseIsMain, Numbered
<1>8. main'.n \in Nat
  BY <1>3 DEF Numbered
<1>9. ASSUME NEW c \in Branches
      PROVE  /\ head'[c].from.n \in Nat
             /\ head'[c].from.n <= main'.n
             /\ head'[c].from.n = main'.n =>
                   head'[c].from = main' /\ head'[c].against = TreeOf(main')
  <2>1. CASE c = b
    BY <1>6, <1>8, <2>1
  <2>2. CASE c # b
    BY <1>7, <1>8, <2>2
  <2> QED BY <2>1, <2>2
<1> QED BY <1>3, <1>9 DEF BaseInv, BaseIsMain, TreeOf

-----------------------------------------------------------------------------
\* The steps that touch neither the heads nor the default branch.
Elsewhere ==
    \/ \E b \in Branches :
        \/ \E p \in Paths : AuthorWrites(b, p) \/ AuthorDeletes(b, p) \/ AuthorRestores(b, p)
        \/ \E policy \in Policies : AuthorAdoptsPolicy(b, policy)
        \/ \E s \in Sources, out \in Pages \cup Renders : StartRender(b, s, out)
        \/ StartIndex(b) \/ StartGuide(b)
        \/ LookAtOutput(b) \/ LookAtGuide(b) \/ WriteOutput(b) \/ CutOff(b)
        \/ BeginManifest(b)
    \/ ManifestStep

LEMMA NextCases ==
    Next => \/ Elsewhere
            \/ \E b \in Branches : CommitAndPush(b) \/ UpdateBranch(b) \/ MergePull(b)
BY DEF Next, Elsewhere

LEMMA ElsewhereQuiet == Elsewhere => UNCHANGED <<head, main, commits>>
<1> SUFFICES ASSUME Elsewhere PROVE UNCHANGED <<head, main, commits>>
  OBVIOUS
<1>1. CASE \E b \in Branches, p \in Paths :
              AuthorWrites(b, p) \/ AuthorDeletes(b, p) \/ AuthorRestores(b, p)
  BY <1>1 DEF AuthorWrites, AuthorDeletes, AuthorRestores
<1>2. CASE \E b \in Branches, policy \in Policies : AuthorAdoptsPolicy(b, policy)
  BY <1>2 DEF AuthorAdoptsPolicy
<1>3. CASE \E b \in Branches : \E s \in Sources, out \in Pages \cup Renders : StartRender(b, s, out)
  BY <1>3 DEF StartRender, Starts
<1>4. CASE \E b \in Branches : StartIndex(b) \/ StartGuide(b)
  BY <1>4 DEF StartIndex, StartGuide, Starts
<1>5. CASE \E b \in Branches : LookAtOutput(b)
  BY <1>5 DEF LookAtOutput
<1>6. CASE \E b \in Branches : LookAtGuide(b)
  BY <1>6 DEF LookAtGuide
<1>7. CASE \E b \in Branches : WriteOutput(b) \/ CutOff(b)
  BY <1>7 DEF WriteOutput, CutOff
<1>8. CASE \E b \in Branches : BeginManifest(b)
  BY <1>8 DEF BeginManifest
<1>9. CASE ManifestStep
  BY <1>9 DEF ManifestStep, LintFile, EndFirstLint, ReadFile, EndReads, EndSecondLint,
              ReadAgain, ReadHead, ReadStatus, Others
<1> QED BY <1>1, <1>2, <1>3, <1>4, <1>5, <1>6, <1>7, <1>8, <1>9 DEF Elsewhere

LEMMA BaseNext == BaseInv /\ [Next]_vars => BaseInv'
<1> SUFFICES ASSUME BaseInv, [Next]_vars PROVE BaseInv'
  OBVIOUS
<1>1. CASE Elsewhere
  BY <1>1, ElsewhereQuiet, BaseQuiet
<1>2. CASE \E b \in Branches : CommitAndPush(b)
  <2>1. PICK b \in Branches : CommitAndPush(b)
    BY <1>2
  <2>2. /\ head' = [head EXCEPT ![b] = Pushed(commits + 1, tree[b], head[b].from, main)]
        /\ main' = main /\ commits' = commits + 1
    BY <2>1 DEF CommitAndPush
  <2> QED BY <2>2, BasePush
<1>3. CASE \E b \in Branches : UpdateBranch(b)
  <2>1. PICK b \in Branches : UpdateBranch(b)
    BY <1>3
  <2>2. PICK keep \in BOOLEAN :
          head' = [head EXCEPT ![b] = Pushed(commits + 1, Joined(b, keep), main, main)]
    BY <2>1 DEF UpdateBranch
  <2>3. main' = main /\ commits' = commits + 1
    BY <2>1 DEF UpdateBranch
  <2> QED BY <2>2, <2>3, BasePush
<1>4. CASE \E b \in Branches : MergePull(b)
  BY <1>4, BaseMerge
<1>5. CASE UNCHANGED vars
  BY <1>5, BaseQuiet DEF vars
<1> QED BY <1>1, <1>2, <1>3, <1>4, <1>5, NextCases

\* In every reachable state a head that contains the whole default branch has been
\* checked against it: the strict required check and the event's base never part.
THEOREM BaseCorrect == Spec => []BaseInv
<1> QED BY BaseInit, BaseNext, PTL DEF Spec

-----------------------------------------------------------------------------
LockedStep ==
    main' # main /\ main.policy # NoPolicy =>
        \A p \in Below[main.policy] \cap Markdown :
            IsLocked(main.at[p]) => main'.at[p] = main.at[p]

LEMMA MergeKeepsLocked ==
    ASSUME BaseInv, NEW b \in Branches, MergePull(b), main.policy # NoPolicy,
           NEW p \in Below[main.policy] \cap Markdown, IsLocked(main.at[p])
    PROVE  main'.at[p] = main.at[p]
<1>1. head[b].from = main /\ head[b].against = TreeOf(main)
  BY DEF MergePull, UpToDate, BaseInv, BaseIsMain
<1>2. LockedKept(TreeOf(main), TreeOf(head[b]))
  BY <1>1 DEF MergePull, SourceTestsPass
<1>3. BaselineRoot(TreeOf(main), TreeOf(head[b])) = Below[main.policy]
  BY DEF BaselineRoot, TreeOf
<1>4. TreeOf(head[b]).at[p] = TreeOf(main).at[p]
  BY <1>2, <1>3 DEF LockedKept, TreeOf
<1>5. head[b].at[p] = main.at[p]
  BY <1>4 DEF TreeOf
<1>6. p \in Paths
  BY DEF Markdown, Paths
<1>7. Joined(b, TRUE).at[p] = main.at[p]
  BY <1>1, <1>5, <1>6, UpToDateJoin
<1>8. main' = Commit(commits + 1, Joined(b, TRUE))
  BY DEF MergePull
<1>9. main'.at = Joined(b, TRUE).at
  <2>1. Commit(commits + 1, Joined(b, TRUE)).at = Joined(b, TRUE).at
    BY CommitFields
  <2> QED BY <1>8, <2>1
<1> QED BY <1>7, <1>9

LEMMA LockedNext == BaseInv /\ [Next]_vars => LockedStep
<1> SUFFICES ASSUME BaseInv, [Next]_vars PROVE LockedStep
  OBVIOUS
<1>1. CASE main' = main
  BY <1>1 DEF LockedStep
<1>2. CASE \E b \in Branches : MergePull(b)
  BY <1>2, MergeKeepsLocked DEF LockedStep
<1>3. CASE \E b \in Branches : CommitAndPush(b) \/ UpdateBranch(b)
  <2>1. main' = main
    BY <1>3 DEF CommitAndPush, UpdateBranch
  <2> QED BY <1>1, <2>1
<1>4. CASE Elsewhere
  BY <1>1, <1>4, ElsewhereQuiet
<1>5. CASE UNCHANGED vars
  BY <1>1, <1>5 DEF vars
<1> QED BY <1>2, <1>3, <1>4, <1>5, NextCases

\* LockedIsKept for every value of the constants: no order of pushes, updates,
\* policy changes and merges of any number of branches releases a document that
\* the default branch has locked under its own root.
THEOREM LockedCorrect == Spec => LockedIsKept
<1>1. BaseInv /\ [Next]_vars => [LockedStep]_main
  BY LockedNext
<1>2. Spec => [][LockedStep]_main
  BY <1>1, BaseInit, BaseNext, PTL DEF Spec
<1> QED BY <1>2 DEF LockedStep, LockedIsKept

-----------------------------------------------------------------------------
\* The files of every working tree and of every head are functions on Paths.
IsTree(at) == at = [p \in Paths |-> at[p]]
Shaped ==
    /\ tree = [b \in Branches |-> tree[b]]
    /\ \A b \in Branches : IsTree(tree[b].at) /\ IsTree(head[b].at)
PassInv == BaseInv /\ Shaped /\ MainPasses

LEMMA ShapedInit == Init => Shaped
<1> SUFFICES ASSUME Init PROVE Shaped
  OBVIOUS
<1>1. PICK policy \in StartPolicies, locked \in StartLocked :
        LET start == StartTree(policy, locked)
            first == Commit(0, start)
        IN  /\ tree = [b \in Branches |-> start]
            /\ head = [b \in Branches |-> Pushed(0, start, first, first)]
  BY DEF Init
<1>2. IsTree(StartTree(policy, locked).at)
  BY DEF IsTree, StartTree
<1>3. ASSUME NEW b \in Branches
      PROVE  IsTree(tree[b].at) /\ IsTree(head[b].at)
  <2>1. tree[b] = StartTree(policy, locked)
    BY <1>1
  <2>2. head[b].at = StartTree(policy, locked).at
    BY <1>1, PushedFields
  <2> QED BY <1>2, <2>1, <2>2
<1>4. tree = [b \in Branches |-> tree[b]]
  BY <1>1
<1> QED BY <1>3, <1>4 DEF Shaped

\* A change of one working tree to a function on Paths.
LEMMA BecomesShaped ==
    ASSUME Shaped, NEW b \in Branches, NEW policy, NEW at, IsTree(at),
           Becomes(b, policy, at), head' = head
    PROVE  Shaped'
<1>1. tree' = [tree EXCEPT ![b] = [policy |-> policy, at |-> at]]
  BY DEF Becomes
<1>2. tree' = [c \in Branches |-> tree'[c]]
  BY <1>1 DEF Shaped
<1>3. ASSUME NEW c \in Branches PROVE IsTree(tree'[c].at)
  <2>1. CASE c = b
    BY <1>1, <2>1 DEF Shaped
  <2>2. CASE c # b
    BY <1>1, <2>2 DEF Shaped
  <2> QED BY <2>1, <2>2
<1> QED BY <1>2, <1>3 DEF Shaped, IsTree

LEMMA PutShaped ==
    ASSUME Shaped, NEW b \in Branches, NEW p \in Paths, NEW content, Put(b, p, content),
           head' = head
    PROVE  Shaped'
<1>1. IsTree([tree[b].at EXCEPT ![p] = content])
  BY DEF Shaped, IsTree
<1>2. Becomes(b, tree[b].policy, [tree[b].at EXCEPT ![p] = content])
  BY DEF Put
<1> QED BY <1>1, <1>2, BecomesShaped

\* One head is replaced by one whose files are a function on Paths.
LEMMA PushedShaped ==
    ASSUME Shaped, BaseInv, NEW b \in Branches, NEW new, IsTree(new.at),
           head' = [head EXCEPT ![b] = new], tree' = tree
    PROVE  Shaped'
<1>1. ASSUME NEW c \in Branches PROVE IsTree(head'[c].at)
  <2>1. CASE c = b
    BY <2>1 DEF BaseInv, Numbered
  <2>2. CASE c # b
    BY <2>2 DEF Shaped
  <2> QED BY <2>1, <2>2
<1> QED BY <1>1 DEF Shaped, IsTree

LEMMA ShapedNext == BaseInv /\ Shaped /\ [Next]_vars => Shaped'
<1> SUFFICES ASSUME BaseInv, Shaped, [Next]_vars PROVE Shaped'
  OBVIOUS
<1>1. ASSUME NEW b \in Branches, NEW p \in Paths, AuthorWrites(b, p) PROVE Shaped'
  BY <1>1, PutShaped DEF AuthorWrites
<1>2. ASSUME NEW b \in Branches, NEW p \in Paths, AuthorDeletes(b, p) PROVE Shaped'
  BY <1>2, PutShaped DEF AuthorDeletes
<1>3. ASSUME NEW b \in Branches, NEW p \in Paths, AuthorRestores(b, p) PROVE Shaped'
  BY <1>3, PutShaped DEF AuthorRestores
<1>4. ASSUME NEW b \in Branches, NEW policy \in Policies, AuthorAdoptsPolicy(b, policy)
      PROVE  Shaped'
  <2>1. Becomes(b, policy, tree[b].at) /\ head' = head
    BY <1>4 DEF AuthorAdoptsPolicy
  <2>2. IsTree(tree[b].at)
    BY DEF Shaped
  <2> QED BY <2>1, <2>2, BecomesShaped
<1>5. ASSUME NEW b \in Branches, CommitAndPush(b) PROVE Shaped'
  <2> DEFINE new == Pushed(commits + 1, tree[b], head[b].from, main)
  <2>1. head' = [head EXCEPT ![b] = new] /\ tree' = tree
    BY <1>5 DEF CommitAndPush
  <2>2. IsTree(new.at)
    BY PushedFields DEF Shaped
  <2> QED BY <2>1, <2>2, PushedShaped
<1>6. ASSUME NEW b \in Branches, UpdateBranch(b) PROVE Shaped'
  <2>1. PICK keep \in BOOLEAN :
          /\ Becomes(b, Joined(b, keep).policy, Joined(b, keep).at)
          /\ head' = [head EXCEPT ![b] = Pushed(commits + 1, Joined(b, keep), main, main)]
    BY <1>6 DEF UpdateBranch
  <2>2. IsTree(Joined(b, keep).at)
    BY DEF IsTree, Joined
  <2>3. tree' = [tree EXCEPT ![b] =
                    [policy |-> Joined(b, keep).policy, at |-> Joined(b, keep).at]]
    BY <2>1 DEF Becomes
  <2>4. tree' = [c \in Branches |-> tree'[c]]
    BY <2>3 DEF Shaped
  <2>5. Pushed(commits + 1, Joined(b, keep), main, main).at = Joined(b, keep).at
    BY PushedFields
  <2>6. ASSUME NEW c \in Branches PROVE IsTree(tree'[c].at) /\ IsTree(head'[c].at)
    <3>1. CASE c = b
      <4>1. tree'[c].at = Joined(b, keep).at
        BY <2>3, <3>1 DEF Shaped
      <4>2. head'[c].at = Joined(b, keep).at
        BY <2>1, <2>5, <3>1 DEF BaseInv, Numbered
      <4> QED BY <2>2, <4>1, <4>2
    <3>2. CASE c # b
      <4>1. tree'[c] = tree[c] /\ head'[c] = head[c]
        BY <2>1, <2>3, <3>2 DEF Shaped, BaseInv, Numbered
      <4> QED BY <4>1 DEF Shaped
    <3> QED BY <3>1, <3>2
  <2> QED BY <2>4, <2>6 DEF Shaped, IsTree
<1>7. ASSUME NEW b \in Branches, MergePull(b) PROVE Shaped'
  <2>1. PICK new : /\ head' = [head EXCEPT ![b] = Pushed(head[b].n, head[b], new, new)]
                   /\ tree' = tree
    BY <1>7 DEF MergePull
  <2>2. IsTree(Pushed(head[b].n, head[b], new, new).at)
    BY PushedFields DEF Shaped
  <2> QED BY <2>1, <2>2, PushedShaped
<1>8. ASSUME NEW b \in Branches, WriteOutput(b) PROVE Shaped'
  <2>1. head' = head
    BY <1>8 DEF WriteOutput
  <2>2. CASE tree' = tree
    BY <2>1, <2>2 DEF Shaped
  <2>3. CASE Put(b, command[b].path, command[b].put)
    <3>1. IsTree([tree[b].at EXCEPT ![command[b].path] = command[b].put])
      BY DEF Shaped, IsTree
    <3>2. Becomes(b, tree[b].policy, [tree[b].at EXCEPT ![command[b].path] = command[b].put])
      BY <2>3 DEF Put
    <3> QED BY <2>1, <3>1, <3>2, BecomesShaped
  <2> QED BY <1>8, <2>2, <2>3 DEF WriteOutput
<1>9. ASSUME tree' = tree, head' = head PROVE Shaped'
  BY <1>9 DEF Shaped
<1>10. ASSUME NEW b \in Branches,
              \/ \E s \in Sources, out \in Pages \cup Renders : StartRender(b, s, out)
              \/ StartIndex(b) \/ StartGuide(b)
       PROVE  tree' = tree /\ head' = head
  BY <1>10 DEF StartRender, StartIndex, StartGuide, Starts
<1>11. ASSUME NEW b \in Branches, LookAtOutput(b) \/ LookAtGuide(b)
       PROVE  tree' = tree /\ head' = head
  <2>1. CASE LookAtOutput(b)
    BY <2>1 DEF LookAtOutput
  <2>2. CASE LookAtGuide(b)
    BY <2>2 DEF LookAtGuide
  <2> QED BY <1>11, <2>1, <2>2
<1>12. ASSUME NEW b \in Branches, CutOff(b) \/ BeginManifest(b)
       PROVE  tree' = tree /\ head' = head
  BY <1>12 DEF CutOff, BeginManifest
<1>13. ASSUME ManifestStep PROVE tree' = tree /\ head' = head
  BY <1>13 DEF ManifestStep, LintFile, EndFirstLint, ReadFile, EndReads, EndSecondLint,
               ReadAgain, ReadHead, ReadStatus, Others
<1>14. ASSUME UNCHANGED vars PROVE tree' = tree /\ head' = head
  BY <1>14 DEF vars
<1> QED BY <1>1, <1>2, <1>3, <1>4, <1>5, <1>6, <1>7, <1>8, <1>9, <1>10, <1>11, <1>12,
           <1>13, <1>14 DEF Next

\* What is merged is the head's own tree, which passes.
LEMMA MergePasses ==
    ASSUME BaseInv, Shaped, NEW b \in Branches, MergePull(b)
    PROVE  MainPasses'
<1>1. head[b].from = main
  BY DEF MergePull, UpToDate, BaseInv, BaseIsMain
<1>2. TreePasses(TreeOf(head[b]))
  BY DEF MergePull, SourceTestsPass
<1>3. main' = Commit(commits + 1, Joined(b, TRUE))
  BY DEF MergePull
<1>4. main'.policy = Joined(b, TRUE).policy /\ main'.at = Joined(b, TRUE).at
  <2>1. /\ Commit(commits + 1, Joined(b, TRUE)).policy = Joined(b, TRUE).policy
        /\ Commit(commits + 1, Joined(b, TRUE)).at = Joined(b, TRUE).at
    BY CommitFields
  <2> QED BY <1>3, <2>1
<1>5. Joined(b, TRUE).policy = head[b].policy
  BY <1>1 DEF Joined, Merged
<1>6. Joined(b, TRUE).at = head[b].at
  <2>1. \A p \in Paths : Joined(b, TRUE).at[p] = head[b].at[p]
    BY <1>1, UpToDateJoin
  <2>2. IsTree(Joined(b, TRUE).at) /\ IsTree(head[b].at)
    BY DEF IsTree, Joined, Shaped
  <2> QED BY <2>1, <2>2 DEF IsTree
<1>7. TreeOf(main') = TreeOf(head[b])
  BY <1>4, <1>5, <1>6 DEF TreeOf
<1>8. TreePasses(TreeOf(main'))
  BY <1>2, <1>7
<1> QED BY <1>8 DEF MainPasses

LEMMA PassesInit == Init => MainPasses
<1> SUFFICES ASSUME Init, main.policy # NoPolicy PROVE TreePasses(TreeOf(main))
  BY DEF MainPasses
<1>1. PICK policy \in StartPolicies, locked \in StartLocked :
          main = Commit(0, StartTree(policy, locked))
  BY DEF Init
<1>2. TreeOf(main) = StartTree(policy, locked) /\ main.policy = policy
  BY <1>1 DEF Commit, TreeOf, StartTree
<1> QED BY <1>2, StartAssumption

LEMMA PassesNext == BaseInv /\ Shaped /\ MainPasses /\ [Next]_vars => MainPasses'
<1> SUFFICES ASSUME BaseInv, Shaped, MainPasses, [Next]_vars PROVE MainPasses'
  OBVIOUS
<1>1. CASE main' = main
  BY <1>1 DEF MainPasses
<1>2. CASE \E b \in Branches : MergePull(b)
  BY <1>2, MergePasses
<1>3. CASE \E b \in Branches : CommitAndPush(b) \/ UpdateBranch(b)
  <2>1. main' = main
    BY <1>3 DEF CommitAndPush, UpdateBranch
  <2> QED BY <1>1, <2>1
<1>4. CASE Elsewhere
  BY <1>1, <1>4, ElsewhereQuiet
<1>5. CASE UNCHANGED vars
  BY <1>1, <1>5 DEF vars
<1> QED BY <1>2, <1>3, <1>4, <1>5, NextCases

\* MainPasses for every value of the constants: the default branch passes its own
\* lint after every merge, though each pull request was checked by itself.
THEOREM PassesCorrect == Spec => []MainPasses
<1>1. Init => PassInv
  BY BaseInit, ShapedInit, PassesInit DEF PassInv
<1>2. PassInv /\ [Next]_vars => PassInv'
  BY BaseNext, ShapedNext, PassesNext DEF PassInv
<1>3. PassInv => MainPasses
  BY DEF PassInv
<1> QED BY <1>1, <1>2, <1>3, PTL DEF Spec
-----------------------------------------------------------------------------
\* The policies of working trees, heads and the default branch.
Known == Policies \cup {NoPolicy}
PoliciesFit ==
    /\ tree = [b \in Branches |-> tree[b]] /\ head = [b \in Branches |-> head[b]]
    /\ \A b \in Branches : tree[b].policy \in Known /\ head[b].policy \in Known
    /\ main.policy \in Known

LEMMA PoliciesInit == Init => PoliciesFit
<1> SUFFICES ASSUME Init PROVE PoliciesFit
  OBVIOUS
<1>1. PICK policy \in StartPolicies, locked \in StartLocked :
        LET start == StartTree(policy, locked)
            first == Commit(0, start)
        IN  /\ tree = [b \in Branches |-> start]
            /\ main = first
            /\ head = [b \in Branches |-> Pushed(0, start, first, first)]
  BY DEF Init
<1>2. policy \in Known /\ StartTree(policy, locked).policy = policy
  BY DocumentsAssumption DEF Known, StartTree
<1> QED BY <1>1, <1>2, CommitFields, PushedFields DEF PoliciesFit

LEMMA TreeChanges ==
    ASSUME PoliciesFit, NEW b \in Branches, NEW policy \in Known, NEW at,
           Becomes(b, policy, at)
    PROVE  /\ tree' = [c \in Branches |-> tree'[c]]
           /\ \A c \in Branches : tree'[c].policy \in Known
<1>1. tree' = [tree EXCEPT ![b] = [policy |-> policy, at |-> at]]
  BY DEF Becomes
<1>2. ASSUME NEW c \in Branches PROVE tree'[c].policy \in Known
  <2>1. CASE c = b
    BY <1>1, <2>1 DEF PoliciesFit
  <2>2. CASE c # b
    BY <1>1, <2>2 DEF PoliciesFit
  <2> QED BY <2>1, <2>2
<1> QED BY <1>1, <1>2 DEF PoliciesFit

LEMMA HeadChanges ==
    ASSUME PoliciesFit, NEW b \in Branches, NEW new, new.policy \in Known,
           head' = [head EXCEPT ![b] = new]
    PROVE  /\ head' = [c \in Branches |-> head'[c]]
           /\ \A c \in Branches : head'[c].policy \in Known
<1>1. ASSUME NEW c \in Branches PROVE head'[c].policy \in Known
  <2>1. CASE c = b
    BY <2>1 DEF PoliciesFit
  <2>2. CASE c # b
    BY <2>2 DEF PoliciesFit
  <2> QED BY <2>1, <2>2
<1> QED BY <1>1 DEF PoliciesFit

LEMMA JoinedKnown ==
    ASSUME PoliciesFit, NEW b \in Branches, NEW keep
    PROVE  Joined(b, keep).policy \in Known
BY DEF PoliciesFit, Joined, Merged

LEMMA PoliciesNext == PoliciesFit /\ [Next]_vars => PoliciesFit'
<1> SUFFICES ASSUME PoliciesFit, [Next]_vars PROVE PoliciesFit'
  OBVIOUS
<1>1. ASSUME NEW b \in Branches, NEW p \in Paths, NEW content,
             Put(b, p, content), UNCHANGED <<head, main>>
      PROVE  PoliciesFit'
  <2>1. tree[b].policy \in Known
    BY DEF PoliciesFit
  <2> QED BY <1>1, <2>1, TreeChanges DEF Put, PoliciesFit
<1>2. ASSUME NEW b \in Branches, NEW p \in Paths,
             AuthorWrites(b, p) \/ AuthorDeletes(b, p) \/ AuthorRestores(b, p)
      PROVE  PoliciesFit'
  BY <1>1, <1>2 DEF AuthorWrites, AuthorDeletes, AuthorRestores
<1>3. ASSUME NEW b \in Branches, NEW policy \in Policies, AuthorAdoptsPolicy(b, policy)
      PROVE  PoliciesFit'
  <2>1. Becomes(b, policy, tree[b].at) /\ UNCHANGED <<head, main>>
    BY <1>3 DEF AuthorAdoptsPolicy
  <2> QED BY <2>1, TreeChanges DEF PoliciesFit, Known
<1>4. ASSUME NEW b \in Branches, CommitAndPush(b) PROVE PoliciesFit'
  <2> DEFINE new == Pushed(commits + 1, tree[b], head[b].from, main)
  <2>1. head' = [head EXCEPT ![b] = new] /\ UNCHANGED <<tree, main>>
    BY <1>4 DEF CommitAndPush
  <2>2. new.policy \in Known
    BY PushedFields DEF PoliciesFit
  <2> HIDE DEF new
  <2> QED BY <2>1, <2>2, HeadChanges DEF PoliciesFit
<1>5. ASSUME NEW b \in Branches, UpdateBranch(b) PROVE PoliciesFit'
  <2>1. PICK keep \in BOOLEAN :
          /\ Becomes(b, Joined(b, keep).policy, Joined(b, keep).at)
          /\ head' = [head EXCEPT ![b] = Pushed(commits + 1, Joined(b, keep), main, main)]
    BY <1>5 DEF UpdateBranch
  <2>2. main' = main
    BY <1>5 DEF UpdateBranch
  <2>3. Pushed(commits + 1, Joined(b, keep), main, main).policy \in Known
    BY JoinedKnown, PushedFields
  <2>4. Joined(b, keep).policy \in Known
    BY JoinedKnown
  <2>5. /\ tree' = [c \in Branches |-> tree'[c]]
        /\ \A c \in Branches : tree'[c].policy \in Known
    BY <2>1, <2>4, TreeChanges
  <2>6. /\ head' = [c \in Branches |-> head'[c]]
        /\ \A c \in Branches : head'[c].policy \in Known
    BY <2>1, <2>3, HeadChanges
  <2> QED BY <2>2, <2>5, <2>6 DEF PoliciesFit
<1>6. ASSUME NEW b \in Branches, MergePull(b) PROVE PoliciesFit'
  <2> DEFINE new == Commit(commits + 1, Joined(b, TRUE))
             pushed == Pushed(head[b].n, head[b], new, new)
  <2>1. head' = [head EXCEPT ![b] = pushed] /\ main' = new /\ tree' = tree
    BY <1>6 DEF MergePull
  <2>2. new.policy \in Known
    <3>1. Joined(b, TRUE).policy \in Known
      BY JoinedKnown
    <3> QED BY <3>1 DEF Commit
  <2>3. pushed.policy \in Known
    <3>1. head[b].policy \in Known
      BY DEF PoliciesFit
    <3> QED BY <3>1 DEF Pushed
  <2> HIDE DEF new, pushed
  <2>4. /\ head' = [c \in Branches |-> head'[c]]
        /\ \A c \in Branches : head'[c].policy \in Known
    BY <2>1, <2>3, HeadChanges
  <2> QED BY <2>1, <2>2, <2>4 DEF PoliciesFit
<1>7. CASE UNCHANGED <<tree, head, main>>
  BY <1>7 DEF PoliciesFit
<1>8. ASSUME NEW b \in Branches, WriteOutput(b) PROVE PoliciesFit'
  <2>1. UNCHANGED <<head, main>>
    BY <1>8 DEF WriteOutput
  <2>2. CASE UNCHANGED <<tree, build>>
    BY <2>1, <2>2, <1>7
  <2>3. CASE Put(b, command[b].path, command[b].put)
    <3>1. tree[b].policy \in Known
      BY DEF PoliciesFit
    <3> QED BY <2>1, <2>3, <3>1, TreeChanges DEF Put, PoliciesFit
  <2> QED BY <1>8, <2>2, <2>3 DEF WriteOutput
<1>9. ASSUME NEW b \in Branches,
             \/ \E s \in Sources, out \in Pages \cup Renders : StartRender(b, s, out)
             \/ StartIndex(b) \/ StartGuide(b)
      PROVE  UNCHANGED <<tree, head, main>>
  BY <1>9 DEF StartRender, StartIndex, StartGuide, Starts
<1>10. ASSUME NEW b \in Branches, LookAtOutput(b) PROVE UNCHANGED <<tree, head, main>>
  BY <1>10 DEF LookAtOutput
<1>11. ASSUME NEW b \in Branches, LookAtGuide(b) PROVE UNCHANGED <<tree, head, main>>
  BY <1>11 DEF LookAtGuide
<1>12. ASSUME NEW b \in Branches, CutOff(b) \/ BeginManifest(b)
       PROVE  UNCHANGED <<tree, head, main>>
  BY <1>12 DEF CutOff, BeginManifest
<1>13. ASSUME ManifestStep PROVE UNCHANGED <<tree, head, main>>
  BY <1>13 DEF ManifestStep, LintFile, EndFirstLint, ReadFile, EndReads, EndSecondLint,
               ReadAgain, ReadHead, ReadStatus, Others
<1>14. ASSUME UNCHANGED vars PROVE UNCHANGED <<tree, head, main>>
  BY <1>14 DEF vars
<1> QED BY <1>2, <1>3, <1>4, <1>5, <1>6, <1>7, <1>8, <1>9, <1>10, <1>11, <1>12, <1>13,
           <1>14 DEF Next

-----------------------------------------------------------------------------
\* What a render command has read and is about to write.  It keeps both from its
\* start on, whatever happens to the files meanwhile.
CallKeys == {"step", "path", "policy", "source", "from", "put", "saw", "ok"}
CallFits(c) ==
    /\ c = [k \in CallKeys |-> c[k]]
    /\ c.step # "idle" /\ c.path \in Renders =>
          /\ RenderAccepts(c.policy, c.source, c.from)
          /\ c.put = Rendered(c.from)
          /\ c.policy \in Policies
CommandsFit ==
    /\ command = [b \in Branches |-> command[b]]
    /\ \A b \in Branches : CallFits(command[b])

LEMMA CommandBegins ==
    ASSUME CommandsFit, NEW b \in Branches, NEW path, NEW source, NEW from, NEW put,
           Starts(b, path, source, from, put),
           path \in Renders => /\ RenderAccepts(tree[b].policy, source, from)
                              /\ put = Rendered(from)
                              /\ tree[b].policy \in Policies
    PROVE  CommandsFit'
<1> DEFINE c == [NoCommand EXCEPT !.step = "look", !.path = path, !.policy = tree[b].policy,
                                  !.source = source, !.from = from, !.put = put]
<1>1. command' = [command EXCEPT ![b] = c]
  BY DEF Starts
<1>2. /\ c.path = path /\ c.policy = tree[b].policy /\ c.source = source
      /\ c.from = from /\ c.put = put
  BY DEF NoCommand
<1>3. c = [k \in CallKeys |-> c[k]]
  BY DEF NoCommand, CallKeys
<1>4. CallFits(c)
  BY <1>2, <1>3 DEF CallFits
<1> HIDE DEF c
<1> QED BY <1>1, <1>4 DEF CommandsFit

\* A command goes on with what it has read, or is cut off.
LEMMA CommandGoesOn ==
    ASSUME CommandsFit, NEW b \in Branches, NEW c, CallFits(c),
           command' = [command EXCEPT ![b] = c]
    PROVE  CommandsFit'
BY DEF CommandsFit

LEMMA StepOn ==
    ASSUME CommandsFit, NEW b \in Branches, command[b].step # "idle", NEW step, NEW saw, NEW ok
    PROVE  /\ CallFits([command[b] EXCEPT !.step = step, !.saw = saw])
           /\ CallFits([command[b] EXCEPT !.step = step, !.ok = ok, !.saw = saw])
<1>1. CallFits(command[b])
  BY DEF CommandsFit
<1>2. CASE command[b].path \notin Renders
  BY <1>1, <1>2 DEF CallFits, CallKeys
<1>3. CASE command[b].path \in Renders
  <2>1. /\ RenderAccepts(command[b].policy, command[b].source, command[b].from)
        /\ command[b].put = Rendered(command[b].from)
        /\ command[b].policy \in Policies
    BY <1>1, <1>3 DEF CallFits
  <2> QED BY <1>1, <2>1 DEF CallFits, CallKeys
<1> QED BY <1>2, <1>3

LEMMA GuideGoesOn ==
    ASSUME CommandsFit, NEW b \in Branches, command[b].step # "idle", command[b].path = Guide,
           NEW put, NEW now
    PROVE  CallFits([command[b] EXCEPT !.step = "write", !.put = put, !.saw = now])
<1>1. CallFits(command[b])
  BY DEF CommandsFit
<1>2. Guide \notin Renders
  BY KindAssumption DEF Markdown
<1> QED BY <1>1, <1>2 DEF CallFits, CallKeys

LEMMA CommandEnds ==
    ASSUME CommandsFit, NEW b \in Branches, command[b].step # "idle", NEW ok, Ends(b, ok)
    PROVE  CommandsFit'
BY StepOn, CommandGoesOn DEF Ends, Step

LEMMA CommandsInit == Init => CommandsFit
<1>1. CallFits(NoCommand)
  BY DEF CallFits, CallKeys, NoCommand
<1> QED BY <1>1 DEF Init, CommandsFit

LEMMA CommandsNext == PoliciesFit /\ CommandsFit /\ [Next]_vars => CommandsFit'
<1> SUFFICES ASSUME PoliciesFit, CommandsFit, [Next]_vars PROVE CommandsFit'
  OBVIOUS
<1>1. CASE UNCHANGED command
  BY <1>1 DEF CommandsFit
<1>2. ASSUME NEW b \in Branches, NEW s \in Sources, NEW out \in Pages \cup Renders,
             StartRender(b, s, out)
      PROVE  CommandsFit'
  <2>1. tree[b].policy \in Policies
    BY <1>2 DEF StartRender, PoliciesFit, Known
  <2>2. /\ RenderAccepts(tree[b].policy, s, tree[b].at[s])
        /\ Starts(b, out, s, tree[b].at[s], Rendered(tree[b].at[s]))
    BY <1>2 DEF StartRender
  <2> QED BY <2>1, <2>2, CommandBegins
<1>3. ASSUME NEW b \in Branches, StartIndex(b)
      PROVE  CommandsFit'
  <2>1. Index \notin Renders
    BY KindAssumption
  <2> QED BY <1>3, <2>1, CommandBegins DEF StartIndex
<1>4. ASSUME NEW b \in Branches, StartGuide(b)
      PROVE  CommandsFit'
  <2>1. Guide \notin Renders
    BY KindAssumption DEF Markdown
  <2> QED BY <1>4, <2>1, CommandBegins DEF StartGuide
<1>5. ASSUME NEW b \in Branches, LookAtOutput(b)
      PROVE  CommandsFit'
  <2>1. command[b].step # "idle"
    BY <1>5 DEF LookAtOutput
  <2>2. \/ \E ok : Ends(b, ok)
        \/ \E now : Step(b, [command[b] EXCEPT !.step = "write", !.saw = now])
    BY <1>5 DEF LookAtOutput
  <2>3. ASSUME NEW now, Step(b, [command[b] EXCEPT !.step = "write", !.saw = now])
        PROVE  CommandsFit'
    BY <2>1, <2>3, StepOn, CommandGoesOn DEF Step
  <2> QED BY <2>1, <2>2, <2>3, CommandEnds
<1>6. ASSUME NEW b \in Branches, LookAtGuide(b)
      PROVE  CommandsFit'
  <2>1. command[b].step # "idle" /\ command[b].path = Guide
    BY <1>6 DEF LookAtGuide
  <2>2. \/ \E ok : Ends(b, ok)
        \/ \E put, now : Step(b, [command[b] EXCEPT !.step = "write", !.put = put, !.saw = now])
    BY <1>6 DEF LookAtGuide
  <2>3. ASSUME NEW put, NEW now,
               Step(b, [command[b] EXCEPT !.step = "write", !.put = put, !.saw = now])
        PROVE  CommandsFit'
    BY <2>1, <2>3, GuideGoesOn, CommandGoesOn DEF Step
  <2> QED BY <2>1, <2>2, <2>3, CommandEnds
<1>7. ASSUME NEW b \in Branches, WriteOutput(b)
      PROVE  CommandsFit'
  <2>1. command[b].step # "idle" /\ \E ok : Ends(b, ok)
    BY <1>7 DEF WriteOutput
  <2> QED BY <2>1, CommandEnds
<1>8. ASSUME NEW b \in Branches, CutOff(b)
      PROVE  CommandsFit'
  <2>1. CallFits(NoCommand)
    BY DEF CallFits, CallKeys, NoCommand
  <2> QED BY <1>8, <2>1, CommandGoesOn DEF CutOff, Step
<1>9. ASSUME NEW b \in Branches, NEW p \in Paths,
             AuthorWrites(b, p) \/ AuthorDeletes(b, p) \/ AuthorRestores(b, p)
      PROVE  UNCHANGED command
  BY <1>9 DEF AuthorWrites, AuthorDeletes, AuthorRestores
<1>10. ASSUME NEW b \in Branches, NEW policy \in Policies, AuthorAdoptsPolicy(b, policy)
       PROVE  UNCHANGED command
  BY <1>10 DEF AuthorAdoptsPolicy
<1>11. ASSUME NEW b \in Branches,
              CommitAndPush(b) \/ UpdateBranch(b) \/ MergePull(b) \/ BeginManifest(b)
       PROVE  UNCHANGED command
  BY <1>11 DEF CommitAndPush, UpdateBranch, MergePull, BeginManifest
<1>12. ASSUME ManifestStep PROVE UNCHANGED command
  BY <1>12 DEF ManifestStep, LintFile, EndFirstLint, ReadFile, EndReads, EndSecondLint,
               ReadAgain, ReadHead, ReadStatus, Others
<1>13. ASSUME UNCHANGED vars PROVE UNCHANGED command
  BY <1>13 DEF vars
<1> QED BY <1>1, <1>2, <1>3, <1>4, <1>5, <1>6, <1>7, <1>8, <1>9, <1>10, <1>11, <1>12,
           <1>13 DEF Next

\* RenderedPairPasses for every value of the constants: whatever the command has
\* accepted to render, the tree's lint accepts with its Markdown, under either
\* version of the contract.  Two pairs are excepted: one that a version 1 policy
\* lists as legacy, and a brief named .YAML, whose Markdown the lint disowns.
THEOREM RenderedCorrect == Spec => []RenderedPairPasses
<1>1. CommandsFit => RenderedPairPasses
  <2> SUFFICES ASSUME CommandsFit, NEW b \in Branches, NEW s \in Sources,
                      command[b].step = "done", command[b].source = s,
                      command[b].path = RenderOf[s],
                      tree[b].at[s] = command[b].from,
                      tree[b].at[command[b].path] = command[b].put,
                      {s, RenderOf[s]} \cap Legacy[command[b].policy] = {},
                      tree[b].at[s].fault # "name"
               PROVE  /\ Accepted(command[b].policy, tree[b].at, s)
                      /\ Accepted(command[b].policy, tree[b].at, command[b].path)
    BY DEF RenderedPairPasses
  <2> DEFINE policy == command[b].policy
             at == tree[b].at
  <2>1. RenderOf[s] \in Renders
    BY DocumentsAssumption
  <2>2. /\ RenderAccepts(policy, s, at[s]) /\ at[RenderOf[s]] = Rendered(at[s])
        /\ policy \in Policies
    BY <2>1 DEF CommandsFit, CallFits
  <2>3. /\ s \in Covered[policy] \cap Structured[policy]
        /\ RenderOf[s] \in Covered[policy]
        /\ at[s] # Absent /\ at[s].fault = "none"
    BY <2>2, PairAssumption DEF RenderAccepts
  <2>4. PairAgrees(policy, at, s)
    BY <2>2, <2>3 DEF PairAgrees, SourceIsSound
  <2>5. s \in Owner(RenderOf[s])
    BY DEF Owner
  <2>6. Paired(policy, at, RenderOf[s])
    BY <2>3, <2>5 DEF Paired
  <2>7. Claims(at[RenderOf[s]])
    BY <2>2 DEF Claims, Rendered
  <2>8. AcceptedByRoute(policy, at, s) /\ AcceptedBySection(policy, at, s)
    BY <2>3, <2>4 DEF AcceptedByRoute, AcceptedBySection
  <2>9. AcceptedByRoute(policy, at, RenderOf[s])
    BY <2>1, <2>3, <2>5, <2>6 DEF AcceptedByRoute
  <2>10. AcceptedBySection(policy, at, RenderOf[s])
    BY <2>1, <2>6, <2>7 DEF AcceptedBySection, Markdown
  <2> QED BY <2>2, <2>3, <2>8, <2>9, <2>10 DEF Accepted
<1> QED BY <1>1, PoliciesInit, PoliciesNext, CommandsInit, CommandsNext, PTL DEF Spec

-----------------------------------------------------------------------------
\* The site manifest.  While nothing comes back, a file that is found twice with
\* the same bytes had them in between; and while the head that the manifest names
\* stays the branch's, a file that was changed differs from the head's.
Fields == {"step", "on", "policy", "i", "listed", "saw", "dangling", "facts", "pages", "got",
           "head", "clean", "mid", "back", "late", "final", "past"}
Steps == {"lint", "read", "relint", "again", "state"}
Atop == head[build.on].at

BuildTyped ==
    build.step # "idle" =>
        /\ build = [k \in Fields |-> build[k]]
        /\ build.step \in Steps \cup {"done"}
        /\ build.on \in Branches /\ build.policy \in Policies
        /\ build.i \in Nat
        /\ build.listed \subseteq Below[build.policy]
        /\ build.pages \subseteq Below[build.policy]
        /\ build.head \in Nat /\ build.head <= commits
        /\ IsTree(build.got)
        /\ build.step # "done" => build.past = [p \in Paths |-> build.past[p]]
        /\ build.back \in BOOLEAN /\ build.late \in BOOLEAN
HeadsNumbered == \A b \in Branches : head[b].n \in Nat /\ head[b].n <= commits

\* What the tree and the head have is among what they had.
Remembered ==
    build.step \in Steps =>
        \A p \in Paths : Here[p] \in build.past[p] /\ Atop[p] \in build.past[p]

\* The files that the pass of reads, or the second one, has gone through.
Behind == {Walk[j] : j \in {k \in DOMAIN Walk : k < build.i}} \cap build.pages

ReadsFit ==
    /\ build.step \in Steps \cup {"done"} =>
          \A p \in Paths \ build.pages : build.got[p] = Absent
    /\ build.step = "lint" => build.pages = {}
    /\ build.step = "read" => \A p \in Behind : build.got[p] \in build.past[p]
    /\ build.step \in {"relint", "again", "state"} =>
          \A p \in build.pages : build.got[p] \in build.past[p]

Listed == Below[build.policy] \cap Present(build.mid)
Bound == Version[build.policy] = 2
Beside == IF build.policy \in Owned THEN {Owners} ELSE {}
MomentFits ==
    /\ build.step \in {"read", "relint"} /\ Bound => DOMAIN build.facts = build.pages \cup Beside
    /\ build.step \in {"relint", "again", "state"} /\ ~build.back =>
          \A p \in build.pages : Here[p] = build.got[p] => build.mid[p] = build.got[p]
    /\ build.step = "relint" => build.listed = Listed
    /\ build.step \in {"again", "state", "done"} /\ Bound => build.pages = Listed
    /\ build.step = "again" /\ ~build.back => \A p \in Behind : build.mid[p] = build.got[p]
    /\ build.step \in {"state", "done"} /\ ~build.back =>
          \A p \in build.pages : build.mid[p] = build.got[p]

\* The head that the manifest names is the branch's still.
Same == IF build.step = "state" THEN ~build.late ELSE head[build.on].n = build.head
KeepsOrLeaves(p, content) == Here[p] = content \/ Here[p] # Atop[p]
HeadFits ==
    /\ build.step \in {"relint", "again", "state"} /\ Bound /\ ~build.back /\ Same =>
          \A p \in Below[build.policy] \ Present(build.mid) : KeepsOrLeaves(p, Absent)
    /\ build.step = "again" /\ Bound /\ ~build.back /\ Same =>
          \A p \in Behind : KeepsOrLeaves(p, build.got[p])
    /\ build.step = "state" /\ Bound /\ ~build.back /\ Same =>
          \A p \in build.pages : KeepsOrLeaves(p, build.got[p])
    /\ build.step = "state" /\ Bound /\ Same => build.final = Atop
    /\ build.step = "done" => ManifestIsASnapshot
BuildFits == BuildTyped /\ Remembered /\ ReadsFit /\ MomentFits /\ HeadFits
Standing == BaseInv /\ Shaped /\ PoliciesFit /\ HeadsNumbered

\* What the others may do while a manifest is built.
Moves ==
    /\ build.step \in Steps
    /\ build' = [k \in Fields |-> build'[k]]
    /\ build'.step = build.step /\ build'.on = build.on /\ build'.policy = build.policy
    /\ build'.i = build.i /\ build'.listed = build.listed /\ build'.pages = build.pages
    /\ build'.got = build.got /\ build'.head = build.head /\ build'.mid = build.mid
    /\ build'.final = build.final /\ build'.facts = build.facts
    /\ build'.past = [p \in Paths |-> build'.past[p]]
    /\ build'.back \in BOOLEAN /\ build'.late \in BOOLEAN
    /\ build.back => build'.back
    /\ commits' \in Nat /\ commits <= commits'
    /\ \A p \in Paths :
          /\ build.past[p] \subseteq build'.past[p]
          /\ \/ Here'[p] = Here[p]
             \/ /\ Here'[p] \in build'.past[p]
                /\ build'.back \/ Here'[p] \notin build.past[p]
    /\ \/ head'[build.on].n = head[build.on].n /\ Atop' = Atop /\ build'.late = build.late
       \/ /\ head'[build.on].n > build.head /\ Atop' = Here /\ Here' = Here
          /\ build.step = "state" => build'.late

LEMMA BelowPaths ==
    ASSUME NEW policy \in Policies
    PROVE  Below[policy] \subseteq Paths
BY DocumentsAssumption

LEMMA TypedMoves ==
    ASSUME BuildFits, Standing, Moves
    PROVE  BuildTyped'
BY DEF BuildFits, BuildTyped, Standing, BaseInv, Numbered, Moves, Steps, IsTree

LEMMA RememberedMoves ==
    ASSUME BuildFits, Moves
    PROVE  Remembered'
<1> SUFFICES ASSUME NEW p \in Paths
             PROVE  Here'[p] \in build'.past[p] /\ Atop'[p] \in build'.past[p]
  BY DEF Remembered
<1>1. Here[p] \in build.past[p] /\ Atop[p] \in build.past[p]
  BY DEF BuildFits, Remembered, Moves
<1>2. build.past[p] \subseteq build'.past[p]
  BY DEF Moves
<1>3. Here'[p] \in build'.past[p]
  BY <1>1, <1>2 DEF Moves
<1>4. Atop'[p] \in build'.past[p]
  BY <1>1, <1>2 DEF Moves
<1> QED BY <1>3, <1>4

LEMMA ReadsMoves ==
    ASSUME BuildFits, Moves
    PROVE  ReadsFit'
<1>1. Behind' = Behind
  BY DEF Behind, Moves
<1>2. build.pages \subseteq Paths /\ Behind \subseteq Paths
  BY BelowPaths DEF BuildFits, BuildTyped, Moves, Steps, Behind
<1> QED BY <1>1, <1>2 DEF BuildFits, ReadsFit, Moves

LEMMA MomentMoves ==
    ASSUME BuildFits, Moves
    PROVE  MomentFits'
<1>1. Behind' = Behind /\ Listed' = Listed /\ Bound' = Bound /\ Beside' = Beside
  BY DEF Behind, Listed, Bound, Beside, Moves
<1>2. build.pages \subseteq Paths /\ Behind \subseteq Paths
  BY BelowPaths DEF BuildFits, BuildTyped, Moves, Steps, Behind
<1>3. ~build'.back => ~build.back
  BY DEF Moves
<1>4. ASSUME build.step \in {"relint", "again", "state"}, ~build'.back,
             NEW p \in build.pages, Here'[p] = build.got[p]
      PROVE  build.mid[p] = build.got[p]
  <2>1. build.got[p] \in build.past[p]
    BY <1>4 DEF BuildFits, ReadsFit
  <2>2. Here[p] = build.got[p]
    BY <1>2, <1>4, <2>1 DEF Moves
  <2> QED BY <1>3, <1>4, <2>2 DEF BuildFits, MomentFits
<1> QED BY <1>1, <1>3, <1>4 DEF BuildFits, MomentFits, Moves

LEMMA HeadMoves ==
    ASSUME BuildFits, Moves
    PROVE  HeadFits'
<1>1. /\ Behind' = Behind /\ Bound' = Bound
      /\ Present(build'.mid) = Present(build.mid)
  BY DEF Behind, Bound, Present, Moves
<1>2. /\ Below[build.policy] \subseteq Paths
      /\ build.pages \subseteq Paths /\ Behind \subseteq Paths
  BY BelowPaths DEF BuildFits, BuildTyped, Moves, Steps, Behind
<1>3. ~build'.back => ~build.back
  BY DEF Moves
<1>4. /\ Same' => Same
      /\ build.step \in {"read", "relint", "again", "state"} /\ Same' => Atop' = Atop
  <2>1. CASE head'[build.on].n = head[build.on].n /\ Atop' = Atop /\ build'.late = build.late
    BY <2>1 DEF Same, Moves
  <2>2. CASE /\ head'[build.on].n > build.head
             /\ build.step = "state" => build'.late
    <3>1. build.head \in Nat
      BY DEF BuildFits, BuildTyped, Moves, Steps
    <3>2. ~Same'
      BY <2>2, <3>1 DEF Same, Moves
    <3> QED BY <3>2
  <2> QED BY <2>1, <2>2 DEF Moves
<1>5. ASSUME build.step \in {"relint", "again", "state"}, ~build'.back, Same',
             NEW p \in Paths, NEW content, KeepsOrLeaves(p, content)
      PROVE  Here'[p] = content \/ Here'[p] # Atop'[p]
  <2>1. Atop[p] \in build.past[p]
    BY DEF BuildFits, Remembered, Moves
  <2>2. Atop' = Atop
    BY <1>4, <1>5
  <2> QED BY <1>5, <2>1, <2>2 DEF Moves, KeepsOrLeaves
<1>6. build.step \in {"relint", "again", "state"} /\ Bound' /\ ~build'.back /\ Same' =>
          \A p \in Below[build.policy] \ Present(build.mid) :
              Here'[p] = Absent \/ Here'[p] # Atop'[p]
  BY <1>1, <1>2, <1>3, <1>4, <1>5 DEF BuildFits, HeadFits
<1>7. build.step = "again" /\ Bound' /\ ~build'.back /\ Same' =>
          \A p \in Behind : Here'[p] = build.got[p] \/ Here'[p] # Atop'[p]
  BY <1>1, <1>2, <1>3, <1>4, <1>5 DEF BuildFits, HeadFits
<1>8. build.step = "state" /\ Bound' /\ ~build'.back /\ Same' =>
          \A p \in build.pages : Here'[p] = build.got[p] \/ Here'[p] # Atop'[p]
  BY <1>1, <1>2, <1>3, <1>4, <1>5 DEF BuildFits, HeadFits
<1>9. build.step = "state" /\ Bound' /\ Same' => build'.final = Atop'
  BY <1>1, <1>4 DEF BuildFits, HeadFits, Moves
<1>10. build'.step = build.step /\ build.step # "done" /\ build'.policy = build.policy
       /\ build'.pages = build.pages /\ build'.got = build.got
  BY DEF Moves, Steps
<1> QED BY <1>1, <1>6, <1>7, <1>8, <1>9, <1>10 DEF HeadFits, KeepsOrLeaves

LEMMA BuildMoves ==
    ASSUME BuildFits, Standing, Moves
    PROVE  BuildFits'
BY TypedMoves, RememberedMoves, ReadsMoves, MomentMoves, HeadMoves DEF BuildFits

\* Nothing that concerns the manifest, or its branch.
LEMMA Unmoved ==
    ASSUME BuildFits, Standing, build.step \in Steps,
           build' = build, tree'[build.on].at = Here,
           head'[build.on].at = Atop, head'[build.on].n = head[build.on].n,
           commits' \in Nat, commits <= commits'
    PROVE  Moves
<1>1. Here' = Here /\ Atop' = Atop
  BY DEF Here, Atop
<1>2. /\ build = [k \in Fields |-> build[k]]
      /\ build.past = [p \in Paths |-> build.past[p]]
      /\ build.back \in BOOLEAN /\ build.late \in BOOLEAN
  BY DEF BuildFits, BuildTyped, Steps
<1> QED BY <1>1, <1>2 DEF Moves

LEMMA WitnessedMoves ==
    ASSUME BuildFits, Standing, build.step \in Steps, NEW b \in Branches,
           NEW policy, NEW at, Becomes(b, policy, at), head' = head,
           commits' = commits
    PROVE  Moves
<1>0. commits \in Nat /\ commits <= commits
  BY DEF Standing, BaseInv, Numbered
<1>1. tree' = [tree EXCEPT ![b] = [policy |-> policy, at |-> at]]
      /\ build' = Witnessed(b, at)
  BY DEF Becomes
<1>2. build.on \in Branches /\ tree = [c \in Branches |-> tree[c]]
  BY DEF BuildFits, BuildTyped, Standing, Shaped, Steps
<1>3. CASE b # build.on
  <2>1. build' = build
    BY <1>1, <1>3 DEF Witnessed, Building
  <2>2. tree'[build.on] = tree[build.on]
    BY <1>1, <1>2, <1>3
  <2> QED BY <1>0, <2>1, <2>2, Unmoved DEF Here, Atop
<1>4. CASE b = build.on
  <2> DEFINE changed == {p \in Paths : at[p] # tree[b].at[p]}
  <2>1. Building(b)
    BY <1>4 DEF Building, Steps
  <2>2. build' = [build EXCEPT
                   !.back = build.back \/ \E p \in changed : at[p] \in build.past[p],
                   !.past = [p \in Paths |-> IF p \in changed THEN build.past[p] \cup {at[p]}
                                                              ELSE build.past[p]]]
    BY <1>1, <2>1 DEF Witnessed
  <2>3. /\ build = [k \in Fields |-> build[k]]
        /\ build.back \in BOOLEAN /\ build.late \in BOOLEAN
    BY DEF BuildFits, BuildTyped, Steps
  <2>4. /\ build'.past = [p \in Paths |-> IF p \in changed THEN build.past[p] \cup {at[p]}
                                                           ELSE build.past[p]]
        /\ build'.back = (build.back \/ \E p \in changed : at[p] \in build.past[p])
    BY <2>2, <2>3 DEF Fields
  <2>5. /\ build' = [k \in Fields |-> build'[k]]
        /\ build'.step = build.step /\ build'.on = build.on /\ build'.policy = build.policy
        /\ build'.i = build.i /\ build'.listed = build.listed /\ build'.pages = build.pages
        /\ build'.got = build.got /\ build'.head = build.head /\ build'.mid = build.mid
        /\ build'.final = build.final /\ build'.late = build.late /\ build'.facts = build.facts
    BY <2>2, <2>3 DEF Fields
  <2>6. Here' = at /\ Atop' = Atop
    BY <1>1, <1>2, <1>4, <2>5 DEF Here, Atop
  <2>7. \A p \in changed : at[p] \in build.past[p] => build'.back
    BY <2>4
  <2>8. ASSUME NEW p \in Paths
        PROVE  /\ build.past[p] \subseteq build'.past[p]
               /\ \/ Here'[p] = Here[p]
                  \/ /\ Here'[p] \in build'.past[p]
                     /\ build'.back \/ Here'[p] \notin build.past[p]
    <3>1. CASE p \in changed
      <4>1. build'.past[p] = build.past[p] \cup {at[p]}
        BY <2>4, <3>1
      <4> QED BY <2>6, <2>7, <3>1, <4>1
    <3>2. CASE p \notin changed
      <4>1. build'.past[p] = build.past[p] /\ at[p] = tree[b].at[p]
        BY <2>4, <3>2
      <4> QED BY <1>4, <2>6, <4>1 DEF Here
    <3> QED BY <3>1, <3>2
  <2>9. /\ build'.past = [p \in Paths |-> build'.past[p]]
        /\ build'.back \in BOOLEAN /\ build'.late \in BOOLEAN /\ (build.back => build'.back)
    <3>1. build'.past = [p \in Paths |-> build'.past[p]]
      BY <2>4
    <3>2. build'.back \in BOOLEAN /\ (build.back => build'.back)
      BY <2>3, <2>4
    <3> QED BY <2>3, <2>5, <3>1, <3>2
  <2>10. head'[build.on].n = head[build.on].n
    OBVIOUS
  <2> HIDE DEF changed
  <2> QED BY <1>0, <2>5, <2>6, <2>8, <2>9, <2>10 DEF Moves
<1> QED BY <1>3, <1>4

LEMMA PushMoves ==
    ASSUME BuildFits, Standing, build.step \in Steps, NEW b \in Branches, CommitAndPush(b)
    PROVE  Moves
<1>1. /\ head' = [head EXCEPT ![b] = Pushed(commits + 1, tree[b], head[b].from, main)]
      /\ tree' = tree /\ commits' = commits + 1
      /\ build' = IF Building(b) /\ build.step = "state" THEN [build EXCEPT !.late = TRUE]
                                                         ELSE build
  BY DEF CommitAndPush
<1>2. /\ build.on \in Branches /\ head = [c \in Branches |-> head[c]]
      /\ commits \in Nat /\ commits' \in Nat /\ commits <= commits'
  BY <1>1 DEF BuildFits, BuildTyped, Standing, BaseInv, Numbered, Steps
<1>3. CASE b # build.on
  <2>1. build' = build
    BY <1>1, <1>3 DEF Building
  <2>2. head'[build.on] = head[build.on]
    BY <1>1, <1>2, <1>3
  <2> QED BY <1>1, <1>2, <2>1, <2>2, Unmoved DEF Here, Atop
<1>4. CASE b = build.on
  <2>1. head'[b] = Pushed(commits + 1, tree[b], head[b].from, main)
    BY <1>1, <1>2, <1>4
  <2>2. head'[b].n = commits + 1 /\ head'[b].at = tree[b].at
    BY <2>1 DEF Pushed
  <2>3. /\ build = [k \in Fields |-> build[k]]
        /\ build.past = [p \in Paths |-> build.past[p]]
        /\ build.back \in BOOLEAN /\ build.late \in BOOLEAN
        /\ build.head \in Nat /\ build.head <= commits
    BY DEF BuildFits, BuildTyped, Steps
  <2>4. /\ build' = [k \in Fields |-> build'[k]]
        /\ build'.step = build.step /\ build'.on = build.on /\ build'.policy = build.policy
        /\ build'.i = build.i /\ build'.listed = build.listed /\ build'.pages = build.pages
        /\ build'.got = build.got /\ build'.head = build.head /\ build'.mid = build.mid
        /\ build'.final = build.final /\ build'.past = build.past
        /\ build'.back = build.back /\ build'.facts = build.facts
        /\ build'.late \in BOOLEAN
        /\ build.step = "state" => build'.late
    <3>1. CASE build.step = "state"
      <4>1. build' = [build EXCEPT !.late = TRUE]
        BY <1>1, <1>4, <3>1 DEF Building
      <4> QED BY <2>3, <4>1 DEF Fields
    <3>2. CASE build.step # "state"
      <4>1. build' = build
        BY <1>1, <3>2
      <4> QED BY <2>3, <3>2, <4>1
    <3> QED BY <3>1, <3>2
  <2>5. Here' = Here /\ Atop' = Here
    BY <1>1, <1>4, <2>2, <2>4 DEF Here, Atop
  <2>6. head'[build.on].n > build.head
    BY <1>2, <1>4, <2>2, <2>3
  <2> QED BY <1>2, <2>3, <2>4, <2>5, <2>6 DEF Moves
<1> QED BY <1>3, <1>4

LEMMA UpdateMoves ==
    ASSUME BuildFits, Standing, build.step \in Steps, NEW b \in Branches, UpdateBranch(b)
    PROVE  Moves
<1>1. PICK keep \in BOOLEAN :
        /\ Becomes(b, Joined(b, keep).policy, Joined(b, keep).at)
        /\ head' = [head EXCEPT ![b] = Pushed(commits + 1, Joined(b, keep), main, main)]
  BY DEF UpdateBranch
<1>2. ~Building(b) /\ commits' = commits + 1
  BY DEF UpdateBranch
<1>3. b # build.on /\ build' = build
  BY <1>1, <1>2 DEF Becomes, Witnessed, Building, Steps
<1>4. /\ tree'[build.on] = tree[build.on]
      /\ head'[build.on] = head[build.on]
  BY <1>1, <1>3 DEF Becomes, BuildFits, BuildTyped, Standing, Shaped, BaseInv, Numbered, Steps
<1>5. commits' \in Nat /\ commits <= commits'
  BY <1>2 DEF Standing, BaseInv, Numbered
<1> QED BY <1>3, <1>4, <1>5, Unmoved DEF Here, Atop

LEMMA MergeMoves ==
    ASSUME BuildFits, Standing, build.step \in Steps, NEW b \in Branches, MergePull(b)
    PROVE  Moves
<1>1. PICK new : /\ head' = [head EXCEPT ![b] = Pushed(head[b].n, head[b], new, new)]
                 /\ tree' = tree /\ build' = build /\ commits' = commits + 1
  BY DEF MergePull
<1>2. /\ Pushed(head[b].n, head[b], new, new).n = head[b].n
      /\ Pushed(head[b].n, head[b], new, new).at = head[b].at
  BY DEF Pushed
<1>3. build.on \in Branches /\ head = [c \in Branches |-> head[c]]
  BY DEF BuildFits, BuildTyped, Standing, BaseInv, Numbered, Steps
<1>4. head'[build.on].n = head[build.on].n /\ head'[build.on].at = head[build.on].at
  <2>1. CASE b = build.on
    BY <1>1, <1>2, <1>3, <2>1
  <2>2. CASE b # build.on
    BY <1>1, <1>3, <2>2
  <2> QED BY <2>1, <2>2
<1>5. commits' \in Nat /\ commits <= commits'
  BY <1>1 DEF Standing, BaseInv, Numbered
<1> QED BY <1>1, <1>4, <1>5, Unmoved DEF Here, Atop

LEMMA HeadsInit == Init => HeadsNumbered
<1> SUFFICES ASSUME Init PROVE HeadsNumbered
  OBVIOUS
<1>1. commits = 0
  BY DEF Init
<1>2. PICK policy \in StartPolicies, locked \in StartLocked :
        LET start == StartTree(policy, locked)
            first == Commit(0, start)
        IN  head = [b \in Branches |-> Pushed(0, start, first, first)]
  BY DEF Init
<1>3. ASSUME NEW b \in Branches PROVE head[b].n \in Nat /\ head[b].n <= commits
  <2> DEFINE start == StartTree(policy, locked)
             first == Commit(0, start)
  <2>1. head[b] = Pushed(0, start, first, first)
    BY <1>2
  <2>2. Pushed(0, start, first, first).n = 0
    BY DEF Pushed
  <2>3. head[b].n = 0
    BY <2>1, <2>2
  <2> QED BY <1>1, <2>3
<1> QED BY <1>3 DEF HeadsNumbered

LEMMA HeadsNext == BaseInv /\ HeadsNumbered /\ [Next]_vars => HeadsNumbered'
<1> SUFFICES ASSUME BaseInv, HeadsNumbered, [Next]_vars PROVE HeadsNumbered'
  OBVIOUS
<1>1. CASE UNCHANGED <<head, commits>>
  BY <1>1 DEF HeadsNumbered
<1>2. ASSUME NEW b \in Branches, NEW new, new.n \in Nat, new.n <= commits + 1,
             head' = [head EXCEPT ![b] = new], commits' = commits + 1
      PROVE  HeadsNumbered'
  <2>1. /\ head = [c \in Branches |-> head[c]] /\ commits \in Nat
        /\ \A c \in Branches : head[c].n \in Nat /\ head[c].n <= commits
    BY DEF HeadsNumbered, BaseInv, Numbered
  <2>2. ASSUME NEW c \in Branches PROVE head'[c].n \in Nat /\ head'[c].n <= commits + 1
    <3>1. CASE c = b
      BY <1>2, <2>1, <3>1
    <3>2. CASE c # b
      <4>1. head'[c] = head[c]
        BY <1>2, <2>1, <3>2
      <4>2. head[c].n \in Nat /\ head[c].n <= commits
        BY <2>1
      <4> QED BY <2>1, <4>1, <4>2
    <3> QED BY <3>1, <3>2
  <2> QED BY <1>2, <2>2 DEF HeadsNumbered
<1>3. commits \in Nat /\ commits + 1 \in Nat /\ commits + 1 <= commits + 1
  BY DEF BaseInv, Numbered
<1>4. ASSUME NEW b \in Branches, CommitAndPush(b) PROVE HeadsNumbered'
  <2> DEFINE new == Pushed(commits + 1, tree[b], head[b].from, main)
  <2>1. new.n = commits + 1
    BY DEF Pushed
  <2>2. head' = [head EXCEPT ![b] = new] /\ commits' = commits + 1
    BY <1>4 DEF CommitAndPush
  <2> HIDE DEF new
  <2> QED BY <1>2, <1>3, <2>1, <2>2
<1>5. ASSUME NEW b \in Branches, UpdateBranch(b) PROVE HeadsNumbered'
  <2>1. PICK new : new.n = commits + 1 /\ head' = [head EXCEPT ![b] = new]
    <3>1. PICK keep \in BOOLEAN :
            head' = [head EXCEPT ![b] = Pushed(commits + 1, Joined(b, keep), main, main)]
      BY <1>5 DEF UpdateBranch
    <3>2. Pushed(commits + 1, Joined(b, keep), main, main).n = commits + 1
      BY DEF Pushed
    <3> QED BY <3>1, <3>2
  <2>3. commits' = commits + 1
    BY <1>5 DEF UpdateBranch
  <2> QED BY <1>2, <1>3, <2>1, <2>3
<1>6. ASSUME NEW b \in Branches, MergePull(b) PROVE HeadsNumbered'
  <2>1. PICK new : /\ head' = [head EXCEPT ![b] = Pushed(head[b].n, head[b], new, new)]
                   /\ commits' = commits + 1
    BY <1>6 DEF MergePull
  <2>2. Pushed(head[b].n, head[b], new, new).n = head[b].n
    BY DEF Pushed
  <2>3. head[b].n \in Nat /\ head[b].n <= commits + 1
    BY <1>3 DEF HeadsNumbered
  <2> QED BY <1>2, <2>1, <2>2, <2>3
<1> QED BY <1>1, <1>4, <1>5, <1>6, NextCases, ElsewhereQuiet DEF vars

\* What an author or a command may do while a manifest is built.
LEMMA OthersMove ==
    ASSUME BuildFits, Standing, build.step \in Steps, NEW b \in Branches,
           \/ \E p \in Paths : AuthorWrites(b, p) \/ AuthorDeletes(b, p) \/ AuthorRestores(b, p)
           \/ \E policy \in Policies : AuthorAdoptsPolicy(b, policy)
           \/ CommitAndPush(b) \/ UpdateBranch(b) \/ MergePull(b)
           \/ \E s \in Sources, out \in Pages \cup Renders : StartRender(b, s, out)
           \/ StartIndex(b) \/ StartGuide(b)
           \/ LookAtOutput(b) \/ LookAtGuide(b) \/ WriteOutput(b) \/ CutOff(b)
    PROVE  Moves
<1>1. ASSUME NEW p, NEW content, Put(b, p, content), head' = head, commits' = commits
      PROVE  Moves
  BY <1>1, WitnessedMoves DEF Put
<1>2. CASE \E p \in Paths : AuthorWrites(b, p) \/ AuthorDeletes(b, p) \/ AuthorRestores(b, p)
  BY <1>1, <1>2 DEF AuthorWrites, AuthorDeletes, AuthorRestores
<1>3. CASE \E policy \in Policies : AuthorAdoptsPolicy(b, policy)
  BY <1>3, WitnessedMoves DEF AuthorAdoptsPolicy
<1>4. commits \in Nat /\ commits <= commits
  BY DEF Standing, BaseInv, Numbered
<1>5. CASE UNCHANGED <<tree, head, build, commits>>
  BY <1>4, <1>5, Unmoved DEF Here, Atop
<1>6. CASE \/ \E s \in Sources, out \in Pages \cup Renders : StartRender(b, s, out)
           \/ StartIndex(b) \/ StartGuide(b)
  BY <1>5, <1>6 DEF StartRender, StartIndex, StartGuide, Starts
<1>7. CASE LookAtOutput(b)
  BY <1>5, <1>7 DEF LookAtOutput
<1>8. CASE LookAtGuide(b)
  BY <1>5, <1>8 DEF LookAtGuide
<1>9. CASE CutOff(b)
  BY <1>5, <1>9 DEF CutOff
<1>10. CASE WriteOutput(b)
  <2>1. head' = head /\ commits' = commits
    BY <1>10 DEF WriteOutput
  <2>2. \/ UNCHANGED <<tree, build>>
        \/ Put(b, command[b].path, command[b].put)
    BY <1>10 DEF WriteOutput
  <2> QED BY <1>1, <1>5, <2>1, <2>2
<1> QED BY <1>2, <1>3, <1>6, <1>7, <1>8, <1>9, <1>10, PushMoves, UpdateMoves, MergeMoves

\* The same actions leave alone a manifest that is not there or that is finished.
LEMMA OthersLeave ==
    ASSUME Standing, build.step \in {"idle", "done"}, NEW b \in Branches,
           \/ \E p \in Paths : AuthorWrites(b, p) \/ AuthorDeletes(b, p) \/ AuthorRestores(b, p)
           \/ \E policy \in Policies : AuthorAdoptsPolicy(b, policy)
           \/ CommitAndPush(b) \/ UpdateBranch(b) \/ MergePull(b)
           \/ \E s \in Sources, out \in Pages \cup Renders : StartRender(b, s, out)
           \/ StartIndex(b) \/ StartGuide(b)
           \/ LookAtOutput(b) \/ LookAtGuide(b) \/ WriteOutput(b) \/ CutOff(b)
    PROVE  build' = build
<1>1. ~Building(b)
  BY DEF Building
<1>2. \A at : Witnessed(b, at) = build
  BY <1>1 DEF Witnessed
<1>3. CASE \E p \in Paths : AuthorWrites(b, p) \/ AuthorDeletes(b, p) \/ AuthorRestores(b, p)
  <2>1. PICK p \in Paths : AuthorWrites(b, p) \/ AuthorDeletes(b, p) \/ AuthorRestores(b, p)
    BY <1>3
  <2>2. CASE AuthorWrites(b, p)
    BY <1>2, <2>2 DEF AuthorWrites, Put, Becomes
  <2>3. CASE AuthorDeletes(b, p)
    BY <1>2, <2>3 DEF AuthorDeletes, Put, Becomes
  <2>4. CASE AuthorRestores(b, p)
    BY <1>2, <2>4 DEF AuthorRestores, Put, Becomes
  <2> QED BY <2>1, <2>2, <2>3, <2>4
<1>4. CASE \E policy \in Policies : AuthorAdoptsPolicy(b, policy)
  BY <1>2, <1>4 DEF AuthorAdoptsPolicy, Becomes
<1>5. CASE CommitAndPush(b)
  BY <1>1, <1>5 DEF CommitAndPush
<1>6. CASE UpdateBranch(b)
  BY <1>2, <1>6 DEF UpdateBranch, Becomes
<1>7. CASE MergePull(b)
  BY <1>7 DEF MergePull
<1>8. CASE \/ \E s \in Sources, out \in Pages \cup Renders : StartRender(b, s, out)
           \/ StartIndex(b) \/ StartGuide(b)
  BY <1>8 DEF StartRender, StartIndex, StartGuide, Starts
<1>9. CASE LookAtOutput(b)
  BY <1>9 DEF LookAtOutput
<1>10. CASE LookAtGuide(b)
  BY <1>10 DEF LookAtGuide
<1>11. CASE WriteOutput(b)
  BY <1>2, <1>11 DEF WriteOutput, Put, Becomes
<1>12. CASE CutOff(b)
  BY <1>12 DEF CutOff
<1> QED BY <1>3, <1>4, <1>5, <1>6, <1>7, <1>8, <1>9, <1>10, <1>11, <1>12

LEMMA NoManifest ==
    ASSUME build'.step = "idle"
    PROVE  BuildFits'
BY DEF BuildFits, BuildTyped, Remembered, ReadsFit, MomentFits, HeadFits, Steps

LEMMA FailsFits ==
    ASSUME Fails
    PROVE  BuildFits'
BY NoManifest DEF Fails, NoBuild

LEMMA WalkPlaces ==
    ASSUME NEW listed, NEW j \in Upcoming(listed)
    PROVE  j \in DOMAIN Walk /\ j \in Nat /\ Walk[j] \in Paths
<1>1. j \in DOMAIN Walk
  BY DEF Upcoming, Left
<1>2. DOMAIN Walk \subseteq Nat /\ Walk[j] \in Paths
  BY <1>1, WalkAssumption
<1> QED BY <1>1, <1>2

LEMMA BeginFits ==
    ASSUME BuildFits, Standing, NEW b \in Branches, BeginManifest(b)
    PROVE  BuildFits'
<1>1. /\ build' = [step |-> "lint", on |-> b, policy |-> tree[b].policy, i |-> 1,
                   listed |-> Listing(tree[b].at, tree[b].policy), saw |-> Unread,
                   dangling |-> FALSE, facts |-> <<>>, pages |-> {}, got |-> Unread,
                   head |-> 0, clean |-> FALSE,
                   mid |-> Unread, back |-> FALSE, late |-> FALSE, final |-> Unread,
                   past |-> [p \in Paths |-> {tree[b].at[p], head[b].at[p]}]]
      /\ tree' = tree /\ head' = head /\ commits' = commits /\ tree[b].policy # NoPolicy
  BY DEF BeginManifest
<1>2. tree[b].policy \in Policies /\ commits \in Nat
  BY <1>1 DEF Standing, PoliciesFit, Known, BaseInv, Numbered
<1>3. build' = [k \in Fields |-> build'[k]]
  BY <1>1 DEF Fields
<1>4. /\ build'.step = "lint" /\ build'.on = b /\ build'.policy = tree[b].policy
      /\ build'.i = 1 /\ build'.listed = Listing(tree[b].at, tree[b].policy)
      /\ build'.pages = {} /\ build'.got = Unread /\ build'.head = 0
      /\ build'.back = FALSE /\ build'.late = FALSE
      /\ build'.past = [p \in Paths |-> {tree[b].at[p], head[b].at[p]}]
  BY <1>1
<1>5. IsTree(Unread) /\ \A p \in Paths : Unread[p] = Absent
  BY DEF IsTree, Unread
<1>6. BuildTyped'
  <2>1. build'.listed \subseteq Below[build'.policy]
    BY <1>4 DEF Listing
  <2>2. build'.past = [p \in Paths |-> build'.past[p]]
    BY <1>4
  <2> QED BY <1>1, <1>2, <1>3, <1>4, <1>5, <2>1, <2>2 DEF BuildTyped, Steps, IsTree
<1>7. Remembered'
  BY <1>1, <1>4 DEF Remembered, Here, Atop
<1>8. ReadsFit'
  BY <1>4, <1>5 DEF ReadsFit
<1>9. MomentFits' /\ HeadFits'
  BY <1>4 DEF MomentFits, HeadFits
<1> QED BY <1>6, <1>7, <1>8, <1>9 DEF BuildFits

LEMMA LintFits ==
    ASSUME BuildFits, Standing, LintFile
    PROVE  BuildFits'
<1>1. PICK j \in Upcoming(build.listed) :
        \E saw, dangling : build' = [build EXCEPT !.i = j + 1, !.saw = saw, !.dangling = dangling]
  BY DEF LintFile
<1>2. /\ build.step \in {"lint", "relint"}
      /\ tree' = tree /\ head' = head /\ commits' = commits
  BY DEF LintFile, InStep, Others
<1>3. build = [k \in Fields |-> build[k]]
  BY <1>2 DEF BuildFits, BuildTyped
<1>4. /\ build' = [k \in Fields |-> build'[k]]
      /\ build'.i = j + 1
      /\ build'.step = build.step /\ build'.on = build.on /\ build'.policy = build.policy
      /\ build'.listed = build.listed /\ build'.pages = build.pages
      /\ build'.got = build.got /\ build'.head = build.head /\ build'.mid = build.mid
      /\ build'.back = build.back /\ build'.late = build.late /\ build'.final = build.final
      /\ build'.past = build.past /\ build'.facts = build.facts
  BY <1>1, <1>3 DEF Fields
<1>5. j + 1 \in Nat
  BY WalkPlaces
<1>6. BuildTyped'
  BY <1>2, <1>4, <1>5 DEF BuildFits, BuildTyped, IsTree
<1>7. Here' = Here /\ Atop' = Atop
  BY <1>2, <1>4 DEF Here, Atop
<1>8. Remembered'
  BY <1>4, <1>7 DEF BuildFits, Remembered
<1>9. ReadsFit'
  BY <1>2, <1>4 DEF BuildFits, ReadsFit
<1>10. Listed' = Listed /\ Bound' = Bound /\ Beside' = Beside /\ Same' = Same
  BY <1>2, <1>4 DEF Listed, Bound, Beside, Same
<1>11. MomentFits'
  BY <1>2, <1>4, <1>7, <1>10 DEF BuildFits, MomentFits
<1>12. HeadFits'
  BY <1>2, <1>4, <1>7, <1>10 DEF BuildFits, HeadFits, KeepsOrLeaves
<1> QED BY <1>6, <1>8, <1>9, <1>11, <1>12 DEF BuildFits

LEMMA EndLintFits ==
    ASSUME BuildFits, Standing, EndFirstLint
    PROVE  BuildFits'
<1>1. /\ build.step = "lint" /\ tree' = tree /\ head' = head /\ commits' = commits
  BY DEF EndFirstLint, InStep, Others
<1>2. CASE Fails
  BY <1>2, FailsFits
<1>3. CASE build' = [build EXCEPT
                !.step = "read", !.i = 1, !.saw = Unread, !.dangling = FALSE,
                !.head = head[build.on].n,
                !.facts = FactsOf(build.policy, build.listed, build.saw),
                !.pages = IF Version[build.policy] = 1 THEN Listing(Here, build.policy)
                                                       ELSE build.listed]
  <2>1. build = [k \in Fields |-> build[k]] /\ build.on \in Branches
    BY <1>1 DEF BuildFits, BuildTyped
  <2>2. /\ build' = [k \in Fields |-> build'[k]]
        /\ build'.step = "read" /\ build'.on = build.on /\ build'.policy = build.policy
        /\ build'.i = 1 /\ build'.listed = build.listed /\ build'.got = build.got
        /\ build'.head = head[build.on].n
        /\ build'.back = build.back /\ build'.late = build.late
        /\ build'.past = build.past
        /\ build'.facts = FactsOf(build.policy, build.listed, build.saw)
        /\ build'.pages = IF Version[build.policy] = 1 THEN Listing(Here, build.policy)
                                                       ELSE build.listed
    BY <1>3, <2>1 DEF Fields
  <2>3. build'.pages \subseteq Below[build.policy]
    BY <1>1, <2>2 DEF BuildFits, BuildTyped, Listing
  <2>4. BuildTyped'
    BY <1>1, <2>1, <2>2, <2>3 DEF BuildFits, BuildTyped, Steps, IsTree, Standing, HeadsNumbered
  <2>5. Here' = Here /\ Atop' = Atop
    BY <1>1, <2>2 DEF Here, Atop
  <2>6. Remembered'
    BY <1>1, <2>2, <2>5 DEF BuildFits, Remembered, Steps
  <2>7. Behind' = {}
    BY <2>2, WalkAssumption DEF Behind
  <2>8. ReadsFit'
    BY <1>1, <2>2, <2>7 DEF BuildFits, ReadsFit, Steps
  <2>9. DOMAIN build'.facts = build.listed \cup Beside
    BY <2>2 DEF FactsOf, Beside
  <2>10. Beside' = Beside /\ Bound' = Bound
    BY <2>2 DEF Beside, Bound
  <2>11. MomentFits' /\ HeadFits'
    BY <2>2, <2>9, <2>10 DEF MomentFits, HeadFits, Bound
  <2> QED BY <2>4, <2>6, <2>8, <2>11 DEF BuildFits
<1> QED BY <1>2, <1>3 DEF EndFirstLint

\* What one more read adds to what is behind, and that nothing is left out.
LEMMA BehindGrows ==
    ASSUME build.step \in {"read", "again"}, build.i \in Nat,
           NEW j \in Upcoming(build.pages), build'.i = j + 1, build'.pages = build.pages
    PROVE  Walk[j] \in build.pages /\ Behind' \subseteq Behind \cup {Walk[j]}
<1>1. Walk[j] \in build.pages /\ j \in DOMAIN Walk
  BY DEF Upcoming, Left
<1>2. DOMAIN Walk \subseteq Nat
  BY WalkAssumption
<1>3. ASSUME NEW k \in DOMAIN Walk, k < j + 1, Walk[k] \in build.pages, k >= build.i
      PROVE  k = j
  <2>1. k \in Left(build.pages)
    BY <1>3 DEF Left
  <2> QED BY <1>1, <1>2, <1>3, <2>1 DEF Upcoming
<1>4. ASSUME NEW k \in DOMAIN Walk, k < j + 1, Walk[k] \in build.pages
      PROVE  Walk[k] \in Behind \cup {Walk[j]}
  <2>1. k < build.i \/ k >= build.i
    BY <1>2
  <2> QED BY <1>3, <1>4, <2>1 DEF Behind
<1> QED BY <1>1, <1>4 DEF Behind

LEMMA AllBehind ==
    ASSUME build.step \in {"read", "again"}, build.i \in Nat, ~More(build.pages),
           build.pages \subseteq Paths
    PROVE  build.pages \subseteq Behind
<1>1. ASSUME NEW p \in build.pages PROVE p \in Behind
  <2>1. PICK j \in DOMAIN Walk : Walk[j] = p
    BY WalkAssumption
  <2>2. j \notin Left(build.pages) /\ j \in Nat
    BY <2>1, WalkAssumption DEF More
  <2>3. j < build.i
    BY <2>1, <2>2 DEF Left
  <2> QED BY <2>1, <2>3 DEF Behind
<1> QED BY <1>1

LEMMA ReadFits ==
    ASSUME BuildFits, Standing, ReadFile
    PROVE  BuildFits'
<1>1. PICK j \in Upcoming(build.pages) :
        \/ Fails
        \/ build' = [build EXCEPT !.i = j + 1, !.got[Walk[j]] = Here[Walk[j]]]
  BY DEF ReadFile
<1>2. build.step = "read" /\ tree' = tree /\ head' = head /\ commits' = commits
  BY DEF ReadFile, InStep, Others
<1>3. CASE build' = [build EXCEPT !.i = j + 1, !.got[Walk[j]] = Here[Walk[j]]]
  <2>1. /\ build = [k \in Fields |-> build[k]] /\ IsTree(build.got) /\ build.i \in Nat
        /\ build.pages \subseteq Paths
    BY <1>2, BelowPaths DEF BuildFits, BuildTyped
  <2>2. /\ build' = [k \in Fields |-> build'[k]]
        /\ build'.step = build.step /\ build'.on = build.on /\ build'.policy = build.policy
        /\ build'.i = j + 1 /\ build'.listed = build.listed /\ build'.pages = build.pages
        /\ build'.got = [build.got EXCEPT ![Walk[j]] = Here[Walk[j]]]
        /\ build'.head = build.head /\ build'.back = build.back /\ build'.late = build.late
        /\ build'.past = build.past /\ build'.facts = build.facts
    BY <1>3, <2>1 DEF Fields
  <2>3. j \in Nat /\ Walk[j] \in Paths
    BY WalkPlaces
  <2>4. /\ build'.got = [p \in Paths |-> build'.got[p]]
        /\ build'.got[Walk[j]] = Here[Walk[j]]
        /\ \A p \in Paths : p # Walk[j] => build'.got[p] = build.got[p]
    BY <2>1, <2>2, <2>3 DEF IsTree
  <2>5. BuildTyped'
    BY <1>2, <2>2, <2>3, <2>4 DEF BuildFits, BuildTyped, IsTree, Steps
  <2>6. Here' = Here /\ Atop' = Atop
    BY <1>2, <2>2 DEF Here, Atop
  <2>7. Remembered'
    BY <1>2, <2>2, <2>6 DEF BuildFits, Remembered, Steps
  <2>8. Walk[j] \in build.pages /\ Behind' \subseteq Behind \cup {Walk[j]}
    BY <1>2, <2>1, <2>2, BehindGrows
  <2>9. ASSUME NEW p \in Behind' PROVE build'.got[p] \in build'.past[p]
    <3>1. CASE p = Walk[j]
      BY <1>2, <2>2, <2>3, <2>4, <3>1 DEF BuildFits, Remembered, Steps
    <3>2. CASE p # Walk[j]
      <4>1. p \in Behind /\ p \in Paths
        BY <2>1, <2>8, <2>9, <3>2 DEF Behind
      <4> QED BY <1>2, <2>2, <2>4, <3>2, <4>1 DEF BuildFits, ReadsFit
    <3> QED BY <3>1, <3>2
  <2>10. ASSUME NEW p \in Paths \ build.pages PROVE build'.got[p] = Absent
    BY <1>2, <2>4, <2>8, <2>10 DEF BuildFits, ReadsFit, Steps
  <2>11. ReadsFit'
    BY <1>2, <2>2, <2>9, <2>10 DEF ReadsFit
  <2>12. MomentFits' /\ HeadFits'
    BY <1>2, <2>2 DEF BuildFits, MomentFits, HeadFits, Bound, Beside
  <2> QED BY <2>5, <2>7, <2>11, <2>12 DEF BuildFits
<1> QED BY <1>1, <1>3, FailsFits

LEMMA EndReadsFits ==
    ASSUME BuildFits, Standing, EndReads
    PROVE  BuildFits'
<1> DEFINE left == Unpublished(build.policy)
           named == build.pages \ left
           got == [p \in Paths |-> IF p \in left THEN Absent ELSE build.got[p]]
<1>1. /\ build.step = "read" /\ ~More(build.pages)
      /\ tree' = tree /\ head' = head /\ commits' = commits
      /\ build' = [build EXCEPT !.step = "relint", !.i = 1, !.mid = Here,
                       !.listed = Listing(Here, build.policy), !.pages = named, !.got = got]
  BY DEF EndReads, InStep, Others
<1>2. /\ build = [k \in Fields |-> build[k]] /\ build.i \in Nat /\ build.policy \in Policies
      /\ build.pages \subseteq Paths /\ Below[build.policy] \subseteq Paths
  BY <1>1, BelowPaths DEF BuildFits, BuildTyped
<1>3. /\ build' = [k \in Fields |-> build'[k]]
      /\ build'.step = "relint" /\ build'.on = build.on /\ build'.policy = build.policy
      /\ build'.i = 1 /\ build'.listed = Listing(Here, build.policy)
      /\ build'.pages = named /\ build'.got = got /\ build'.mid = Here
      /\ build'.head = build.head /\ build'.back = build.back /\ build'.late = build.late
      /\ build'.past = build.past /\ build'.facts = build.facts
  BY <1>1, <1>2 DEF Fields
<1>4. /\ got = [p \in Paths |-> got[p]]
      /\ \A p \in Paths : got[p] = IF p \in left THEN Absent ELSE build.got[p]
      /\ named \subseteq build.pages
      /\ Bound => named = build.pages
  <2>1. Bound => left = {}
    BY <1>2, DocumentsAssumption DEF Bound, Unpublished
  <2> HIDE DEF left
  <2> QED BY <2>1
<1> HIDE DEF got, named, left
<1>5. BuildTyped'
  <2>1. IsTree(got) /\ named \subseteq Below[build.policy]
    BY <1>1, <1>4 DEF BuildFits, BuildTyped, IsTree
  <2>2. Listing(Here, build.policy) \subseteq Below[build.policy]
    BY DEF Listing
  <2>3. /\ build.on \in Branches /\ build.policy \in Policies
        /\ build.head \in Nat /\ build.head <= commits
        /\ build.past = [p \in Paths |-> build.past[p]]
        /\ build.back \in BOOLEAN /\ build.late \in BOOLEAN
    BY <1>1 DEF BuildFits, BuildTyped
  <2> QED BY <1>1, <1>3, <2>1, <2>2, <2>3 DEF BuildTyped, Steps
<1>6. Here' = Here /\ Atop' = Atop
  BY <1>1, <1>3 DEF Here, Atop
<1>7. Remembered'
  BY <1>1, <1>3, <1>6 DEF BuildFits, Remembered, Steps
<1>8. build.pages \subseteq Behind
  BY <1>1, <1>2, AllBehind
<1>9. \A p \in named : got[p] \in build.past[p]
  <2>1. \A p \in named : p \in Behind /\ p \in Paths /\ got[p] = build.got[p]
    BY <1>2, <1>4, <1>8 DEF named
  <2> QED BY <1>1, <2>1 DEF BuildFits, ReadsFit
<1>10. \A p \in Paths \ named : got[p] = Absent
  BY <1>1, <1>4 DEF BuildFits, ReadsFit, Steps, named
<1>11. ReadsFit'
  BY <1>3, <1>9, <1>10 DEF ReadsFit
<1>12. build'.listed = Listed'
  BY <1>3 DEF Listed, Listing, Present
<1>13. MomentFits'
  BY <1>1, <1>3, <1>4, <1>6, <1>12 DEF BuildFits, MomentFits, Bound, Beside
<1>14. ASSUME NEW p \in Below[build.policy] \ Present(Here) PROVE Here[p] = Absent
  BY <1>2, <1>14 DEF Present
<1>15. HeadFits'
  BY <1>3, <1>6, <1>14 DEF HeadFits, KeepsOrLeaves
<1> QED BY <1>5, <1>7, <1>11, <1>13, <1>15 DEF BuildFits

LEMMA EndRelintFits ==
    ASSUME BuildFits, Standing, EndSecondLint
    PROVE  BuildFits'
<1>1. build.step = "relint" /\ tree' = tree /\ head' = head /\ commits' = commits
  BY DEF EndSecondLint, InStep, Others
<1>2. CASE Fails
  BY <1>2, FailsFits
<1>3. CASE /\ Bound => build.facts = FactsOf(build.policy, build.listed, build.saw)
           /\ build' = [build EXCEPT !.step = "again", !.i = 1, !.saw = Unread,
                                     !.facts = <<>>, !.listed = {}]
  <2>1. /\ build = [k \in Fields |-> build[k]] /\ build.policy \in Policies
        /\ build.listed \subseteq Below[build.policy]
        /\ build.pages \subseteq Below[build.policy]
    BY <1>1 DEF BuildFits, BuildTyped
  <2>2. /\ build' = [k \in Fields |-> build'[k]]
        /\ build'.step = "again" /\ build'.on = build.on /\ build'.policy = build.policy
        /\ build'.i = 1 /\ build'.listed = {} /\ build'.pages = build.pages
        /\ build'.got = build.got /\ build'.mid = build.mid /\ build'.head = build.head
        /\ build'.back = build.back /\ build'.late = build.late
        /\ build'.past = build.past
    BY <1>3, <2>1 DEF Fields
  <2>3. BuildTyped'
    BY <1>1, <2>2 DEF BuildFits, BuildTyped, IsTree, Steps
  <2>4. Here' = Here /\ Atop' = Atop
    BY <1>1, <2>2 DEF Here, Atop
  <2>5. Remembered'
    BY <1>1, <2>2, <2>4 DEF BuildFits, Remembered, Steps
  <2>6. ReadsFit'
    BY <1>1, <2>2 DEF BuildFits, ReadsFit, Steps
  <2>7. Behind' = {}
    BY <2>2, WalkAssumption DEF Behind
  <2>8. Bound' = Bound /\ Listed' = Listed
    BY <2>2 DEF Bound, Listed
  <2>9. ASSUME Bound PROVE build.pages = Listed
    <3>1. Owners \notin Below[build.policy]
      BY <2>1, DocumentsAssumption
    <3>2. DOMAIN build.facts = build.pages \cup Beside
      BY <1>1, <2>9 DEF BuildFits, MomentFits
    <3>3. DOMAIN build.facts = build.listed \cup Beside
      BY <1>3, <2>9 DEF FactsOf, Beside
    <3>4. build.pages = build.listed
      BY <2>1, <3>1, <3>2, <3>3 DEF Beside
    <3> QED BY <1>1, <3>4 DEF BuildFits, MomentFits
  <2>10. MomentFits'
    BY <1>1, <2>2, <2>4, <2>7, <2>8, <2>9 DEF BuildFits, MomentFits
  <2>11. Same' => Same
    BY <1>1, <2>2 DEF Same
  <2>12. HeadFits'
    BY <1>1, <2>2, <2>4, <2>7, <2>8, <2>11 DEF BuildFits, HeadFits, KeepsOrLeaves
  <2> QED BY <2>3, <2>5, <2>6, <2>10, <2>12 DEF BuildFits
<1> QED BY <1>2, <1>3 DEF EndSecondLint, Bound

LEMMA AgainFits ==
    ASSUME BuildFits, Standing, ReadAgain
    PROVE  BuildFits'
<1>1. PICK j \in Upcoming(build.pages) :
        \/ Fails
        \/ Here[Walk[j]] = build.got[Walk[j]] /\ build' = [build EXCEPT !.i = j + 1]
  BY DEF ReadAgain
<1>2. build.step = "again" /\ tree' = tree /\ head' = head /\ commits' = commits
  BY DEF ReadAgain, InStep, Others
<1>3. CASE Here[Walk[j]] = build.got[Walk[j]] /\ build' = [build EXCEPT !.i = j + 1]
  <2>1. build = [k \in Fields |-> build[k]] /\ build.i \in Nat
    BY <1>2 DEF BuildFits, BuildTyped
  <2>2. /\ build' = [k \in Fields |-> build'[k]]
        /\ build'.step = build.step /\ build'.on = build.on /\ build'.policy = build.policy
        /\ build'.i = j + 1 /\ build'.listed = build.listed /\ build'.pages = build.pages
        /\ build'.got = build.got /\ build'.mid = build.mid /\ build'.head = build.head
        /\ build'.back = build.back /\ build'.late = build.late
        /\ build'.past = build.past
    BY <1>3, <2>1 DEF Fields
  <2>3. j \in Nat
    BY WalkPlaces
  <2>4. BuildTyped'
    BY <1>2, <2>2, <2>3 DEF BuildFits, BuildTyped, IsTree, Steps
  <2>5. Here' = Here /\ Atop' = Atop
    BY <1>2, <2>2 DEF Here, Atop
  <2>6. Remembered'
    BY <2>2, <2>5 DEF BuildFits, Remembered
  <2>7. ReadsFit'
    BY <1>2, <2>2 DEF BuildFits, ReadsFit
  <2>8. Walk[j] \in build.pages /\ Behind' \subseteq Behind \cup {Walk[j]}
    BY <1>2, <2>1, <2>2, BehindGrows
  <2>9. Bound' = Bound /\ Listed' = Listed /\ Same' = Same
    BY <1>2, <2>2 DEF Bound, Listed, Same
  <2>10. ~build.back => build.mid[Walk[j]] = build.got[Walk[j]]
    BY <1>2, <1>3, <2>8 DEF BuildFits, MomentFits
  <2>11. MomentFits'
    BY <1>2, <2>2, <2>5, <2>8, <2>9, <2>10 DEF BuildFits, MomentFits
  <2>12. KeepsOrLeaves(Walk[j], build.got[Walk[j]])
    BY <1>3 DEF KeepsOrLeaves
  <2>13. Bound /\ ~build.back /\ Same => \A p \in Behind' : KeepsOrLeaves(p, build.got[p])
    BY <1>2, <2>8, <2>12 DEF BuildFits, HeadFits
  <2>14. HeadFits'
    BY <1>2, <2>2, <2>5, <2>9, <2>13 DEF BuildFits, HeadFits, KeepsOrLeaves
  <2> QED BY <2>4, <2>6, <2>7, <2>11, <2>14 DEF BuildFits
<1> QED BY <1>1, <1>3, FailsFits

LEMMA ReadHeadFits ==
    ASSUME BuildFits, Standing, ReadHead
    PROVE  BuildFits'
<1>1. /\ build.step = "again" /\ ~More(build.pages)
      /\ tree' = tree /\ head' = head /\ commits' = commits
  BY DEF ReadHead, InStep, Others
<1>2. CASE Fails
  BY <1>2, FailsFits
<1>3. CASE /\ Bound => head[build.on].n = build.head
           /\ build' = [build EXCEPT !.step = "state", !.head = head[build.on].n,
                                     !.final = head[build.on].at]
  <2>1. /\ build = [k \in Fields |-> build[k]] /\ build.i \in Nat /\ build.policy \in Policies
        /\ build.on \in Branches /\ build.pages \subseteq Paths
    BY <1>1, BelowPaths DEF BuildFits, BuildTyped
  <2>2. /\ build' = [k \in Fields |-> build'[k]]
        /\ build'.step = "state" /\ build'.on = build.on /\ build'.policy = build.policy
        /\ build'.i = build.i /\ build'.listed = build.listed /\ build'.pages = build.pages
        /\ build'.got = build.got /\ build'.mid = build.mid /\ build'.head = head[build.on].n
        /\ build'.back = build.back /\ build'.late = build.late
        /\ build'.past = build.past /\ build'.final = head[build.on].at
    BY <1>3, <2>1 DEF Fields
  <2>3. BuildTyped'
    BY <1>1, <2>1, <2>2 DEF BuildFits, BuildTyped, IsTree, Steps, Standing, HeadsNumbered
  <2>4. Here' = Here /\ Atop' = Atop /\ build'.final = Atop
    BY <1>1, <2>2 DEF Here, Atop
  <2>5. Remembered'
    BY <1>1, <2>2, <2>4 DEF BuildFits, Remembered, Steps
  <2>6. ReadsFit'
    BY <1>1, <2>2 DEF BuildFits, ReadsFit, Steps
  <2>7. build.pages \subseteq Behind
    BY <1>1, <2>1, AllBehind
  <2>8. Bound' = Bound /\ Listed' = Listed
    BY <2>2 DEF Bound, Listed
  <2>9. MomentFits'
    BY <1>1, <2>2, <2>4, <2>7, <2>8 DEF BuildFits, MomentFits
  <2>10. Bound => Same
    BY <1>1, <1>3 DEF Same
  <2>11. HeadFits'
    BY <1>1, <2>2, <2>4, <2>7, <2>8, <2>10 DEF BuildFits, HeadFits, KeepsOrLeaves
  <2> QED BY <2>3, <2>5, <2>6, <2>9, <2>11 DEF BuildFits
<1> QED BY <1>2, <1>3 DEF ReadHead, Bound

LEMMA StatusFits ==
    ASSUME BuildFits, Standing, ReadStatus
    PROVE  BuildFits'
<1>1. /\ build.step = "state" /\ tree' = tree /\ head' = head /\ commits' = commits
      /\ build' = [build EXCEPT !.step = "done", !.past = <<>>,
                                !.clean = tree[build.on] = TreeOf(head[build.on])]
  BY DEF ReadStatus, InStep, Others
<1>2. PICK clean \in BOOLEAN :
        /\ clean <=> tree[build.on] = TreeOf(head[build.on])
        /\ build' = [build EXCEPT !.step = "done", !.past = <<>>, !.clean = clean]
  BY <1>1
<1>3. /\ build = [k \in Fields |-> build[k]] /\ build.policy \in Policies
      /\ build.pages \subseteq Paths /\ Below[build.policy] \subseteq Paths
      /\ build.back \in BOOLEAN /\ build.late \in BOOLEAN
  BY <1>1, BelowPaths DEF BuildFits, BuildTyped, Steps
<1>4. /\ build' = [k \in Fields |-> build'[k]]
      /\ build'.step = "done" /\ build'.on = build.on /\ build'.policy = build.policy
      /\ build'.i = build.i /\ build'.listed = build.listed /\ build'.pages = build.pages
      /\ build'.got = build.got /\ build'.mid = build.mid /\ build'.head = build.head
      /\ build'.back = build.back /\ build'.late = build.late
      /\ build'.final = build.final /\ build'.clean = clean
  BY <1>2, <1>3 DEF Fields
<1>5. BuildTyped'
  BY <1>1, <1>4 DEF BuildFits, BuildTyped, IsTree, Steps
<1>6. Remembered'
  BY <1>4 DEF Remembered, Steps
<1>7. ReadsFit'
  BY <1>1, <1>4 DEF BuildFits, ReadsFit, Steps
<1>8. Bound' = Bound /\ Listed' = Listed
  BY <1>4 DEF Bound, Listed
<1>9. MomentFits'
  BY <1>1, <1>4, <1>8 DEF BuildFits, MomentFits
<1>10. ASSUME ~build.back PROVE OfOneMoment'
  <2>1. \A p \in build.pages : build.mid[p] = build.got[p]
    BY <1>1, <1>10 DEF BuildFits, MomentFits
  <2>2. Bound => build.pages = Listed
    BY <1>1 DEF BuildFits, MomentFits
  <2>3. Present(build'.mid) = Present(build.mid)
    BY <1>4 DEF Present
  <2> QED BY <1>4, <2>1, <2>2, <2>3 DEF OfOneMoment, Listed, Bound
<1>11. ASSUME ~build.back, Bound, clean, ~build.late, NEW p \in Below[build.policy]
       PROVE  build.got[p] = build.final[p]
  <2>1. Here = Atop /\ build.final = Atop
    BY <1>1, <1>2, <1>11 DEF TreeOf, Here, Atop, BuildFits, HeadFits, Same
  <2>2. CASE p \in build.pages
    BY <1>1, <1>11, <2>1, <2>2 DEF BuildFits, HeadFits, Same, KeepsOrLeaves
  <2>3. CASE p \notin build.pages
    <3>1. p \in Below[build.policy] \ Present(build.mid)
      BY <1>1, <1>11, <2>3 DEF BuildFits, MomentFits, Listed
    <3>2. Here[p] = Absent
      BY <1>1, <1>11, <2>1, <3>1 DEF BuildFits, HeadFits, Same, KeepsOrLeaves
    <3>3. build.got[p] = Absent
      BY <1>1, <1>3, <2>3 DEF BuildFits, ReadsFit, Steps
    <3> QED BY <2>1, <3>2, <3>3
  <2> QED BY <2>2, <2>3
<1>12. ManifestIsASnapshot'
  BY <1>4, <1>10, <1>11 DEF ManifestIsASnapshot, OfItsHead, Bound
<1>13. HeadFits'
  BY <1>4, <1>12 DEF HeadFits
<1> QED BY <1>5, <1>6, <1>7, <1>9, <1>13 DEF BuildFits

LEMMA BuildInit == Init => BuildFits
<1> SUFFICES ASSUME Init PROVE BuildFits
  OBVIOUS
<1>1. build.step = "idle"
  BY DEF Init, NoBuild
<1> QED BY <1>1 DEF BuildFits, BuildTyped, Remembered, ReadsFit, MomentFits, HeadFits, Steps

\* Where neither the manifest nor anything it looks at changes.
LEMMA BuildQuiet ==
    ASSUME BuildFits, Standing, build' = build, build.step \in {"idle", "done"},
           commits' \in Nat, commits <= commits'
    PROVE  BuildFits'
<1>1. CASE build.step = "idle"
  BY <1>1, NoManifest
<1>2. CASE build.step = "done"
  <2>1. commits \in Nat
    BY DEF Standing, BaseInv, Numbered
  <2>2. BuildTyped'
    BY <1>2, <2>1 DEF BuildFits, BuildTyped, Steps, IsTree
  <2>3. Remembered' /\ ReadsFit'
    BY <1>2 DEF BuildFits, Remembered, ReadsFit, Steps
  <2>4. MomentFits'
    BY <1>2 DEF BuildFits, MomentFits, Listed, Bound, Present
  <2>5. ManifestIsASnapshot
    BY <1>2 DEF BuildFits, HeadFits
  <2>6. ManifestIsASnapshot'
    BY <2>5 DEF ManifestIsASnapshot, OfOneMoment, OfItsHead, Present
  <2> QED BY <1>2, <2>2, <2>3, <2>4, <2>6 DEF BuildFits, HeadFits
<1> QED BY <1>1, <1>2

LEMMA CommitsGrow ==
    ASSUME Standing, [Next]_vars
    PROVE  commits' \in Nat /\ commits <= commits'
<1>1. commits \in Nat
  BY DEF Standing, BaseInv, Numbered
<1>2. ASSUME NEW b \in Branches, CommitAndPush(b) \/ UpdateBranch(b) \/ MergePull(b)
      PROVE  commits' = commits + 1
  BY <1>2 DEF CommitAndPush, UpdateBranch, MergePull
<1>3. CASE commits' = commits
  BY <1>1, <1>3
<1> QED BY <1>1, <1>2, <1>3, NextCases, ElsewhereQuiet DEF vars

LEMMA BuildNext == BuildFits /\ Standing /\ [Next]_vars => BuildFits'
<1> SUFFICES ASSUME BuildFits, Standing, [Next]_vars PROVE BuildFits'
  OBVIOUS
<1>1. commits' \in Nat /\ commits <= commits'
  BY CommitsGrow
<1>2. build.step \in Steps \cup {"idle", "done"}
  BY DEF BuildFits, BuildTyped
<1>3. ASSUME NEW b \in Branches,
           \/ \E p \in Paths : AuthorWrites(b, p) \/ AuthorDeletes(b, p) \/ AuthorRestores(b, p)
           \/ \E policy \in Policies : AuthorAdoptsPolicy(b, policy)
           \/ CommitAndPush(b) \/ UpdateBranch(b) \/ MergePull(b)
           \/ \E s \in Sources, out \in Pages \cup Renders : StartRender(b, s, out)
           \/ StartIndex(b) \/ StartGuide(b)
           \/ LookAtOutput(b) \/ LookAtGuide(b) \/ WriteOutput(b) \/ CutOff(b)
      PROVE  BuildFits'
  <2>1. CASE build.step \in Steps
    BY <1>3, <2>1, OthersMove, BuildMoves
  <2>2. CASE build.step \in {"idle", "done"}
    BY <1>1, <1>3, <2>2, OthersLeave, BuildQuiet
  <2> QED BY <1>2, <2>1, <2>2
<1>4. ASSUME NEW b \in Branches, BeginManifest(b) PROVE BuildFits'
  BY <1>4, BeginFits
<1>5. CASE ManifestStep
  BY <1>5, LintFits, EndLintFits, ReadFits, EndReadsFits, EndRelintFits, AgainFits,
     ReadHeadFits, StatusFits DEF ManifestStep
<1>6. CASE UNCHANGED vars
  <2>1. UNCHANGED <<tree, head, build, commits>>
    BY <1>6 DEF vars
  <2>2. CASE build.step \in Steps
    BY <1>1, <2>1, <2>2, Unmoved, BuildMoves DEF Here, Atop
  <2>3. CASE build.step \in {"idle", "done"}
    BY <1>1, <2>1, <2>3, BuildQuiet
  <2> QED BY <1>2, <2>2, <2>3
<1> QED BY <1>3, <1>4, <1>5, <1>6 DEF Next

\* ManifestIsASnapshot in every reachable state: whatever the authors, the commands
\* and Git do between two reads of a site manifest, what it records was there at
\* one moment, and what a clean one records is what the commit it names holds.
THEOREM ManifestCorrect == Spec => []ManifestIsASnapshot
<1>1. Init => BaseInv /\ Shaped /\ PoliciesFit /\ HeadsNumbered /\ BuildFits
  BY BaseInit, ShapedInit, PoliciesInit, HeadsInit, BuildInit
<1>2. /\ BaseInv /\ Shaped /\ PoliciesFit /\ HeadsNumbered /\ BuildFits
      /\ [Next]_vars
      => (BaseInv /\ Shaped /\ PoliciesFit /\ HeadsNumbered /\ BuildFits)'
  BY BaseNext, ShapedNext, PoliciesNext, HeadsNext, BuildNext DEF Standing
<1>3. BuildFits => ManifestIsASnapshot
  BY DEF BuildFits, HeadFits, ManifestIsASnapshot
<1> QED BY <1>1, <1>2, <1>3, PTL DEF Spec
=============================================================================
