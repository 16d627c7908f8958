---------------------------- MODULE RemoteProofs ----------------------------
(***************************************************************************)
(* The two components that another system carries out: what GitHub merges   *)
(* (MergeGate) and what Linear shows (LinearDelivery).  They share no       *)
(* state.                                                                   *)
(*                                                                         *)
(* MergeGate: what is merged under a sound protection is what was checked   *)
(* and reviewed.  A passed check says that the event's base is in the       *)
(* head's history, and no event names a base before the fork; up to date    *)
(* then means that the base of the event is the tree that is replaced.      *)
(***************************************************************************)
EXTENDS MergeGate, LinearDelivery, FiniteSetTheorems, SequenceTheorems, TLAPS


IsRequest(p) ==
    p = [open |-> p.open, fork |-> p.fork, base |-> p.base, commits |-> p.commits,
         verdict |-> p.verdict, approved |-> p.approved, reviewed |-> p.reviewed]
IsTree(t) == t = [s \in Slots |-> t[s]]
HasHead(p) == (\E S : p.commits \in Seq(S)) /\ IsTree(HeadTree(p))
InOrder(p, n) == p.fork \in Nat /\ p.base \in Nat /\ p.fork <= p.base /\ p.base <= n
\* n is the length of the line
Good(p, n) ==
    /\ IsRequest(p)
    /\ InOrder(p, n)
    /\ p.open => HasHead(p)
    /\ p.verdict = "passed" => p.base <= p.fork
Ordered ==
    /\ \E S : line \in Seq(S)
    /\ pr = [b \in Branches |-> pr[b]]
    /\ \A b \in Branches : Good(pr[b], Len(line))

(* A sequence stays one when anything is appended.                          *)
LEMMA AppendAny ==
    ASSUME NEW S, NEW s \in Seq(S), NEW x
    PROVE  /\ \E T : Append(s, x) \in Seq(T)
           /\ Len(Append(s, x)) = Len(s) + 1
           /\ Append(s, x)[Len(s) + 1] = x
<1> DEFINE T == S \cup {x}
<1>1. s \in Seq(T)
  BY SeqDef
<1>2. Append(s, x) \in Seq(T) /\ Len(Append(s, x)) = Len(s) + 1
      /\ Append(s, x)[Len(s) + 1] = x
  BY <1>1
<1> QED
  BY <1>2

LEMMA LengthIsNatural ==
    ASSUME Ordered
    PROVE  Len(line) \in Nat
BY DEF Ordered

(* A commit more gives the head its tree, whatever came before.             *)
LEMMA NewHead ==
    ASSUME NEW commits, \E S : commits \in Seq(S), NEW mark, NEW merge,
           NEW tree, IsTree(tree),
           NEW p, p.commits = Append(commits, Commit(mark, tree, merge))
    PROVE  HasHead(p)
<1>1. PICK S : commits \in Seq(S)
  OBVIOUS
<1>a. ASSUME NEW c
      PROVE  /\ \E T : Append(commits, c) \in Seq(T)
             /\ Len(Append(commits, c)) = Len(commits) + 1
             /\ Append(commits, c)[Len(commits) + 1] = c
  BY <1>1, AppendAny
<1>2. /\ \E T : p.commits \in Seq(T)
      /\ Len(p.commits) = Len(commits) + 1
      /\ p.commits[Len(commits) + 1] = Commit(mark, tree, merge)
  BY <1>a
<1>3. HeadTree(p) = tree
  BY <1>2 DEF HeadTree, Commit
<1> QED
  BY <1>2, <1>3 DEF HasHead

LEMMA FirstHead ==
    ASSUME NEW mark, NEW merge, NEW tree, IsTree(tree),
           NEW p, p.commits = <<Commit(mark, tree, merge)>>
    PROVE  HasHead(p)
<1>1. p.commits \in Seq({Commit(mark, tree, merge)}) /\ Len(p.commits) = 1
      /\ p.commits[1] = Commit(mark, tree, merge)
  OBVIOUS
<1>2. HeadTree(p) = tree
  BY <1>1 DEF HeadTree, Commit
<1> QED
  BY <1>1, <1>2 DEF HasHead

LEMMA OverIsTree ==
    ASSUME NEW changes, NEW tree
    PROVE  IsTree(Over(changes, tree))
BY DEF IsTree, Over

LEMMA MergedIsTree ==
    ASSUME NEW old, NEW head, NEW main
    PROVE  IsTree(Merged(old, head, main))
BY DEF IsTree, Merged

(* The event of a head over a tree that the line has had.                   *)
LEMMA EventIsGood ==
    ASSUME Ordered, NEW fork \in Nat, fork <= Len(line), NEW commits, NEW approved,
           HasHead(Event(fork, commits, approved))
    PROVE  Good(Event(fork, commits, approved), Len(line))
<1>1. Len(line) \in Nat
  BY LengthIsNatural
<1> QED
  BY <1>1 DEF Event, Open, Good, IsRequest, InOrder

LEMMA InitIsOrdered ==
    ASSUME Init
    PROVE  Ordered
<1>1. /\ line \in Seq({line[n] : n \in DOMAIN line})
      /\ pr = [b \in Branches |-> Closed]
  BY LineAssumption DEF Init
<1>2. Len(line) \in Nat
  BY <1>1
<1>3. Good(Closed, Len(line))
  BY <1>2 DEF Good, IsRequest, InOrder, Closed
<1> QED
  BY <1>1, <1>3 DEF Ordered

(* One pull request is replaced by a good one and the line stays.           *)
LEMMA OneReplaced ==
    ASSUME Ordered, NEW b \in Branches, NEW p, Good(p, Len(line)),
           pr' = [pr EXCEPT ![b] = p], UNCHANGED line
    PROVE  Ordered'
<1>1. \A c \in Branches : pr'[c] = IF c = b THEN p ELSE pr[c]
  BY DEF Ordered
<1>2. pr' = [c \in Branches |-> pr'[c]]
  BY DEF Ordered
<1>3. \A c \in Branches : Good(pr'[c], Len(line))
  BY <1>1 DEF Ordered
<1>4. \A c \in Branches : Good(pr'[c], Len(line'))
  BY <1>3
<1>5. \E S : line' \in Seq(S)
  BY DEF Ordered
<1> QED
  BY <1>2, <1>4, <1>5 DEF Ordered

(* What an open pull request is, by the invariant.                          *)
LEMMA OpenIsGood ==
    ASSUME Ordered, NEW b \in Branches, pr[b].open
    PROVE  /\ IsRequest(pr[b])
           /\ pr[b].fork \in Nat /\ pr[b].base \in Nat
           /\ pr[b].fork <= pr[b].base /\ pr[b].base <= Len(line)
           /\ HasHead(pr[b])
BY DEF Ordered, Good, InOrder

LEMMA PushKeepsOrder ==
    ASSUME Ordered, NEW r \in Requests, r.branch \in Branches, NEW n, NEW e, Push(r, n, e)
    PROVE  Ordered'
<1> DEFINE mark == [kind |-> r.kind, id |-> r.branch.id]
           tree == Over(e, Over(Built(r, n), line[n]))
           p == Event(n, <<Commit(mark, tree, FALSE)>>, FALSE)
<1>1. /\ pr' = [pr EXCEPT ![r.branch] = p]
      /\ UNCHANGED line
      /\ n \in DOMAIN line
  BY DEF Push
<1>2. n \in Nat /\ n <= Len(line)
  BY <1>1 DEF Ordered
<1>3. HasHead(p)
  <2>1. IsTree(tree)
    BY OverIsTree
  <2> HIDE DEF tree, mark
  <2>2. p.commits = <<Commit(mark, tree, FALSE)>>
    BY DEF Event, Open
  <2> HIDE DEF p
  <2> QED
    BY <2>1, <2>2, FirstHead
<1>4. Good(p, Len(line))
  <2> HIDE DEF tree, mark
  <2> QED
    BY <1>2, <1>3, EventIsGood
<1> HIDE DEF p
<1> QED
  BY <1>1, <1>4, OneReplaced

(* One more commit on the head of an open one, and the event of it.         *)
LEMMA NextCommitIsGood ==
    ASSUME Ordered, NEW commits, \E S : commits \in Seq(S), NEW n \in Nat, n <= Len(line),
           NEW mark, NEW merge, NEW tree, IsTree(tree), NEW approved
    PROVE  Good(Event(n, Append(commits, Commit(mark, tree, merge)), approved), Len(line))
<1> DEFINE p == Event(n, Append(commits, Commit(mark, tree, merge)), approved)
<1>1. p.commits = Append(commits, Commit(mark, tree, merge))
  BY DEF Event, Open
<1>2. HasHead(p)
  <2> HIDE DEF p
  <2> QED
    BY <1>1, NewHead
<1> QED
  BY <1>2, EventIsGood

LEMMA UpdateKeepsOrder ==
    ASSUME Ordered, NEW b \in Branches, UpdateBranch(b)
    PROVE  Ordered'
<1> DEFINE merged == Merged(line[pr[b].fork], HeadTree(pr[b]), Main)
           mark == [kind |-> "merge", id |-> "none"]
           p == Event(Len(line), Append(pr[b].commits, Commit(mark, merged, TRUE)),
                      pr[b].approved)
<1>1. pr[b].open /\ pr' = [pr EXCEPT ![b] = p] /\ UNCHANGED line
  BY DEF UpdateBranch
<1>2. \E S : pr[b].commits \in Seq(S)
  BY <1>1, OpenIsGood DEF HasHead
<1>3. IsTree(merged)
  BY MergedIsTree
<1>4. Len(line) \in Nat /\ Len(line) <= Len(line)
  BY LengthIsNatural
<1>5. Good(p, Len(line))
  <2> HIDE DEF merged, mark
  <2> QED
    BY <1>2, <1>3, <1>4, NextCommitIsGood
<1> HIDE DEF p
<1> QED
  BY <1>1, <1>5, OneReplaced

LEMMA AcceptKeepsOrder ==
    ASSUME Ordered, NEW b \in Branches, NEW d, NEW scope, Accept(b, d, scope)
    PROVE  Ordered'
<1> DEFINE tree == Over(Acceptance(pr[b].fork, b.id, HeadTree(pr[b])[b.id], d, scope),
                        HeadTree(pr[b]))
           mark == [kind |-> "review.accept", id |-> b.id]
           p == Event(pr[b].fork, Append(pr[b].commits, Commit(mark, tree, FALSE)),
                      pr[b].approved)
<1>1. pr[b].open /\ pr' = [pr EXCEPT ![b] = p] /\ UNCHANGED line
  BY DEF Accept
<1>2. \E S : pr[b].commits \in Seq(S)
  BY <1>1, OpenIsGood DEF HasHead
<1>3. IsTree(tree)
  BY OverIsTree
<1>4. pr[b].fork \in Nat /\ pr[b].fork <= Len(line)
  BY <1>1, OpenIsGood, LengthIsNatural
<1>5. Good(p, Len(line))
  <2> HIDE DEF tree, mark
  <2> QED
    BY <1>2, <1>3, <1>4, NextCommitIsGood
<1> HIDE DEF p
<1> QED
  BY <1>1, <1>5, OneReplaced

LEMMA AcceptBootstrapKeepsOrder ==
    ASSUME Ordered, NEW b \in Branches, NEW c \in Branches, AcceptBootstrap(b, c)
    PROVE  Ordered'
<1> DEFINE tree == Over(One("project", [state |-> "managed"]), HeadTree(pr[b]))
           mark == [kind |-> "bootstrap.accept", id |-> c.id]
           p == Event(pr[b].fork, Append(pr[b].commits, Commit(mark, tree, FALSE)), FALSE)
<1>1. pr[b].open /\ pr' = [pr EXCEPT ![c] = p] /\ UNCHANGED line
  BY DEF AcceptBootstrap
<1>2. \E S : pr[b].commits \in Seq(S)
  BY <1>1, OpenIsGood DEF HasHead
<1>3. IsTree(tree)
  BY OverIsTree
<1>4. pr[b].fork \in Nat /\ pr[b].fork <= Len(line)
  BY <1>1, OpenIsGood, LengthIsNatural
<1>5. Good(p, Len(line))
  <2> HIDE DEF tree, mark
  <2> QED
    BY <1>2, <1>3, <1>4, NextCommitIsGood
<1> HIDE DEF p
<1> QED
  BY <1>1, <1>5, OneReplaced

(* A passed check has found the event's base in the history of the head.    *)
LEMMA PassedIsBased ==
    ASSUME NEW p, NEW b, Validates(p, b)
    PROVE  p.base <= p.fork
BY DEF Validates

(* An open one is as it was but for its event, verdict and approvals.       *)
LEMMA SameHeadIsGood ==
    ASSUME Ordered, NEW b \in Branches, pr[b].open,
           NEW base \in Nat, pr[b].fork <= base, base <= Len(line),
           NEW verdict, verdict = "passed" => base <= pr[b].fork,
           NEW approved, NEW reviewed
    PROVE  Good(Open(pr[b].fork, base, pr[b].commits, verdict, approved, reviewed),
                Len(line))
<1> DEFINE p == Open(pr[b].fork, base, pr[b].commits, verdict, approved, reviewed)
<1>1. HasHead(pr[b]) /\ pr[b].fork \in Nat
  BY OpenIsGood
<1>2. /\ IsRequest(p) /\ p.fork = pr[b].fork /\ p.base = base
      /\ p.verdict = verdict /\ p.commits = pr[b].commits
  BY DEF IsRequest, Open
<1> HIDE DEF p
<1>3. HasHead(p)
  BY <1>1, <1>2 DEF HasHead, HeadTree
<1>4. Good(p, Len(line))
  BY <1>1, <1>2, <1>3, LengthIsNatural DEF Good, InOrder
<1> QED
  BY <1>4 DEF p

LEMMA ReopenKeepsOrder ==
    ASSUME Ordered, NEW b \in Branches, Reopen(b)
    PROVE  Ordered'
<1> DEFINE p == Open(pr[b].fork, Len(line), pr[b].commits, "none",
                     pr[b].approved, pr[b].reviewed)
<1>1. pr[b].open /\ pr' = [pr EXCEPT ![b] = p] /\ UNCHANGED line
  BY DEF Reopen
<1>2. pr[b].fork <= Len(line) /\ Len(line) \in Nat /\ Len(line) <= Len(line)
  BY <1>1, OpenIsGood, LengthIsNatural
<1>3. Good(p, Len(line))
  BY <1>1, <1>2, SameHeadIsGood
<1> HIDE DEF p
<1> QED
  BY <1>1, <1>3, OneReplaced

LEMMA CloseKeepsOrder ==
    ASSUME Ordered, NEW b \in Branches, Close(b)
    PROVE  Ordered'
<1>1. Good(Closed, Len(line))
  BY LengthIsNatural DEF Good, IsRequest, InOrder, Closed
<1> QED
  BY <1>1, OneReplaced DEF Close

LEMMA CheckKeepsOrder ==
    ASSUME Ordered, NEW b \in Branches, Check(b)
    PROVE  Ordered'
<1> DEFINE verdict == IF Validates(pr[b], b) THEN "passed" ELSE "failed"
           p == Open(pr[b].fork, pr[b].base, pr[b].commits, verdict,
                     pr[b].approved, pr[b].reviewed)
<1>1. pr[b].open /\ pr' = [pr EXCEPT ![b] = p] /\ UNCHANGED line
  BY DEF Check
<1>2. /\ pr[b].base \in Nat /\ pr[b].fork <= pr[b].base
      /\ pr[b].base <= Len(line)
  BY <1>1, OpenIsGood
<1>3. verdict = "passed" => pr[b].base <= pr[b].fork
  BY PassedIsBased
<1> HIDE DEF verdict
<1>4. Good(p, Len(line))
  BY <1>1, <1>2, <1>3, SameHeadIsGood
<1> HIDE DEF p
<1> QED
  BY <1>1, <1>4, OneReplaced

LEMMA ApproveKeepsOrder ==
    ASSUME Ordered, NEW b \in Branches, Approve(b)
    PROVE  Ordered'
<1> DEFINE p == Open(pr[b].fork, pr[b].base, pr[b].commits, pr[b].verdict, TRUE, TRUE)
<1>1. pr[b].open /\ pr' = [pr EXCEPT ![b] = p] /\ UNCHANGED line
  BY DEF Approve
<1>2. /\ pr[b].base \in Nat /\ pr[b].fork <= pr[b].base
      /\ pr[b].base <= Len(line)
  BY <1>1, OpenIsGood
<1>3. pr[b].verdict = "passed" => pr[b].base <= pr[b].fork
  BY DEF Ordered, Good
<1>4. Good(p, Len(line))
  BY <1>1, <1>2, <1>3, SameHeadIsGood
<1> HIDE DEF p
<1> QED
  BY <1>1, <1>4, OneReplaced

LEMMA MergeKeepsOrder ==
    ASSUME Ordered, NEW b \in Branches, NEW admin \in BOOLEAN, Merge(b, admin)
    PROVE  Ordered'
<1> DEFINE tree == Merged(line[pr[b].fork], HeadTree(pr[b]), Main)
<1>1. /\ line' = Append(line, tree)
      /\ pr' = [pr EXCEPT ![b] = Closed]
  BY DEF Merge
<1> HIDE DEF tree
<1>2. PICK S : line \in Seq(S)
  BY DEF Ordered
<1>3. (\E T : line' \in Seq(T)) /\ Len(line') = Len(line) + 1
  BY <1>1, <1>2, AppendAny
<1>4. Len(line) \in Nat
  BY LengthIsNatural
<1>5. ASSUME NEW p, Good(p, Len(line)) PROVE Good(p, Len(line'))
  BY <1>3, <1>4, <1>5 DEF Good, InOrder
<1>6. Good(Closed, Len(line'))
  BY <1>3, <1>4 DEF Good, IsRequest, InOrder, Closed
<1>7. \A c \in Branches : pr'[c] = IF c = b THEN Closed ELSE pr[c]
  BY <1>1 DEF Ordered
<1>8. pr' = [c \in Branches |-> pr'[c]]
  BY <1>1 DEF Ordered
<1>9. \A c \in Branches : Good(pr'[c], Len(line'))
  BY <1>5, <1>6, <1>7 DEF Ordered
<1> QED
  BY <1>3, <1>8, <1>9 DEF Ordered

(* The protection is no part of the order.                                  *)
LEMMA OthersKeepOrder ==
    ASSUME Ordered, UNCHANGED gateVars
    PROVE  Ordered'
<1>1. line' = line /\ pr' = pr
  BY DEF gateVars
<1> QED
  BY <1>1 DEF Ordered

(* Every step keeps the order, one lemma per action.                        *)
LEMMA NextKeepsOrder ==
    ASSUME Ordered, [Next]_vars
    PROVE  Ordered'
<1>1. CASE UNCHANGED vars
  BY <1>1, OthersKeepOrder DEF vars, gateVars
<1>2. ASSUME NEW r \in Requests, NEW n, NEW e, Push(r, n, e) PROVE Ordered'
  BY <1>2, BranchAssumption, PushKeepsOrder
<1>3. ASSUME NEW b \in Branches, NEW d, NEW scope, Accept(b, d, scope) PROVE Ordered'
  BY <1>3, AcceptKeepsOrder
<1>4. ASSUME NEW b \in Branches, NEW c \in Branches, AcceptBootstrap(b, c) PROVE Ordered'
  BY <1>4, AcceptBootstrapKeepsOrder
<1>5. ASSUME NEW b \in Branches, UpdateBranch(b) PROVE Ordered'
  BY <1>5, UpdateKeepsOrder
<1>6. ASSUME NEW b \in Branches, Reopen(b) PROVE Ordered'
  BY <1>6, ReopenKeepsOrder
<1>7. ASSUME NEW b \in Branches, Close(b) PROVE Ordered'
  BY <1>7, CloseKeepsOrder
<1>8. ASSUME NEW b \in Branches, Check(b) PROVE Ordered'
  BY <1>8, CheckKeepsOrder
<1>9. ASSUME NEW b \in Branches, Approve(b) PROVE Ordered'
  BY <1>9, ApproveKeepsOrder
<1>10. ASSUME NEW b \in Branches, NEW admin \in BOOLEAN, Merge(b, admin) PROVE Ordered'
  BY <1>10, MergeKeepsOrder
<1>11. CASE AdminEdits
  BY <1>11, OthersKeepOrder DEF AdminEdits
<1>12. CASE Preview
  BY <1>12, OthersKeepOrder DEF Preview
<1>13. ASSUME NEW manager, BeginApply(manager) PROVE Ordered'
  BY <1>13, OthersKeepOrder DEF BeginApply
<1>14. ASSUME NEW answer, NEW applied, Put(answer, applied) PROVE Ordered'
  BY <1>14, OthersKeepOrder DEF Put
<1>15. CASE LatePut
  BY <1>15, OthersKeepOrder DEF LatePut
<1>16. ASSUME NEW readable, ReadBack(readable) PROVE Ordered'
  BY <1>16, OthersKeepOrder DEF ReadBack
<1>17. CASE Cut
  BY <1>17, OthersKeepOrder DEF Cut
<1> QED
  BY <1>1, <1>2, <1>3, <1>4, <1>5, <1>6, <1>7, <1>8, <1>9, <1>10, <1>11, <1>12, <1>13,
     <1>14, <1>15, <1>16, <1>17 DEF Next

(* No event names a base before the fork of its head, and a head that has    *)
(* passed has that base in its history.                                     *)
THEOREM OrderCorrect == Spec => []Ordered
<1>1. Init => Ordered
  BY InitIsOrdered
<1>2. Ordered /\ [Next]_vars => Ordered'
  BY NextKeepsOrder
<1> QED
  BY <1>1, <1>2, PTL DEF Spec

(* Only a merge makes the line longer.                                      *)
LEMMA LineGrowsByMerge ==
    ASSUME Next, line' # line
    PROVE  \E b \in Branches, admin \in BOOLEAN : Merge(b, admin)
<1>1. \A r, n, e : Push(r, n, e) => line' = line
  BY DEF Push
<1>2. \A b, d, scope : Accept(b, d, scope) => line' = line
  BY DEF Accept
<1>3. \A b, c : AcceptBootstrap(b, c) => line' = line
  BY DEF AcceptBootstrap
<1>4. \A b : UpdateBranch(b) \/ Reopen(b) \/ Close(b) \/ Check(b) \/ Approve(b)
              => line' = line
  BY DEF UpdateBranch, Reopen, Close, Check, Approve
<1>5. AdminEdits \/ Preview \/ LatePut \/ Cut => line' = line
  BY DEF AdminEdits, Preview, LatePut, Cut, gateVars
<1>6. \A manager : BeginApply(manager) => line' = line
  BY DEF BeginApply, gateVars
<1>7. \A answer, applied : Put(answer, applied) => line' = line
  BY DEF Put, gateVars
<1>8. \A readable : ReadBack(readable) => line' = line
  BY DEF ReadBack, gateVars
<1> QED
  BY <1>1, <1>2, <1>3, <1>4, <1>5, <1>6, <1>7, <1>8 DEF Next

(* What is enforced for administrators is enforced for everyone.            *)
LEMMA SoundForEveryone ==
    ASSUME Sound, NEW admin \in BOOLEAN
    PROVE  Rules \subseteq Enforced(admin)
BY DEF Sound, Enforced

(* Over the tree it forked from, a head is merged as it is.                 *)
LEMMA MergedOverItsBase ==
    ASSUME NEW tree, NEW head, IsTree(head)
    PROVE  Merged(tree, head, tree) = head
<1>1. Merged(tree, head, tree) = [s \in Slots |-> head[s]]
  BY DEF Merged
<1> QED
  BY <1>1 DEF IsTree

LEMMA MergeIsAsGated ==
    ASSUME Ordered, Sound, NEW b \in Branches, NEW admin \in BOOLEAN, Merge(b, admin)
    PROVE  /\ pr[b].open /\ pr[b].verdict = "passed" /\ pr[b].reviewed
           /\ pr[b].fork = Len(line) /\ pr[b].base = Len(line)
           /\ line' = Append(line, HeadTree(pr[b]))
<1>1. {"pull_request", "last_push", "checks", "strict"} \subseteq Enforced(admin)
  BY SoundForEveryone DEF Rules
<1>2. /\ pr[b].open /\ pr[b].verdict = "passed" /\ pr[b].reviewed
      /\ pr[b].fork = Len(line)
      /\ line' = Append(line, Merged(line[pr[b].fork], HeadTree(pr[b]), Main))
  BY <1>1 DEF Merge
<1>3. /\ pr[b].fork \in Nat /\ pr[b].base \in Nat /\ pr[b].base <= Len(line)
      /\ pr[b].fork <= pr[b].base /\ IsTree(HeadTree(pr[b]))
  BY <1>2, OpenIsGood DEF HasHead
<1>4. pr[b].base = Len(line)
  BY <1>2, <1>3, LengthIsNatural
<1>5. Merged(line[pr[b].fork], HeadTree(pr[b]), Main) = HeadTree(pr[b])
  BY <1>2, <1>3, MergedOverItsBase DEF Main
<1> QED
  BY <1>2, <1>4, <1>5

(* Under a sound protection, whatever else is allowed at any time, only the   *)
(* head that was checked over the replaced tree and reviewed is merged.     *)
THEOREM MergedAsGatedCorrect == Spec => MergedAsGated
<1> DEFINE Gated == line' # line /\ Sound =>
         \E b \in Branches :
            /\ pr[b].open /\ pr[b].verdict = "passed" /\ pr[b].reviewed
            /\ pr[b].fork = Len(line) /\ pr[b].base = Len(line)
            /\ line' = Append(line, HeadTree(pr[b]))
<1>1. ASSUME Ordered, [Next]_vars PROVE [Gated]_vars
  <2>1. CASE UNCHANGED vars
    BY <2>1
  <2>2. CASE Next
    <3>1. SUFFICES ASSUME line' # line, Sound PROVE Gated
      OBVIOUS
    <3>2. PICK b \in Branches, admin \in BOOLEAN : Merge(b, admin)
      BY <2>2, <3>1, LineGrowsByMerge
    <3> QED
      BY <1>1, <3>1, <3>2, MergeIsAsGated
  <2> QED
    BY <1>1, <2>1, <2>2
<1> QED
  BY <1>1, OrderCorrect, PTL DEF Spec, MergedAsGated

-----------------------------------------------------------------------------
(* What a check has passed is lawful over the base of its event: it takes no *)
(* record back, and every new revision of a Report has one source.          *)
Sourced(old, new) ==
    \A r \in Reports : \A k \in Revisions(r) :
        RevisionSlots[r][k] \in Changed(old, new) =>
            /\ k = Latest(old, r) + 1
            /\ Cardinality(SourcesOf(old, new, r, k)) = 1
Lawful(old, new) == RecordsKept(old, new) /\ Sourced(old, new)
Evidence == Submissions \cup Decisions \cup Impacts \cup ReportSlots

LEMMA UnchangedSlots ==
    ASSUME NEW old, NEW new, NEW s \in Slots, s \notin Changed(old, new)
    PROVE  new[s] = old[s]
BY DEF Changed

LEMMA RevisionIsSlot ==
    ASSUME NEW r \in Reports, NEW k \in Revisions(r)
    PROVE  RevisionSlots[r][k] \in ReportSlots
BY DEF ReportSlots

LEMMA LatestIsNatural ==
    ASSUME NEW tree, NEW r \in Reports
    PROVE  Latest(tree, r) \in Nat
<1>1. Len(RevisionSlots[r]) \in Nat
  BY RevisionAssumption
<1>2. IsFiniteSet(1 .. Len(RevisionSlots[r]))
  BY <1>1, FS_Interval
<1>3. IsFiniteSet({k \in Revisions(r) : There(tree, RevisionSlots[r][k])})
  BY <1>2, FS_Subset DEF Revisions
<1> QED
  BY <1>3, FS_CardinalityType DEF Latest

(* The next revision of a Report is a path that nothing is at.              *)
LEMMA NextIsNew ==
    ASSUME NEW tree, NEW r, MayRevise(tree, r)
    PROVE  /\ r \in Reports
           /\ NextRevision(tree, r) \in ReportSlots
           /\ tree[NextRevision(tree, r)] = Absent
           /\ \A q \in Reports : \A k \in Revisions(q) :
                 RevisionSlots[q][k] = NextRevision(tree, r) => q = r /\ k = Latest(tree, r) + 1
<1> DEFINE n == Latest(tree, r)
<1>1. r \in Reports /\ Contiguous(tree, r) /\ n + 1 \in Revisions(r)
  BY DEF MayRevise
<1>2. n \in Nat
  BY <1>1, LatestIsNatural
<1>3. There(tree, RevisionSlots[r][n + 1]) = (n + 1 <= n)
  BY <1>1 DEF Contiguous
<1>4. NextRevision(tree, r) = RevisionSlots[r][n + 1]
  BY DEF NextRevision
<1> HIDE DEF n
<1>a. ~ (n + 1 <= n)
  BY <1>2
<1>5. ~ There(tree, RevisionSlots[r][n + 1])
  BY <1>3, <1>a, Zenon
<1>6. RevisionSlots[r][n + 1] \in ReportSlots
  BY <1>1, RevisionIsSlot
<1>7. \A q \in Reports : \A k \in Revisions(q) :
         RevisionSlots[q][k] = RevisionSlots[r][n + 1] => q = r /\ k = n + 1
  BY <1>1, RevisionAssumption
<1> QED
  BY <1>1, <1>4, <1>5, <1>6, <1>7 DEF There, n

(* The records of no Task have changed.                                     *)
LEMMA SameTasksSameKeys ==
    ASSUME NEW old, NEW new, \A t \in Tasks : new[t] = old[t], KeysAreUnique(old)
    PROVE  KeysAreUnique(new)
BY DEF KeysAreUnique, There

LEMMA SameTask ==
    ASSUME NEW old, NEW new, NEW t \in Tasks, new[t] = old[t], There(old, t)
    PROVE  /\ There(new, t) /\ new[t].key = old[t].key
           /\ new[t].state \in Transitions[old[t].state] \cup {old[t].state}
BY DEF There

LEMMA SamePolicy ==
    ASSUME NEW old, NEW new, new["policy"] = old["policy"], There(old, "policy")
    PROVE  /\ There(new, "policy")
           /\ Cardinality({f \in DOMAIN old["policy"] :
                              new["policy"][f] # old["policy"][f]}) <= 1
<1>1. {f \in DOMAIN old["policy"] : new["policy"][f] # old["policy"][f]} = {}
  OBVIOUS
<1> QED
  BY <1>1, FS_EmptySet DEF There

(* Whoever only adds records, and no Task, keeps those that there are.      *)
LEMMA AddingKeeps ==
    ASSUME NEW old, NEW new, Changed(old, new) \cap Tasks = {},
           \A s \in Changed(old, new) \cap (Protocol \ {"linear"}) : old[s] = Absent
    PROVE  RecordsKept(old, new)
<1>1. \A s \in Protocol \ {"linear"} : There(old, s) => new[s] = old[s]
  BY UnchangedSlots DEF There, Slots
<1>2. \A s \in Evidence : s \in Protocol \ {"linear"}
  BY KindAssumption DEF Evidence, Protocol
<1>3. \A t \in Tasks : new[t] = old[t]
  BY UnchangedSlots DEF Slots, Protocol
<1>4. Managed(old) => Managed(new)
  <2>1. Managed(old) => There(old, "project")
    BY DEF Managed, There, Absent
  <2> QED
    BY <1>1, <2>1 DEF Managed, Protocol
<1>5. KeysAreUnique(old) => KeysAreUnique(new)
  BY <1>3, SameTasksSameKeys
<1>6. \A t \in Tasks : There(old, t) =>
         /\ There(new, t) /\ new[t].key = old[t].key
         /\ new[t].state \in Transitions[old[t].state] \cup {old[t].state}
  BY <1>3, SameTask
<1>7. There(old, "policy") =>
         /\ There(new, "policy")
         /\ Cardinality({f \in DOMAIN old["policy"] :
                            new["policy"][f] # old["policy"][f]}) <= 1
  <2>1. There(old, "policy") => new["policy"] = old["policy"]
    BY <1>1 DEF Protocol
  <2> QED
    BY <2>1, SamePolicy
<1> QED
  BY <1>1, <1>2, <1>4, <1>5, <1>6, <1>7 DEF RecordsKept, Evidence

LEMMA NoRevisionIsSourced ==
    ASSUME NEW old, NEW new, Changed(old, new) \cap ReportSlots = {}
    PROVE  Sourced(old, new)
BY RevisionIsSlot DEF Sourced

(* One decision, over the one revision that it expected.                    *)
LEMMA DecisionIsSource ==
    ASSUME NEW old, NEW new, NEW r, MayRevise(old, r),
           Changed(old, new) \cap ReportSlots \subseteq {NextRevision(old, r)},
           Changed(old, new) \cap Impacts = {},
           NEW d \in Decisions, Changed(old, new) \cap Decisions = {d},
           new[d].report = r, new[d].expected = Latest(old, r)
    PROVE  Sourced(old, new)
<1> SUFFICES ASSUME NEW q \in Reports, NEW k \in Revisions(q),
                    RevisionSlots[q][k] \in Changed(old, new)
             PROVE  /\ k = Latest(old, q) + 1
                    /\ Cardinality(SourcesOf(old, new, q, k)) = 1
  BY DEF Sourced
<1>1. q = r /\ k = Latest(old, r) + 1
  BY RevisionIsSlot, NextIsNew
<1>2. Latest(old, r) \in Nat
  BY NextIsNew, LatestIsNatural
<1>3. new[d].expected = k - 1
  BY <1>1, <1>2
<1>4. SourcesOf(old, new, q, k) = {d}
  BY <1>1, <1>3 DEF SourcesOf
<1> QED
  BY <1>1, <1>4, FS_Singleton

(* One Impact, over the revisions of its Reports that it expected.          *)
LEMMA ImpactIsSource ==
    ASSUME NEW old, NEW new, NEW reports, \A r \in reports : MayRevise(old, r),
           Changed(old, new) \cap ReportSlots \subseteq {NextRevision(old, r) : r \in reports},
           Changed(old, new) \cap Decisions = {},
           NEW i \in Impacts, Changed(old, new) \cap Impacts = {i},
           DOMAIN new[i].items = reports,
           \A r \in reports : new[i].items[r].expected = Latest(old, r)
    PROVE  Sourced(old, new)
<1> SUFFICES ASSUME NEW q \in Reports, NEW k \in Revisions(q),
                    RevisionSlots[q][k] \in Changed(old, new)
             PROVE  /\ k = Latest(old, q) + 1
                    /\ Cardinality(SourcesOf(old, new, q, k)) = 1
  BY DEF Sourced
<1>1. PICK r \in reports : RevisionSlots[q][k] = NextRevision(old, r)
  BY RevisionIsSlot
<1>2. q = r /\ k = Latest(old, r) + 1
  BY <1>1, NextIsNew
<1>3. Latest(old, r) \in Nat
  BY <1>1, NextIsNew, LatestIsNatural
<1>4. new[i].items[r].expected = k - 1
  BY <1>2, <1>3
<1>5. SourcesOf(old, new, q, k) = {i}
  BY <1>2, <1>4 DEF SourcesOf
<1> QED
  BY <1>2, <1>5, FS_Singleton

(* Additions only are what _require_exact_changes lets through.             *)
LEMMA ImpactIsLawful ==
    ASSUME NEW p, NEW b \in Branches, ImpactPasses(p, b)
    PROVE  Lawful(Base(p), HeadTree(p))
<1> DEFINE old == Base(p)
           new == HeadTree(p)
<1>1. PICK reports, kind :
        /\ reports \subseteq Reports /\ \A r \in reports : MayRevise(old, r)
        /\ Exactly(old, new, Impact(p.base, kind, b.id, reports))
        /\ b.id \in Impacts
  <2>1. Concerned(p.base) \subseteq Reports
    BY DEF Concerned
  <2> QED
    BY <2>1 DEF ImpactPasses
<1> DEFINE changes == Impact(p.base, kind, b.id, reports)
<1>2. /\ DOMAIN changes = {b.id} \cup {NextRevision(old, r) : r \in reports}
      /\ DOMAIN changes[b.id].items = reports
      /\ \A r \in reports : changes[b.id].items[r].expected = Latest(old, r)
  <2> DEFINE record == [state |-> kind, target |-> p.base,
                        items |-> [r \in reports |->
                            [expected |-> Latest(old, r),
                             report |-> Revised(p.base, Report(old, r))]]]
         slots == {NextRevision(old, r) : r \in reports}
         rest == [s \in slots |->
                     Revised(p.base, Report(old, CHOOSE r \in reports :
                                                     s = NextRevision(old, r)))]
  <2>1. changes = Both(One(b.id, record), rest)
    BY DEF Impact, Base
  <2>r. DOMAIN rest = slots
    OBVIOUS
  <2>2. DOMAIN record.items = reports
        /\ \A r \in reports : record.items[r].expected = Latest(old, r)
    OBVIOUS
  <2> HIDE DEF record, changes, old, rest
  <2>3. DOMAIN changes = {b.id} \cup {NextRevision(old, r) : r \in reports}
    BY <2>1, <2>r DEF Both, One
  <2>4. changes[b.id] = record
    BY <2>1 DEF Both, One
  <2> QED
    BY <2>2, <2>3, <2>4
<1> HIDE DEF changes
<1>3. /\ Changed(old, new) = DOMAIN changes
      /\ \A s \in DOMAIN changes : old[s] = Absent /\ new[s] = changes[s]
  BY <1>1 DEF Exactly, changes
<1> HIDE DEF old, new
<1>4. \A s \in Changed(old, new) : s = b.id \/ s \in ReportSlots
  BY <1>1, <1>2, <1>3, NextIsNew
<1>5. /\ Changed(old, new) \cap Tasks = {} /\ Changed(old, new) \cap Decisions = {}
      /\ Changed(old, new) \cap Impacts = {b.id}
      /\ Changed(old, new) \cap ReportSlots \subseteq {NextRevision(old, r) : r \in reports}
  BY <1>1, <1>2, <1>3, <1>4, KindAssumption
<1>6. new[b.id] = changes[b.id]
  BY <1>2, <1>3
<1>7. RecordsKept(old, new)
  BY <1>3, <1>5, AddingKeeps
<1>8. Sourced(old, new)
  <2>1. DOMAIN new[b.id].items = reports
        /\ \A r \in reports : new[b.id].items[r].expected = Latest(old, r)
    BY <1>2, <1>6
  <2>2. \A r \in reports : MayRevise(old, r)
    BY <1>1
  <2>3. b.id \in Impacts
    BY <1>1
  <2> QED
    BY <1>5, <2>1, <2>2, <2>3, ImpactIsSource
<1> QED
  BY <1>7, <1>8 DEF Lawful, old, new

LEMMA DecisionIsLawful ==
    ASSUME NEW p, NEW b \in Branches, b.kind = "decision", DecisionPasses(p, b)
    PROVE  Lawful(Base(p), HeadTree(p))
<1> DEFINE old == Base(p)
           new == HeadTree(p)
<1>1. PICK d : MayDecide(p.base, d) /\ Exactly(old, new, Decision(p.base, b.id, d))
  BY DEF DecisionPasses
<1> DEFINE changes == Decision(p.base, b.id, d)
<1>2. /\ DOMAIN changes = {b.id, NextRevision(old, d.report)}
      /\ changes[b.id].report = d.report
      /\ changes[b.id].expected = Latest(old, d.report)
  <2> DEFINE record == [state |-> d.disposition, impact |-> d.impact, report |-> d.report,
                        expected |-> Latest(old, d.report), base |-> p.base,
                        task |-> d.task, deps |-> d.deps]
  <2>1. PICK revision :
          changes = Both(One(b.id, record), One(NextRevision(old, d.report), revision))
    BY DEF Decision, Base
  <2>2. record.report = d.report /\ record.expected = Latest(old, d.report)
    OBVIOUS
  <2> HIDE DEF record, changes, old
  <2>3. DOMAIN changes = {b.id, NextRevision(old, d.report)} /\ changes[b.id] = record
    BY <2>1 DEF Both, One
  <2> QED
    BY <2>2, <2>3
<1> HIDE DEF changes
<1>3. /\ Changed(old, new) = DOMAIN changes
      /\ \A s \in DOMAIN changes : old[s] = Absent /\ new[s] = changes[s]
  BY <1>1 DEF Exactly, changes
<1>4. MayRevise(old, d.report)
  BY <1>1 DEF MayDecide, Base
<1> HIDE DEF old, new
<1>5. b.id \in Decisions /\ NextRevision(old, d.report) \in ReportSlots
  BY <1>4, NextIsNew, DecisionAssumption
<1>6. /\ Changed(old, new) \cap Tasks = {} /\ Changed(old, new) \cap Impacts = {}
      /\ Changed(old, new) \cap Decisions = {b.id}
      /\ Changed(old, new) \cap ReportSlots \subseteq {NextRevision(old, d.report)}
  BY <1>2, <1>3, <1>5, KindAssumption
<1>7. new[b.id].report = d.report /\ new[b.id].expected = Latest(old, d.report)
  BY <1>2, <1>3
<1>8. RecordsKept(old, new)
  BY <1>3, <1>6, AddingKeeps
<1>9. Sourced(old, new)
  BY <1>4, <1>5, <1>6, <1>7, DecisionIsSource
<1> QED
  BY <1>8, <1>9 DEF Lawful, old, new

(* The commit that proposes adds the Submission only.                       *)
LEMMA ProposalAdds ==
    ASSUME NEW p, NEW c, NEW id, ProposalPasses(p, c, id)
    PROVE  Changed(Base(p), c.tree) = {id} /\ Base(p)[id] = Absent
<1>1. PICK cell : Exactly(Base(p), c.tree, One(id, cell))
  BY DEF ProposalPasses
<1> QED
  BY <1>1 DEF Exactly, One

LEMMA AcceptanceIsLawful ==
    ASSUME NEW p, NEW id \in Submissions, AcceptancePasses(p, id)
    PROVE  Lawful(Base(p), HeadTree(p))
<1> DEFINE old == Base(p)
           proposed == p.commits[1].tree
           new == HeadTree(p)
           s == proposed[id]
<1>1. /\ Changed(old, proposed) = {id} /\ old[id] = Absent
      /\ MayRevise(old, s.report) /\ s.expected = Latest(old, s.report)
  BY ProposalAdds DEF AcceptancePasses, RevisionExpected
<1>2. PICK d \in Decisions :
        LET accepted == Acceptance(p.base, id, s, d, new[d].scope)
        IN  /\ d \in Changed(proposed, new) /\ old[d] = Absent /\ new[d].state = "accept"
            /\ Changed(proposed, new) = DOMAIN accepted
            /\ \A slot \in Changed(proposed, new) : new[slot] = accepted[slot]
  BY DEF AcceptancePasses
<1> DEFINE accepted == Acceptance(p.base, id, s, d, new[d].scope)
<1>3. d # id
  BY KindAssumption
<1>4. /\ DOMAIN accepted = {id, d, NextRevision(old, s.report)}
      /\ accepted[d].report = s.report /\ accepted[d].expected = s.expected
  <2> DEFINE verdict == [state |-> "accept", submission |-> id, report |-> s.report,
                         expected |-> s.expected, scope |-> new[d].scope]
  <2>1. PICK taken, report :
          accepted = Both(One(id, taken), Both(One(d, verdict),
                                               One(NextRevision(old, s.report), report)))
    BY DEF Acceptance, Base
  <2>2. verdict.report = s.report /\ verdict.expected = s.expected
    OBVIOUS
  <2> HIDE DEF accepted, verdict, s, old, new
  <2>3. accepted[d] = verdict
    BY <1>3, <2>1 DEF Both, One
  <2>4. DOMAIN accepted = {id, d, NextRevision(old, s.report)}
    BY <2>1 DEF Both, One
  <2> QED
    BY <2>2, <2>3, <2>4
<1>5. /\ d \in Changed(proposed, new) /\ old[d] = Absent /\ new[d].state = "accept"
      /\ Changed(proposed, new) = {id, d, NextRevision(old, s.report)}
      /\ new[d] = accepted[d]
  BY <1>2, <1>4
<1> HIDE DEF accepted, s, old, proposed, new
<1>6. new[d].report = s.report /\ new[d].expected = Latest(old, s.report)
  BY <1>1, <1>4, <1>5
<1>7. \A x \in Changed(old, new) : x \in {id, d, NextRevision(old, s.report)}
  BY <1>1, <1>5 DEF Changed
<1>8. NextRevision(old, s.report) \in ReportSlots /\ old[NextRevision(old, s.report)] = Absent
  BY <1>1, NextIsNew
<1>9. d \in Changed(old, new)
  <2>1. new[d] # Absent
    BY <1>5 DEF Absent
  <2> QED
    BY <1>5, <2>1 DEF Changed
<1>10. /\ Changed(old, new) \cap Tasks = {} /\ Changed(old, new) \cap Impacts = {}
       /\ Changed(old, new) \cap Decisions = {d}
       /\ Changed(old, new) \cap ReportSlots \subseteq {NextRevision(old, s.report)}
  BY <1>7, <1>8, <1>9, KindAssumption
<1>11. \A x \in Changed(old, new) : old[x] = Absent
  BY <1>1, <1>5, <1>7, <1>8
<1>12. RecordsKept(old, new)
  BY <1>10, <1>11, AddingKeeps
<1>13. Sourced(old, new)
  BY <1>1, <1>6, <1>10, DecisionIsSource
<1> QED
  BY <1>12, <1>13 DEF Lawful, old, new

LEMMA SubmissionIsLawful ==
    ASSUME NEW p, NEW b \in Branches, SubmissionPasses(p, b)
    PROVE  Lawful(Base(p), HeadTree(p))
<1>1. b.id \in Submissions
  BY DEF SubmissionPasses
<1>2. CASE AcceptancePasses(p, b.id)
  BY <1>1, <1>2, AcceptanceIsLawful
<1>3. CASE Len(p.commits) = 1 /\ ProposalPasses(p, p.commits[1], b.id)
  <2>1. Changed(Base(p), HeadTree(p)) = {b.id} /\ Base(p)[b.id] = Absent
    BY <1>3, ProposalAdds DEF HeadTree
  <2>2. b.id \notin Tasks \cup ReportSlots
    BY <1>1, KindAssumption
  <2>3. RecordsKept(Base(p), HeadTree(p)) /\ Sourced(Base(p), HeadTree(p))
    BY <2>1, <2>2, AddingKeeps, NoRevisionIsSourced
  <2> QED
    BY <2>3 DEF Lawful
<1> QED
  BY <1>2, <1>3 DEF SubmissionPasses

(* One Task is added, moved or canceled.                                    *)
LEMMA TaskIsLawful ==
    ASSUME NEW p, NEW b \in Branches, TaskPasses(p, b)
    PROVE  Lawful(Base(p), HeadTree(p))
<1> DEFINE old == Base(p)
           new == HeadTree(p)
<1>1. PICK t, command :
        /\ t \in Tasks /\ Changed(old, new) = {t} /\ There(new, t)
        /\ TaskMoves(command, old[t], new[t]) /\ KeysAreUnique(new)
  BY DEF TaskPasses
<1> HIDE DEF old, new
<1>2. \A s \in Slots \ {t} : new[s] = old[s]
  BY <1>1, UnchangedSlots
<1>3. \A s \in Evidence \cup {"project", "policy"} : s \in Slots \ {t}
  BY <1>1, KindAssumption DEF Evidence, Slots, Protocol
<1>4. There(old, t) =>
        new[t].key = old[t].key /\ new[t].state \in Transitions[old[t].state]
  <2>1. There(old, t) => old[t] # Absent
    BY DEF There
  <2>2. CASE /\ new[t].key = old[t].key
             /\ new[t].state \in Transitions[old[t].state]
    BY <2>2
  <2>3. CASE /\ old[t].state \in DOMAIN Transitions \ {"done", "canceled"}
             /\ new[t].state = "canceled" /\ new[t].key = old[t].key
    BY <2>3 DEF Transitions
  <2>4. CASE old[t] = Absent
    BY <2>1, <2>4
  <2> QED
    BY <1>1, <2>2, <2>3, <2>4 DEF TaskMoves
<1>5. \A u \in Tasks : There(old, u) =>
         /\ There(new, u) /\ new[u].key = old[u].key
         /\ new[u].state \in Transitions[old[u].state] \cup {old[u].state}
  <2> SUFFICES ASSUME NEW u \in Tasks, There(old, u)
               PROVE  /\ There(new, u) /\ new[u].key = old[u].key
                      /\ new[u].state \in Transitions[old[u].state] \cup {old[u].state}
    OBVIOUS
  <2>1. CASE u = t
    BY <1>1, <1>4, <2>1
  <2>2. CASE u # t
    BY <1>2, <2>2, SameTask DEF Slots, Protocol
  <2> QED
    BY <2>1, <2>2
<1>6. Managed(old) => Managed(new)
  BY <1>2, <1>3 DEF Managed
<1>7. There(old, "policy") =>
         /\ There(new, "policy")
         /\ Cardinality({f \in DOMAIN old["policy"] :
                            new["policy"][f] # old["policy"][f]}) <= 1
  <2>1. new["policy"] = old["policy"]
    BY <1>2, <1>3
  <2> QED
    BY <2>1, SamePolicy
<1>8. RecordsKept(old, new)
  BY <1>1, <1>2, <1>3, <1>5, <1>6, <1>7 DEF RecordsKept, Evidence
<1>9. Sourced(old, new)
  <2>1. Changed(old, new) \cap ReportSlots = {}
    BY <1>1, KindAssumption
  <2> QED
    BY <2>1, NoRevisionIsSourced
<1> QED
  BY <1>8, <1>9 DEF Lawful, old, new

(* One field of the policy is set.                                          *)
LEMMA PolicyIsLawful ==
    ASSUME NEW p, NEW b \in Branches, PolicyPasses(p, b)
    PROVE  Lawful(Base(p), HeadTree(p))
<1> DEFINE old == Base(p)
           new == HeadTree(p)
<1>1. PICK field :
        /\ Changed(old, new) = {"policy"}
        /\ new["policy"] # Absent
        /\ new["policy"] = [old["policy"] EXCEPT ![field] = new["policy"][field]]
  BY DEF PolicyPasses, ReviewPolicyPasses, LayoutPolicyPasses, GovernancePolicyPasses,
         ChangesOnly
<1> HIDE DEF old, new
<1>2. \A s \in Slots \ {"policy"} : new[s] = old[s]
  BY <1>1, UnchangedSlots
<1>3. \A s \in Evidence \cup Tasks : s \in Slots \ {"policy"}
  BY KindAssumption DEF Evidence, Slots, Protocol
<1>4. Cardinality({f \in DOMAIN old["policy"] : new["policy"][f] # old["policy"][f]}) <= 1
  <2> DEFINE changed == {f \in DOMAIN old["policy"] : new["policy"][f] # old["policy"][f]}
  <2>1. changed \in SUBSET {field}
    BY <1>1
  <2> HIDE DEF changed
  <2>2. IsFiniteSet({field}) /\ Cardinality({field}) = 1
    BY FS_Singleton
  <2>3. Cardinality(changed) <= Cardinality({field})
    BY <2>1, <2>2, FS_Subset
  <2>4. Cardinality(changed) <= 1
    BY <2>2, <2>3
  <2> QED
    BY <2>4 DEF changed
<1>5. Managed(old) => Managed(new)
  BY <1>2, KindAssumption DEF Managed, Slots, Protocol
<1>6. \A t \in Tasks : new[t] = old[t]
  BY <1>2, <1>3
<1>7. KeysAreUnique(old) => KeysAreUnique(new)
  BY <1>6, SameTasksSameKeys
<1>8. \A t \in Tasks : There(old, t) =>
         /\ There(new, t) /\ new[t].key = old[t].key
         /\ new[t].state \in Transitions[old[t].state] \cup {old[t].state}
  BY <1>6, SameTask
<1>9. RecordsKept(old, new)
  BY <1>1, <1>2, <1>3, <1>4, <1>5, <1>7, <1>8 DEF RecordsKept, Evidence, There
<1>10. Sourced(old, new)
  <2>1. Changed(old, new) \cap ReportSlots = {}
    BY <1>1, KindAssumption
  <2> QED
    BY <2>1, NoRevisionIsSourced
<1> QED
  BY <1>9, <1>10 DEF Lawful, old, new

LEMMA LinearIsLawful ==
    ASSUME NEW p, NEW b \in Branches, LinearPasses(p, b)
    PROVE  Lawful(Base(p), HeadTree(p))
<1>1. Changed(Base(p), HeadTree(p)) = {"linear"}
  BY DEF LinearPasses
<1>2. "linear" \notin Tasks \cup ReportSlots
  BY KindAssumption
<1> QED
  BY <1>1, <1>2, AddingKeeps, NoRevisionIsSourced DEF Lawful

(* Before bootstrap.accept there is no record to be kept.                   *)
LEMMA BootstrapIsLawful ==
    ASSUME NEW p, NEW b \in Branches, BootstrapPasses(p, b),
           IsTree(Base(p)), IsTree(HeadTree(p))
    PROVE  Lawful(Base(p), HeadTree(p))
<1> DEFINE old == Base(p)
           new == HeadTree(p)
<1>1. \/ Len(p.commits) = 1 /\ BootstrapProposed(p, p.commits[1])
      \/ Manifest(old, "bootstrapping") /\ new = [old EXCEPT !["project"].state = "managed"]
      \/ /\ BootstrapProposed(p, p.commits[1])
         /\ new = [p.commits[1].tree EXCEPT !["project"].state = "managed"]
  BY DEF BootstrapPasses
<1>2. \A s \in Protocol \ {"project", "policy"} : ~ There(old, s) /\ ~ There(new, s)
  <2>1. CASE Len(p.commits) = 1 /\ BootstrapProposed(p, p.commits[1])
    BY <2>1 DEF BootstrapProposed, Manifest, HeadTree
  <2>2. CASE /\ Manifest(old, "bootstrapping")
             /\ new = [old EXCEPT !["project"].state = "managed"]
    <3>1. \A s \in Slots \ {"project"} : new[s] = old[s]
      BY <2>2 DEF IsTree
    <3> QED
      BY <2>2, <3>1 DEF Manifest, There, Slots
  <2>3. CASE /\ BootstrapProposed(p, p.commits[1])
             /\ new = [p.commits[1].tree EXCEPT !["project"].state = "managed"]
    <3>1. DOMAIN new = Slots
      BY DEF IsTree
    <3>2. \A s \in Slots \ {"project"} : new[s] = p.commits[1].tree[s]
      BY <2>3, <3>1
    <3>3. \A s \in Protocol \ {"project", "policy"} :
             ~ There(old, s) /\ ~ There(p.commits[1].tree, s)
      BY <2>3 DEF BootstrapProposed, Manifest
    <3> QED
      BY <3>2, <3>3 DEF There, Slots
  <2> QED
    BY <1>1, <2>1, <2>2, <2>3
<1>3. ~ Managed(old)
  <2>1. CASE Manifest(old, "bootstrapping")
    BY <2>1 DEF Manifest, Managed
  <2>2. CASE BootstrapProposed(p, p.commits[1])
    <3>1. ~ There(old, "project")
      BY <2>2 DEF BootstrapProposed, Protocol
    <3> QED
      BY <3>1 DEF There, Managed, Absent
  <2> QED
    BY <1>1, <2>1, <2>2
<1>4. There(old, "policy") => new["policy"] = old["policy"]
  <2>1. CASE BootstrapProposed(p, p.commits[1])
    BY <2>1 DEF BootstrapProposed, Protocol
  <2>2. CASE new = [old EXCEPT !["project"].state = "managed"]
    BY <2>2 DEF IsTree, Slots, Protocol
  <2> QED
    BY <1>1, <2>1, <2>2
<1> HIDE DEF old, new
<1>5. \A s \in Evidence \cup Tasks : s \in Protocol \ {"project", "policy"}
  BY KindAssumption DEF Evidence, Protocol
<1>6. KeysAreUnique(new)
  BY <1>2, <1>5 DEF KeysAreUnique
<1>7. There(old, "policy") =>
         /\ There(new, "policy")
         /\ Cardinality({f \in DOMAIN old["policy"] :
                            new["policy"][f] # old["policy"][f]}) <= 1
  BY <1>4, SamePolicy
<1>8. RecordsKept(old, new)
  BY <1>2, <1>3, <1>5, <1>6, <1>7 DEF RecordsKept, Evidence
<1>9. Changed(old, new) \cap ReportSlots = {}
  BY <1>2, <1>5 DEF Changed, There, Evidence
<1> QED
  BY <1>8, <1>9, NoRevisionIsSourced DEF Lawful, old, new

LEMMA PassedIsLawful ==
    ASSUME NEW p, NEW b \in Branches, Validates(p, b), IsTree(Base(p)), IsTree(HeadTree(p))
    PROVE  Lawful(Base(p), HeadTree(p))
<1>1. CASE ImpactPasses(p, b)
  BY <1>1, ImpactIsLawful
<1>2. CASE b.kind = "decision" /\ DecisionPasses(p, b)
  BY <1>2, DecisionIsLawful
<1>3. CASE SubmissionPasses(p, b)
  BY <1>3, SubmissionIsLawful
<1>4. CASE TaskPasses(p, b)
  BY <1>4, TaskIsLawful
<1>5. CASE PolicyPasses(p, b)
  BY <1>5, PolicyIsLawful
<1>6. CASE LinearPasses(p, b)
  BY <1>6, LinearIsLawful
<1>7. CASE BootstrapPasses(p, b)
  BY <1>7, BootstrapIsLawful
<1>8. CASE Changed(Base(p), HeadTree(p)) \cap Protocol = {}
  <2>1. Tasks \cup ReportSlots \subseteq Protocol
    BY DEF Protocol
  <2> QED
    BY <1>8, <2>1, AddingKeeps, NoRevisionIsSourced DEF Lawful
<1> QED
  BY <1>1, <1>2, <1>3, <1>4, <1>5, <1>6, <1>7, <1>8 DEF Validates

-----------------------------------------------------------------------------
(* The line only grows, so a verdict over the tree of an event stands.      *)
TreesFit == \A n \in DOMAIN line : IsTree(line[n])
JudgedAt(b) ==
    pr[b].open /\ pr[b].verdict = "passed" =>
        Lawful(line[pr[b].base], HeadTree(pr[b]))
Judged == \A b \in Branches : JudgedAt(b)
Based == Len(line) > 0 /\ \A b \in Branches : pr[b].open => pr[b].base > 0
Stands == TreesFit /\ Judged /\ Based
Standing == Ordered /\ Stands

LEMMA LineIsLong ==
    ASSUME Standing
    PROVE  Len(line) \in Nat /\ DOMAIN line = 1 .. Len(line) /\ IsTree(Main)
<1>1. PICK S : line \in Seq(S)
  BY DEF Standing, Ordered
<1>2. Len(line) \in Nat /\ DOMAIN line = 1 .. Len(line) /\ Len(line) > 0
  BY <1>1 DEF Standing, Stands, Based
<1> QED
  BY <1>2 DEF Standing, Stands, TreesFit, Main

LEMMA InitStands ==
    ASSUME Init
    PROVE  Standing
<1>1. Ordered
  BY InitIsOrdered
<1>2. /\ line \in Seq({line[n] : n \in DOMAIN line}) /\ line # <<>>
      /\ \A n \in DOMAIN line : IsTree(line[n])
      /\ pr = [b \in Branches |-> Closed]
  BY LineAssumption DEF Init, IsTree
<1>3. Len(line) > 0
  BY <1>2
<1>4. \A b \in Branches : ~ pr[b].open
  BY <1>2 DEF Closed
<1> QED
  BY <1>1, <1>2, <1>3, <1>4 DEF Standing, Stands, TreesFit, Judged, JudgedAt, Based

(* One pull request is replaced and the line stays.                         *)
LEMMA OneStands ==
    ASSUME Standing, NEW b \in Branches, NEW p, pr' = [pr EXCEPT ![b] = p], UNCHANGED line,
           p.open => p.base > 0,
           p.open /\ p.verdict = "passed" => Lawful(line[p.base], HeadTree(p))
    PROVE  Stands'
<1>1. /\ pr'[b] = p
      /\ \A c \in Branches \ {b} : pr'[c] = pr[c]
  BY DEF Standing, Ordered
<1>2. ASSUME NEW c \in Branches
      PROVE  /\ pr'[c].open => pr'[c].base > 0
             /\ pr'[c].open /\ pr'[c].verdict = "passed" =>
                   Lawful(line[pr'[c].base], HeadTree(pr'[c]))
  <2>1. CASE c = b
    BY <1>1, <2>1
  <2>2. CASE c # b
    BY <1>1, <2>2 DEF Standing, Stands, Based, Judged, JudgedAt
  <2> QED
    BY <2>1, <2>2
<1>3. TreesFit' /\ Len(line') > 0
  BY DEF Standing, Stands, TreesFit, Based
<1> QED
  BY <1>2, <1>3 DEF Stands, Based, Judged, JudgedAt

LEMMA EventStands ==
    ASSUME Standing, NEW b \in Branches, NEW fork, NEW commits, NEW approved,
           pr' = [pr EXCEPT ![b] = Event(fork, commits, approved)], UNCHANGED line
    PROVE  Stands'
<1> DEFINE p == Event(fork, commits, approved)
<1>1. p.base = Len(line) /\ p.verdict = "none"
  BY DEF Event, Open
<1> HIDE DEF p
<1>2. Len(line) > 0
  BY DEF Standing, Stands, Based
<1> QED
  BY <1>1, <1>2, OneStands DEF p

LEMMA ReopenStands ==
    ASSUME Standing, NEW b \in Branches, Reopen(b)
    PROVE  Stands'
<1> DEFINE p == Open(pr[b].fork, Len(line), pr[b].commits, "none",
                     pr[b].approved, pr[b].reviewed)
<1>1. /\ pr' = [pr EXCEPT ![b] = p] /\ UNCHANGED line
      /\ p.base = Len(line) /\ p.verdict = "none"
  BY DEF Reopen, Open
<1> HIDE DEF p
<1>2. Len(line) > 0
  BY DEF Standing, Stands, Based
<1> QED
  BY <1>1, <1>2, OneStands

LEMMA CloseStands ==
    ASSUME Standing, NEW b \in Branches, Close(b)
    PROVE  Stands'
<1>1. pr' = [pr EXCEPT ![b] = Closed] /\ UNCHANGED line /\ ~ Closed.open
  BY DEF Close, Closed
<1> QED
  BY <1>1, OneStands

LEMMA ApproveStands ==
    ASSUME Standing, NEW b \in Branches, Approve(b)
    PROVE  Stands'
<1> DEFINE p == Open(pr[b].fork, pr[b].base, pr[b].commits, pr[b].verdict, TRUE, TRUE)
<1>1. /\ pr' = [pr EXCEPT ![b] = p] /\ UNCHANGED line /\ pr[b].open
      /\ p.base = pr[b].base /\ p.verdict = pr[b].verdict /\ p.commits = pr[b].commits
  BY DEF Approve, Open
<1> HIDE DEF p
<1>2. HeadTree(p) = HeadTree(pr[b])
  BY <1>1 DEF HeadTree
<1>3. /\ pr[b].base > 0
      /\ pr[b].verdict = "passed" => Lawful(line[pr[b].base], HeadTree(pr[b]))
  BY <1>1 DEF Standing, Stands, Based, Judged, JudgedAt
<1> QED
  BY <1>1, <1>2, <1>3, OneStands

(* The check itself: the one step that judges.                              *)
LEMMA CheckStands ==
    ASSUME Standing, NEW b \in Branches, Check(b)
    PROVE  Stands'
<1> DEFINE verdict == IF Validates(pr[b], b) THEN "passed" ELSE "failed"
           p == Open(pr[b].fork, pr[b].base, pr[b].commits, verdict,
                     pr[b].approved, pr[b].reviewed)
<1>1. /\ pr' = [pr EXCEPT ![b] = p] /\ UNCHANGED line /\ pr[b].open
      /\ p.base = pr[b].base /\ p.verdict = verdict /\ p.commits = pr[b].commits
  BY DEF Check, Open
<1> HIDE DEF p
<1>2. HeadTree(p) = HeadTree(pr[b])
  BY <1>1 DEF HeadTree
<1>3. pr[b].base > 0 /\ pr[b].base \in DOMAIN line /\ IsTree(HeadTree(pr[b]))
  <2>1. pr[b].base > 0
    BY <1>1 DEF Standing, Stands, Based
  <2> QED
    BY <1>1, <2>1, OpenIsGood, LineIsLong DEF Standing, HasHead
<1>4. IsTree(Base(pr[b]))
  BY <1>3 DEF Standing, Stands, TreesFit, Base
<1>5. verdict = "passed" => Lawful(line[pr[b].base], HeadTree(pr[b]))
  <2>1. Validates(pr[b], b) => Lawful(Base(pr[b]), HeadTree(pr[b]))
    BY <1>3, <1>4, PassedIsLawful
  <2> QED
    BY <2>1 DEF Base
<1> HIDE DEF verdict
<1> QED
  BY <1>1, <1>2, <1>3, <1>5, OneStands

LEMMA MergeStands ==
    ASSUME Standing, NEW b \in Branches, NEW admin \in BOOLEAN, Merge(b, admin)
    PROVE  Stands'
<1> DEFINE tree == Merged(line[pr[b].fork], HeadTree(pr[b]), Main)
<1>1. line' = Append(line, tree) /\ pr' = [pr EXCEPT ![b] = Closed]
  BY DEF Merge
<1>2. IsTree(tree)
  BY MergedIsTree
<1> HIDE DEF tree
<1>3. PICK S : line \in Seq(S)
  BY DEF Standing, Ordered
<1>4. (\E T : line' \in Seq(T)) /\ Len(line') = Len(line) + 1 /\ line'[Len(line) + 1] = tree
  BY <1>1, <1>3, AppendAny
<1>5. Len(line) \in Nat /\ DOMAIN line = 1 .. Len(line)
  BY LineIsLong
<1>6. DOMAIN line' = 1 .. Len(line) + 1
  BY <1>4
<1>7. \A n \in DOMAIN line : line'[n] = line[n]
  BY <1>1, <1>3, <1>5
<1>8. TreesFit'
  <2>1. ASSUME NEW n \in DOMAIN line' PROVE IsTree(line'[n])
    <3>1. n \in DOMAIN line \/ n = Len(line) + 1
      BY <1>5, <1>6
    <3> QED
      BY <1>2, <1>4, <1>7, <3>1 DEF Standing, Stands, TreesFit
  <2> QED
    BY <2>1 DEF TreesFit
<1>9. ASSUME NEW c \in Branches
      PROVE  /\ pr'[c].open => pr'[c].base > 0
             /\ pr'[c].open /\ pr'[c].verdict = "passed" =>
                   Lawful(line'[pr'[c].base], HeadTree(pr'[c]))
  <2>1. CASE c = b
    BY <1>1, <2>1 DEF Closed, Standing, Ordered
  <2>2. CASE c # b /\ pr[c].open
    <3>1. pr'[c] = pr[c]
      BY <1>1, <2>2 DEF Standing, Ordered
    <3>2. pr[c].base > 0
      BY <2>2 DEF Standing, Stands, Based
    <3>3. pr[c].base \in DOMAIN line
      BY <1>5, <2>2, <3>2, OpenIsGood DEF Standing
    <3> QED
      BY <1>7, <2>2, <3>1, <3>2, <3>3 DEF Standing, Stands, Judged, JudgedAt
  <2>3. CASE c # b /\ ~ pr[c].open
    BY <1>1, <2>3 DEF Standing, Ordered
  <2> QED
    BY <2>1, <2>2, <2>3
<1>10. Len(line') > 0
  BY <1>4, <1>5
<1> QED
  BY <1>8, <1>9, <1>10 DEF Stands, Based, Judged, JudgedAt

LEMMA OthersStand ==
    ASSUME Standing, UNCHANGED gateVars
    PROVE  Stands'
<1>1. line' = line /\ pr' = pr
  BY DEF gateVars
<1> QED
  BY <1>1 DEF Standing, Stands, TreesFit, Judged, JudgedAt, Based

LEMMA NextStands ==
    ASSUME Standing, [Next]_vars
    PROVE  Standing'
<1>1. ASSUME UNCHANGED vars PROVE Stands'
  BY <1>1, OthersStand DEF vars, gateVars
<1>2. ASSUME NEW r \in Requests, NEW n, NEW e, Push(r, n, e) PROVE Stands'
  BY <1>2, BranchAssumption, EventStands DEF Push
<1>3. ASSUME NEW b \in Branches, NEW d, NEW scope, Accept(b, d, scope) PROVE Stands'
  BY <1>3, EventStands DEF Accept
<1>4. ASSUME NEW b \in Branches, NEW c \in Branches, AcceptBootstrap(b, c) PROVE Stands'
  BY <1>4, EventStands DEF AcceptBootstrap
<1>5. ASSUME NEW b \in Branches, UpdateBranch(b) PROVE Stands'
  BY <1>5, EventStands DEF UpdateBranch
<1>6. ASSUME NEW b \in Branches, Reopen(b) PROVE Stands'
  BY <1>6, ReopenStands
<1>7. ASSUME NEW b \in Branches, Close(b) PROVE Stands'
  BY <1>7, CloseStands
<1>8. ASSUME NEW b \in Branches, Check(b) PROVE Stands'
  BY <1>8, CheckStands
<1>9. ASSUME NEW b \in Branches, Approve(b) PROVE Stands'
  BY <1>9, ApproveStands
<1>10. ASSUME NEW b \in Branches, NEW admin \in BOOLEAN, Merge(b, admin) PROVE Stands'
  BY <1>10, MergeStands
<1>11. ASSUME AdminEdits PROVE Stands'
  BY <1>11, OthersStand DEF AdminEdits
<1>12. ASSUME Preview PROVE Stands'
  BY <1>12, OthersStand DEF Preview
<1>13. ASSUME NEW manager, BeginApply(manager) PROVE Stands'
  BY <1>13, OthersStand DEF BeginApply
<1>14. ASSUME NEW answer, NEW applied, Put(answer, applied) PROVE Stands'
  BY <1>14, OthersStand DEF Put
<1>15. ASSUME LatePut PROVE Stands'
  BY <1>15, OthersStand DEF LatePut
<1>16. ASSUME NEW readable, ReadBack(readable) PROVE Stands'
  BY <1>16, OthersStand DEF ReadBack
<1>17. ASSUME Cut PROVE Stands'
  BY <1>17, OthersStand DEF Cut
<1>18. Stands'
  BY <1>1, <1>2, <1>3, <1>4, <1>5, <1>6, <1>7, <1>8, <1>9, <1>10, <1>11, <1>12, <1>13,
     <1>14, <1>15, <1>16, <1>17 DEF Next
<1>19. Ordered'
  BY NextKeepsOrder DEF Standing
<1> QED
  BY <1>18, <1>19 DEF Standing

(* A verdict that a check has given stands until the pull request is merged  *)
(* or gets a new event, however the default branch moves on.                *)
THEOREM VerdictCorrect == Spec => []Judged
<1>1. Standing => Judged
  BY DEF Standing, Stands
<1> QED
  BY <1>1, InitStands, NextStands, PTL DEF Spec

LEMMA StandingAlways == Spec => []Standing
BY InitStands, NextStands, PTL DEF Spec

(* What is merged under a sound protection is lawful over what it replaces. *)
LEMMA MergedIsLawful ==
    ASSUME Standing, [Next]_vars, line' # line, Sound
    PROVE  Lawful(Main, line'[Len(line')])
<1>a. Next
  BY DEF vars, gateVars
<1>1. PICK b \in Branches, admin \in BOOLEAN : Merge(b, admin)
  BY <1>a, LineGrowsByMerge
<1>2. /\ pr[b].open /\ pr[b].verdict = "passed" /\ pr[b].base = Len(line)
      /\ line' = Append(line, HeadTree(pr[b]))
  BY <1>1, MergeIsAsGated DEF Standing
<1>3. PICK S : line \in Seq(S)
  BY DEF Standing, Ordered
<1>4. Len(line') = Len(line) + 1 /\ line'[Len(line) + 1] = HeadTree(pr[b])
  BY <1>2, <1>3, AppendAny
<1>5. Lawful(line[Len(line)], HeadTree(pr[b]))
  BY <1>2 DEF Standing, Stands, Judged, JudgedAt
<1> QED
  BY <1>4, <1>5 DEF Main

(* Under a sound protection no merge takes an accepted record back, whoever  *)
(* proposes what at any time.                                               *)
THEOREM AcceptedCorrect == Spec => AcceptedIsKept
<1> DEFINE Kept == line' # line /\ Sound => RecordsKept(Main, line'[Len(line')])
<1>1. ASSUME Standing, [Next]_vars PROVE [Kept]_vars
  BY <1>1, MergedIsLawful DEF Lawful
<1> QED
  BY <1>1, StandingAlways, PTL DEF Spec, AcceptedIsKept

(* Under a sound protection every revision of a Report has exactly one source. *)
THEOREM SourcedCorrect == Spec => RevisionsAreSourced
<1> DEFINE Kept == line' # line /\ Sound =>
         LET new == line'[Len(line')]
         IN  \A r \in Reports : \A k \in Revisions(r) :
               RevisionSlots[r][k] \in Changed(Main, new) =>
                  /\ k = Latest(Main, r) + 1
                  /\ Cardinality(SourcesOf(Main, new, r, k)) = 1
<1>1. ASSUME Standing, [Next]_vars PROVE [Kept]_vars
  BY <1>1, MergedIsLawful DEF Lawful, Sourced
<1> QED
  BY <1>1, StandingAlways, PTL DEF Spec, RevisionsAreSourced

-----------------------------------------------------------------------------
(* Receipts: while no administrator has changed the protection since, only   *)
(* a PUT of the full one can have.                                          *)
ReceiptHolds ==
    /\ edits \in Nat /\ apply.edits \in Nat /\ apply.edits <= edits
    /\ ReceiptIsTrue

(* A call that has no receipt yet promises nothing.                         *)
LEMMA NoReceipt ==
    ASSUME ReceiptHolds, NEW pc, NEW seen, NEW answer, NEW pending,
           apply' = Call(pc, seen, answer, "none", 0, pending), UNCHANGED edits
    PROVE  ReceiptHolds'
<1>1. apply'.edits = 0 /\ apply'.result = "none" /\ edits' \in Nat
  BY DEF Call, ReceiptHolds
<1> QED
  BY <1>1 DEF ReceiptHolds, ReceiptIsTrue

(* A call ends with a receipt of what holds, or with another result.        *)
LEMMA EndKeepsReceipt ==
    ASSUME ReceiptHolds, NEW result, Ends(result),
           UNCHANGED <<protection, rulesets, edits>>,
           result \in {"applied", "no_change"} => Healthy(Observation)
    PROVE  ReceiptHolds'
<1>1. apply'.edits = edits /\ apply'.result = result /\ edits' = edits
  BY DEF Ends, Call
<1>2. Observation' = Observation
  BY DEF Observation
<1>3. Healthy(Observation)' = Healthy(Observation)
  BY <1>2 DEF Healthy
<1>4. edits' \in Nat /\ apply'.edits \in Nat /\ apply'.edits <= edits'
  BY <1>1 DEF ReceiptHolds
<1> QED
  BY <1>1, <1>3, <1>4 DEF ReceiptHolds, ReceiptIsTrue

LEMMA UntouchedKeepsReceipt ==
    ASSUME ReceiptHolds, UNCHANGED ruleVars
    PROVE  ReceiptHolds'
<1>1. UNCHANGED <<protection, rulesets, edits, apply>>
  BY DEF ruleVars
<1>2. Healthy(Observation)' = Healthy(Observation)
  BY <1>1 DEF Healthy, Observation
<1> QED
  BY <1>1, <1>2 DEF ReceiptHolds, ReceiptIsTrue

LEMMA AdminEditsKeepReceipt ==
    ASSUME ReceiptHolds, AdminEdits
    PROVE  ReceiptHolds'
<1>1. edits' = edits + 1 /\ apply' = apply
  BY DEF AdminEdits
<1>2. edits' \in Nat /\ apply'.edits \in Nat /\ apply'.edits < edits'
  BY <1>1 DEF ReceiptHolds
<1> QED
  BY <1>2 DEF ReceiptHolds, ReceiptIsTrue

LEMMA LatePutKeepsReceipt ==
    ASSUME ReceiptHolds, LatePut
    PROVE  ReceiptHolds'
<1>1. /\ protection' = Full /\ edits' = edits
      /\ apply'.edits = apply.edits /\ apply'.result = apply.result
  BY DEF LatePut, Call
<1>2. Healthy(Observation)'
  BY <1>1 DEF Healthy, Observation, Full, Rules
<1> QED
  BY <1>1, <1>2 DEF ReceiptHolds, ReceiptIsTrue

LEMMA BeginApplyKeepsReceipt ==
    ASSUME ReceiptHolds, NEW manager, BeginApply(manager)
    PROVE  ReceiptHolds'
<1>1. UNCHANGED <<protection, rulesets, edits>>
  BY DEF BeginApply
<1>2. \/ Ends("observation_changed") \/ Ends("manager_required")
      \/ Ends("no_change") /\ Healthy(Observation)
      \/ Ends("ruleset_conflict")
      \/ apply' = Call("put", apply.seen, "none", "none", 0, apply.pending)
  BY DEF BeginApply
<1>3. CASE apply' = Call("put", apply.seen, "none", "none", 0, apply.pending)
  BY <1>1, <1>3, NoReceipt
<1>4. CASE Ends("no_change") /\ Healthy(Observation)
  BY <1>1, <1>4, EndKeepsReceipt
<1>5. ASSUME NEW result \in {"observation_changed", "manager_required", "ruleset_conflict"},
             Ends(result)
      PROVE  ReceiptHolds'
  <2>1. result \notin {"applied", "no_change"}
    OBVIOUS
  <2> QED
    BY <1>1, <1>5, <2>1, EndKeepsReceipt
<1> QED
  BY <1>2, <1>3, <1>4, <1>5

LEMMA ReadBackKeepsReceipt ==
    ASSUME ReceiptHolds, NEW readable, ReadBack(readable)
    PROVE  ReceiptHolds'
<1>1. UNCHANGED <<protection, rulesets, edits>>
  BY DEF ReadBack
<1>2. \/ Ends("applied") /\ Healthy(Observation)
      \/ \E result \in {"uncertain", "failed", "incomplete"} : Ends(result)
  BY DEF ReadBack
<1>3. CASE Ends("applied") /\ Healthy(Observation)
  BY <1>1, <1>3, EndKeepsReceipt
<1>4. ASSUME NEW result \in {"uncertain", "failed", "incomplete"}, Ends(result)
      PROVE  ReceiptHolds'
  <2>1. result \notin {"applied", "no_change"}
    OBVIOUS
  <2> QED
    BY <1>1, <1>4, <2>1, EndKeepsReceipt
<1> QED
  BY <1>2, <1>3, <1>4

LEMMA NextKeepsReceipt ==
    ASSUME ReceiptHolds, [Next]_vars
    PROVE  ReceiptHolds'
<1>1. CASE UNCHANGED vars
  BY <1>1, UntouchedKeepsReceipt DEF vars
<1>2. ASSUME NEW r, NEW n, NEW e, Push(r, n, e) PROVE ReceiptHolds'
  BY <1>2, UntouchedKeepsReceipt DEF Push
<1>3. ASSUME NEW b, NEW d, NEW scope, Accept(b, d, scope) PROVE ReceiptHolds'
  BY <1>3, UntouchedKeepsReceipt DEF Accept
<1>4. ASSUME NEW b, NEW c, AcceptBootstrap(b, c) PROVE ReceiptHolds'
  BY <1>4, UntouchedKeepsReceipt DEF AcceptBootstrap
<1>5. ASSUME NEW b, UpdateBranch(b) PROVE ReceiptHolds'
  BY <1>5, UntouchedKeepsReceipt DEF UpdateBranch
<1>6. ASSUME NEW b, Reopen(b) PROVE ReceiptHolds'
  BY <1>6, UntouchedKeepsReceipt DEF Reopen
<1>7. ASSUME NEW b, Close(b) PROVE ReceiptHolds'
  BY <1>7, UntouchedKeepsReceipt DEF Close
<1>8. ASSUME NEW b, Check(b) PROVE ReceiptHolds'
  BY <1>8, UntouchedKeepsReceipt DEF Check
<1>9. ASSUME NEW b, Approve(b) PROVE ReceiptHolds'
  BY <1>9, UntouchedKeepsReceipt DEF Approve
<1>10. ASSUME NEW b, NEW admin, Merge(b, admin) PROVE ReceiptHolds'
  BY <1>10, UntouchedKeepsReceipt DEF Merge
<1>11. CASE AdminEdits
  BY <1>11, AdminEditsKeepReceipt
<1>12. CASE Preview
  BY <1>12, NoReceipt DEF Preview
<1>13. ASSUME NEW manager, BeginApply(manager) PROVE ReceiptHolds'
  BY <1>13, BeginApplyKeepsReceipt
<1>14. ASSUME NEW answer, NEW applied, Put(answer, applied) PROVE ReceiptHolds'
  BY <1>14, NoReceipt DEF Put
<1>15. CASE LatePut
  BY <1>15, LatePutKeepsReceipt
<1>16. ASSUME NEW readable, ReadBack(readable) PROVE ReceiptHolds'
  BY <1>16, ReadBackKeepsReceipt
<1>17. CASE Cut
  BY <1>17, NoReceipt DEF Cut
<1> QED
  BY <1>1, <1>2, <1>3, <1>4, <1>5, <1>6, <1>7, <1>8, <1>9, <1>10, <1>11, <1>12, <1>13,
     <1>14, <1>15, <1>16, <1>17 DEF Next

(* A receipt that the policy holds is true until an administrator changes    *)
(* the protection again, however late an earlier PUT is applied.            *)
THEOREM ReceiptCorrect == Spec => []ReceiptIsTrue
<1>1. Init => ReceiptHolds
  BY DEF Init, ReceiptHolds, ReceiptIsTrue, Idle, Call
<1>2. ReceiptHolds /\ [Next]_vars => ReceiptHolds'
  BY NextKeepsReceipt
<1>3. ReceiptHolds => ReceiptIsTrue
  BY DEF ReceiptHolds
<1> QED
  BY <1>1, <1>2, <1>3, PTL DEF Spec

-----------------------------------------------------------------------------
(***************************************************************************)
(* LinearDelivery, for every number of events, claim_ids and comments and   *)
(* every bound on faults.  WellFormed is the inductive core: what a call    *)
(* knows in each of its phases.  Claims, receipts and uniqueness are proved *)
(* relative to it.                                                          *)
(***************************************************************************)


(* What is true of a call in each phase: the comment it waits for or found  *)
(* is a comment for its event, and a call that may still write has had its  *)
(* payload and target accepted.                                             *)
RunsKnow ==
    \A w \in ClaimIds :
        /\ run[w].pc # "idle" => run[w].event \in Events
        /\ run[w].pc = "await" =>
              /\ run[w].comment \in Comments
              /\ note[run[w].comment].event = run[w].event
        /\ run[w].pc = "finish" => run[w].verdict # "none"
        /\ run[w].verdict = "delivered" =>
              /\ run[w].comment \in Comments
              /\ Made(run[w].comment)
              /\ note[run[w].comment].event = run[w].event
        /\ run[w].pc \in {"observe", "create"} =>
              run[w].event \notin Malformed \cup Misaddressed

NotesKnow ==
    \A c \in Comments :
        note[c].event = NoEvent <=> note[c].state = "unused"

WellFormed == DeliveryTypeOK /\ RunsKnow /\ NotesKnow

(* The parts of an attempt that leave the store, Linear and the other calls *)
(* alone.                                                                   *)
USE NoClaimAssumption, NoCommentAssumption, NoEventAssumption,
    TopicAssumption, DefectAssumption, TimingAssumption, BoundAssumption

-----------------------------------------------------------------------------
LEMMA InitWellFormed == DeliveryInit => WellFormed
  BY DEF DeliveryInit, StoreInit, WellFormed, DeliveryTypeOK, StoreTypeOK, RunsKnow, NotesKnow,
         IdleCall, At, Unused, Made, Shown, OutboxStates, Phases, Verdicts

RunType == [pc: Phases, event: Events \cup {NoEvent},
            comment: Comments \cup {NoComment}, verdict: Verdicts]
NoteType == [state: {"unused", "requested", "visible", "edited", "removed", "dropped"},
             event: Events \cup {NoEvent}]

LEMMA RunTyped ==
  ASSUME run \in [ClaimIds -> RunType], NEW w \in ClaimIds, NEW pc \in Phases,
         NEW e \in Events \cup {NoEvent}, NEW c \in Comments \cup {NoComment},
         NEW v \in Verdicts, run' = [run EXCEPT ![w] = At(pc, e, c, v)]
  PROVE  run' \in [ClaimIds -> RunType]
  BY DEF RunType, At

LEMMA NoteTyped ==
  ASSUME note \in [Comments -> NoteType], NEW c \in Comments,
         NEW s \in {"unused", "requested", "visible", "edited", "removed", "dropped"},
         NEW e \in Events \cup {NoEvent}, Remark(c, s, e)
  PROVE  note' \in [Comments -> NoteType]
  BY DEF NoteType, Remark

LEMMA TypeParts ==
  DeliveryTypeOK <=> /\ StoreTypeOK
             /\ run \in [ClaimIds -> RunType]
             /\ note \in [Comments -> NoteType]
             /\ archived \subseteq Events
             /\ faults \in Nat /\ crashes \in Nat /\ drift \in Nat
  BY DEF DeliveryTypeOK, RunType, NoteType

LEMMA FieldTypes ==
  ASSUME DeliveryTypeOK
  PROVE  /\ \A w \in ClaimIds :
               /\ run[w].pc \in Phases
               /\ run[w].event \in Events \cup {NoEvent}
               /\ run[w].comment \in Comments \cup {NoComment}
               /\ run[w].verdict \in Verdicts
         /\ \A c \in Comments :
               /\ note[c].state \in
                     {"unused", "requested", "visible", "edited", "removed", "dropped"}
               /\ note[c].event \in Events \cup {NoEvent}
  BY DEF DeliveryTypeOK

LEMMA StoreStepTyped ==
  ASSUME StoreTypeOK
  PROVE  /\ \A e \in Events : EnqueueEvent(e) => StoreTypeOK'
         /\ \A e \in Events : LeaseRunsOut(e) => StoreTypeOK'
         /\ \A w \in ClaimIds, e \in Events : ClaimOldest(w, e) => StoreTypeOK'
         /\ \A w \in ClaimIds : ClaimNothing(w) => StoreTypeOK'
         /\ UNCHANGED storeVars => StoreTypeOK'
         /\ \A w \in ClaimIds : \A v, c :
               /\ FinishDelivery(w, v, c)
               /\ v \in {"retryable", "delivered", "dead_letter"}
               /\ v = "delivered" => c \in Comments
               => StoreTypeOK'
<1> USE DEF StoreTypeOK, OutboxStates, storeVars
<1>1. ASSUME NEW e \in Events, EnqueueEvent(e) PROVE StoreTypeOK'
  BY <1>1 DEF EnqueueEvent
<1>2. ASSUME NEW e \in Events, LeaseRunsOut(e) PROVE StoreTypeOK'
  BY <1>2 DEF LeaseRunsOut
<1>3. ASSUME NEW w \in ClaimIds, NEW e \in Events, ClaimOldest(w, e)
      PROVE StoreTypeOK'
  BY <1>3 DEF ClaimOldest, Unreaped
<1>4. ASSUME NEW w \in ClaimIds, ClaimNothing(w) PROVE StoreTypeOK'
  BY <1>4 DEF ClaimNothing, Unreaped
<1>5. ASSUME NEW w \in ClaimIds, NEW v, NEW c, FinishDelivery(w, v, c),
             v \in {"retryable", "delivered", "dead_letter"},
             v = "delivered" => c \in Comments
      PROVE  StoreTypeOK'
  BY <1>5 DEF FinishDelivery, Held
<1>6. QED BY <1>1, <1>2, <1>3, <1>4, <1>5

LEMMA NextTypeOK == WellFormed /\ [DeliveryNext]_deliveryVars => DeliveryTypeOK'
<1> SUFFICES ASSUME WellFormed, [DeliveryNext]_deliveryVars PROVE DeliveryTypeOK'
  OBVIOUS
<1>0. /\ StoreTypeOK
      /\ run \in [ClaimIds -> RunType]
      /\ note \in [Comments -> NoteType]
      /\ archived \subseteq Events
      /\ faults \in Nat /\ crashes \in Nat /\ drift \in Nat
  BY TypeParts DEF WellFormed
<1> HIDE DEF StoreTypeOK
<1>a. ASSUME UNCHANGED <<storeVars, remoteVars, crashes, drift>>,
             faults' = faults \/ Fault, run' \in [ClaimIds -> RunType]
      PROVE  DeliveryTypeOK'
  BY <1>0, <1>a, StoreStepTyped, TypeParts DEF remoteVars, Fault, DeliveryTypeOK, RunType
<1>b. ASSUME UNCHANGED <<storeVars, run, archived, crashes>>,
             faults' = faults \/ Fault, drift' = drift \/ Drift,
             note' \in [Comments -> NoteType]
      PROVE  DeliveryTypeOK'
  BY <1>0, <1>b, StoreStepTyped DEF Fault, Drift, DeliveryTypeOK, RunType, NoteType
<1>1. ASSUME NEW e \in Events, Enqueue(e) PROVE DeliveryTypeOK'
  BY <1>0, <1>1, StoreStepTyped
  DEF Enqueue, remoteVars, budgetVars, DeliveryTypeOK, RunType, NoteType
<1>2. ASSUME NEW e \in Events, Expire(e) PROVE DeliveryTypeOK'
  BY <1>0, <1>2, StoreStepTyped
  DEF Expire, remoteVars, budgetVars, DeliveryTypeOK, RunType, NoteType
<1>3. ASSUME NEW e \in Events, ArchiveTarget(e) PROVE DeliveryTypeOK'
  BY <1>0, <1>3, StoreStepTyped DEF ArchiveTarget, Drift, DeliveryTypeOK, RunType, NoteType
<1>4. ASSUME NEW w \in ClaimIds, Claim(w) PROVE DeliveryTypeOK'
  <2>1. StoreTypeOK'
    BY <1>0, <1>4, StoreStepTyped DEF Claim, ResumeClaim
  <2>2. run' \in [ClaimIds -> RunType]
    BY <1>0, <1>4, RunTyped DEF Claim, Phases, Verdicts
  <2>3. QED
    BY <1>0, <1>4, <2>1, <2>2 DEF Claim, remoteVars, budgetVars, DeliveryTypeOK, RunType, NoteType
<1>5. ASSUME NEW w \in ClaimIds, RejectLocally(w) PROVE DeliveryTypeOK'
  <2>1. run' \in [ClaimIds -> RunType]
    BY <1>0, <1>5, RunTyped, FieldTypes
    DEF RejectLocally, Conclude, Phases, Verdicts, WellFormed
  <2>2. QED BY <1>5, <1>a, <2>1 DEF RejectLocally, budgetVars
<1>6. ASSUME NEW w \in ClaimIds, Preflight(w) PROVE DeliveryTypeOK'
  <2>1. run' \in [ClaimIds -> RunType]
    BY <1>0, <1>6, RunTyped, FieldTypes
    DEF Preflight, Conclude, Goto, Phases, Verdicts, WellFormed
  <2>2. QED BY <1>6, <1>a, <2>1 DEF Preflight, NoFault
<1>7. ASSUME NEW w \in ClaimIds, Observe(w) PROVE DeliveryTypeOK'
  <2>1. run' \in [ClaimIds -> RunType]
    BY <1>0, <1>7, RunTyped, FieldTypes
    DEF Observe, Conclude, Goto, Phases, Verdicts, WellFormed
  <2>2. QED BY <1>7, <1>a, <2>1 DEF Observe, NoFault
<1>8. ASSUME NEW w \in ClaimIds, SendCreate(w) PROVE DeliveryTypeOK'
  <2>1. PICK c \in Comments : Goto(w, "await", c) /\ Remark(c, "requested", run[w].event)
    BY <1>8 DEF SendCreate
  <2>2. run' \in [ClaimIds -> RunType]
    BY <1>0, <2>1, RunTyped, FieldTypes DEF Goto, Phases, Verdicts, WellFormed
  <2>3. note' \in [Comments -> NoteType]
    BY <1>0, <2>1, NoteTyped, FieldTypes DEF WellFormed
  <2>4. QED
    BY <1>0, <1>8, <2>2, <2>3, StoreStepTyped
    DEF SendCreate, budgetVars, DeliveryTypeOK, RunType, NoteType
<1>9. ASSUME NEW w \in ClaimIds, ReceiveCreated(w) PROVE DeliveryTypeOK'
  <2>1. run' \in [ClaimIds -> RunType]
    BY <1>0, <1>9, RunTyped, FieldTypes
    DEF ReceiveCreated, Conclude, Phases, Verdicts, WellFormed
  <2>2. QED BY <1>9, <1>a, <2>1 DEF ReceiveCreated, budgetVars
<1>10. ASSUME NEW w \in ClaimIds, ReceiveGarbled(w) PROVE DeliveryTypeOK'
  <2>1. run' \in [ClaimIds -> RunType]
    BY <1>0, <1>10, RunTyped, FieldTypes
    DEF ReceiveGarbled, Conclude, Stop, IdleCall, Phases, Verdicts, WellFormed
  <2>2. QED BY <1>10, <1>a, <2>1 DEF ReceiveGarbled
<1>11. ASSUME NEW w \in ClaimIds, CreateUnavailable(w) PROVE DeliveryTypeOK'
  <2>1. run' \in [ClaimIds -> RunType]
    BY <1>0, <1>11, RunTyped, FieldTypes
    DEF CreateUnavailable, Conclude, Phases, Verdicts, WellFormed
  <2>2. QED BY <1>11, <1>a, <2>1 DEF CreateUnavailable, NoFault
<1>12. ASSUME NEW w \in ClaimIds, Finish(w) PROVE DeliveryTypeOK'
  <2>1. /\ run[w].verdict \in {"retryable", "delivered", "dead_letter"}
        /\ run[w].verdict = "delivered" => run[w].comment \in Comments
    BY <1>12, FieldTypes DEF Finish, RunsKnow, Verdicts, WellFormed
  <2>2. StoreTypeOK'
    BY <1>0, <1>12, <2>1, StoreStepTyped DEF Finish, FinishRefused
  <2>3. run' \in [ClaimIds -> RunType]
    BY <1>0, <1>12, RunTyped DEF Finish, Stop, IdleCall, Phases, Verdicts
  <2>4. QED
    BY <1>0, <1>12, <2>2, <2>3 DEF Finish, remoteVars, budgetVars, DeliveryTypeOK, RunType, NoteType
<1>13. ASSUME NEW w \in ClaimIds, Crash(w) PROVE DeliveryTypeOK'
  <2>1. run' \in [ClaimIds -> RunType]
    BY <1>0, <1>13, RunTyped DEF Crash, Stop, IdleCall, Phases, Verdicts
  <2>2. QED
    BY <1>0, <1>13, <2>1, StoreStepTyped
    DEF Crash, remoteVars, DeliveryTypeOK, RunType, NoteType
<1>14. ASSUME NEW c \in Comments,
              \E s \in {"visible", "dropped", "edited", "removed"} : Remark(c, s, note[c].event)
       PROVE  note' \in [Comments -> NoteType]
  BY <1>0, <1>14, NoteTyped, FieldTypes DEF WellFormed
<1>15. ASSUME NEW c \in Comments, ApplyCreate(c) PROVE DeliveryTypeOK'
  BY <1>14, <1>15, <1>b DEF ApplyCreate, budgetVars
<1>16. ASSUME NEW c \in Comments, DropCreate(c) PROVE DeliveryTypeOK'
  BY <1>14, <1>16, <1>b DEF DropCreate
<1>17. ASSUME NEW c \in Comments, EditComment(c) PROVE DeliveryTypeOK'
  BY <1>14, <1>17, <1>b DEF EditComment
<1>18. ASSUME NEW c \in Comments, RemoveComment(c) PROVE DeliveryTypeOK'
  BY <1>14, <1>18, <1>b DEF RemoveComment
<1>19. CASE UNCHANGED deliveryVars
  BY <1>0, <1>19, StoreStepTyped
  DEF deliveryVars, remoteVars, budgetVars, DeliveryTypeOK, RunType, NoteType
<1>20. QED
  BY <1>1, <1>2, <1>3, <1>4, <1>5, <1>6, <1>7, <1>8, <1>9, <1>10, <1>11, <1>12,
     <1>13, <1>15, <1>16, <1>17, <1>18, <1>19 DEF DeliveryNext, WorkerStep

-----------------------------------------------------------------------------
(* A comment stays with its event, and what Linear has made stays made.     *)
NotesGrow ==
    \A c \in Comments :
        /\ note[c].state # "unused" => note'[c].event = note[c].event
        /\ Made(c) => Made(c)'

(* What happens to the comments in one step.                                *)
LEMMA NoteStep ==
  ASSUME WellFormed, [DeliveryNext]_deliveryVars
  PROVE  \/ note' = note
         \/ \E w \in ClaimIds, c \in Comments :
               /\ SendCreate(w)
               /\ note[c].state = "unused"
               /\ Goto(w, "await", c)
               /\ Remark(c, "requested", run[w].event)
         \/ \E c \in Comments :
               /\ run' = run /\ UNCHANGED storeVars
               /\ \/ note[c].state = "requested" /\ Remark(c, "visible", note[c].event)
                  \/ note[c].state = "requested" /\ Remark(c, "dropped", note[c].event)
                  \/ note[c].state = "visible" /\ Remark(c, "edited", note[c].event)
                  \/ Shown(c) /\ Remark(c, "removed", note[c].event)
<1>1. ASSUME NEW e \in Events, Enqueue(e) \/ Expire(e) \/ ArchiveTarget(e)
      PROVE  note' = note
  BY <1>1 DEF Enqueue, Expire, ArchiveTarget, remoteVars
<1>2. ASSUME NEW w \in ClaimIds, WorkerStep(w) \/ Crash(w), ~ SendCreate(w)
      PROVE  note' = note
  BY <1>2 DEF WorkerStep, Claim, RejectLocally, Preflight, Observe, ReceiveCreated,
     ReceiveGarbled, CreateUnavailable, Finish, Crash, remoteVars
<1>3. ASSUME NEW w \in ClaimIds, SendCreate(w)
      PROVE  \E c \in Comments :
               /\ SendCreate(w)
               /\ note[c].state = "unused"
               /\ Goto(w, "await", c)
               /\ Remark(c, "requested", run[w].event)
  BY <1>3 DEF SendCreate
<1>4. ASSUME NEW c \in Comments,
             \/ ApplyCreate(c) \/ DropCreate(c)
             \/ EditComment(c) \/ RemoveComment(c)
      PROVE  /\ run' = run /\ UNCHANGED storeVars
             /\ \/ note[c].state = "requested" /\ Remark(c, "visible", note[c].event)
                \/ note[c].state = "requested" /\ Remark(c, "dropped", note[c].event)
                \/ note[c].state = "visible" /\ Remark(c, "edited", note[c].event)
                \/ Shown(c) /\ Remark(c, "removed", note[c].event)
  BY <1>4 DEF ApplyCreate, DropCreate, EditComment, RemoveComment
<1>5. CASE UNCHANGED deliveryVars
  BY <1>5 DEF deliveryVars, remoteVars
<1>6. QED
  BY <1>1, <1>2, <1>3, <1>4, <1>5 DEF DeliveryNext

LEMMA NextNotes == WellFormed /\ [DeliveryNext]_deliveryVars => NotesGrow /\ NotesKnow'
<1> SUFFICES ASSUME WellFormed, [DeliveryNext]_deliveryVars PROVE NotesGrow /\ NotesKnow'
  OBVIOUS
<1>0. note \in [Comments -> NoteType]
  BY TypeParts DEF WellFormed
<1>1. CASE note' = note
  BY <1>1 DEF NotesGrow, NotesKnow, Made, Shown, WellFormed
<1>2. ASSUME NEW w \in ClaimIds, NEW c \in Comments, SendCreate(w),
             note[c].state = "unused", Remark(c, "requested", run[w].event)
      PROVE  NotesGrow /\ NotesKnow'
  <2>1. run[w].event \in Events
    BY <1>2 DEF SendCreate, RunsKnow, WellFormed
  <2>2. QED
    BY <1>0, <1>2, <2>1 DEF Remark, NotesGrow, NotesKnow, Made, Shown, WellFormed, NoteType
<1>3. ASSUME NEW c \in Comments,
             \/ note[c].state = "requested" /\ Remark(c, "visible", note[c].event)
             \/ note[c].state = "requested" /\ Remark(c, "dropped", note[c].event)
             \/ note[c].state = "visible" /\ Remark(c, "edited", note[c].event)
             \/ Shown(c) /\ Remark(c, "removed", note[c].event)
      PROVE  NotesGrow /\ NotesKnow'
  BY <1>0, <1>3 DEF Remark, NotesGrow, NotesKnow, Made, Shown, WellFormed, NoteType
<1>4. QED
  BY <1>1, <1>2, <1>3, NoteStep

(* A call that does not move keeps what it knows: the comments only grow.   *)
LEMMA Unmoved ==
  ASSUME WellFormed, NotesGrow, NEW u \in ClaimIds, run'[u] = run[u]
  PROVE  /\ run'[u].pc # "idle" => run'[u].event \in Events
         /\ run'[u].pc = "await" =>
               /\ run'[u].comment \in Comments
               /\ note'[run'[u].comment].event = run'[u].event
         /\ run'[u].pc = "finish" => run'[u].verdict # "none"
         /\ run'[u].verdict = "delivered" =>
               /\ run'[u].comment \in Comments
               /\ note'[run'[u].comment].state \in {"visible", "edited", "removed"}
               /\ note'[run'[u].comment].event = run'[u].event
         /\ run'[u].pc \in {"observe", "create"} =>
               run'[u].event \notin Malformed \cup Misaddressed
<1>1. ASSUME NEW c \in Comments, note[c].event \in Events
      PROVE  note'[c].event = note[c].event
  BY <1>1 DEF NotesGrow, WellFormed, NotesKnow
<1>2. CASE run[u].pc = "await"
  BY <1>1, <1>2 DEF WellFormed, RunsKnow, NotesGrow, Made, Shown
<1>3. CASE run[u].verdict = "delivered"
  <2>1. /\ run[u].comment \in Comments /\ Made(run[u].comment)
        /\ note[run[u].comment].event = run[u].event
    BY <1>3 DEF WellFormed, RunsKnow
  <2>2. /\ note'[run[u].comment].state \in {"visible", "edited", "removed"}
        /\ note'[run[u].comment].event = run[u].event
    BY <2>1 DEF NotesGrow, Made, Shown
  <2>3. QED BY <1>2, <1>3, <2>1, <2>2 DEF WellFormed, RunsKnow
<1>4. QED BY <1>2, <1>3 DEF WellFormed, RunsKnow

(* A step of one call keeps RunsKnow when its new record says the truth.    *)
LEMMA OneCall ==
  ASSUME WellFormed, NotesGrow, NEW w \in ClaimIds,
         NEW pc, NEW e, NEW c, NEW v,
         run' = [run EXCEPT ![w] = At(pc, e, c, v)],
         pc # "idle" => e \in Events,
         pc = "await" => c \in Comments /\ note'[c].event = e,
         pc = "finish" => v # "none",
         v = "delivered" => /\ c \in Comments
                            /\ note'[c].state \in {"visible", "edited", "removed"}
                            /\ note'[c].event = e,
         pc \in {"observe", "create"} => e \notin Malformed \cup Misaddressed
  PROVE  RunsKnow'
<1> SUFFICES ASSUME NEW u \in ClaimIds
             PROVE  /\ run'[u].pc # "idle" => run'[u].event \in Events
                    /\ run'[u].pc = "await" =>
                          /\ run'[u].comment \in Comments
                          /\ note'[run'[u].comment].event = run'[u].event
                    /\ run'[u].pc = "finish" => run'[u].verdict # "none"
                    /\ run'[u].verdict = "delivered" =>
                          /\ run'[u].comment \in Comments
                          /\ note'[run'[u].comment].state \in {"visible", "edited", "removed"}
                          /\ note'[run'[u].comment].event = run'[u].event
                    /\ run'[u].pc \in {"observe", "create"} =>
                          run'[u].event \notin Malformed \cup Misaddressed
  BY DEF RunsKnow, Made, Shown
<1>1. run \in [ClaimIds -> RunType]
  BY TypeParts DEF WellFormed
<1>2. CASE u = w
  <2>1. run'[u] = At(pc, e, c, v)
    BY <1>1, <1>2
  <2>2. QED BY <2>1 DEF At
<1>3. CASE u # w
  <2>1. run'[u] = run[u]
    BY <1>1, <1>3
  <2>2. QED BY <2>1, Unmoved
<1>4. QED BY <1>2, <1>3

LEMMA NextRunsKnow == WellFormed /\ [DeliveryNext]_deliveryVars => RunsKnow'
<1> SUFFICES ASSUME WellFormed, [DeliveryNext]_deliveryVars PROVE RunsKnow'
  OBVIOUS
<1>0. /\ NotesGrow
      /\ run \in [ClaimIds -> RunType]
      /\ note \in [Comments -> NoteType]
  BY NextNotes, TypeParts DEF WellFormed
<1>1. ASSUME run' = run PROVE RunsKnow'
  BY <1>0, <1>1, Unmoved DEF RunsKnow, Made, Shown
<1>2. ASSUME NEW w \in ClaimIds, Claim(w) PROVE RunsKnow'
  BY <1>0, <1>1, <1>2, OneCall DEF Claim
<1>3. ASSUME NEW w \in ClaimIds, Stop(w) PROVE RunsKnow'
  BY <1>0, <1>3, OneCall DEF Stop, IdleCall
<1>4. ASSUME NEW w \in ClaimIds, run[w].pc # "idle",
             NEW v \in {"retryable", "dead_letter"}, Conclude(w, v, NoComment)
      PROVE  RunsKnow'
  BY <1>0, <1>4, OneCall DEF Conclude, WellFormed, RunsKnow
<1>5. ASSUME NEW w \in ClaimIds, run[w].pc # "idle", note' = note,
             NEW c \in Comments, Made(c), note[c].event = run[w].event,
             Conclude(w, "delivered", c)
      PROVE  RunsKnow'
  <2>1. /\ run[w].event \in Events
        /\ note'[c].state \in {"visible", "edited", "removed"} /\ note'[c].event = run[w].event
    BY <1>5 DEF WellFormed, RunsKnow, Made, Shown
  <2>2. run' = [run EXCEPT ![w] = At("finish", run[w].event, c, "delivered")]
    BY <1>5 DEF Conclude
  <2>3. QED BY <1>0, <2>1, <2>2, OneCall
<1>6. ASSUME NEW w \in ClaimIds, run[w].pc # "idle",
             NEW pc \in {"observe", "create"}, Goto(w, pc, NoComment),
             run[w].event \notin Malformed \cup Misaddressed
      PROVE  RunsKnow'
  BY <1>0, <1>6, OneCall DEF Goto, WellFormed, RunsKnow
<1>7. ASSUME NEW w \in ClaimIds, RejectLocally(w) PROVE RunsKnow'
  BY <1>4, <1>7 DEF RejectLocally
<1>8. ASSUME NEW w \in ClaimIds, Preflight(w) PROVE RunsKnow'
  BY <1>4, <1>6, <1>8 DEF Preflight, TargetAccepted
<1>9. ASSUME NEW w \in ClaimIds, Observe(w) PROVE RunsKnow'
  <2>1. run[w].event \notin Malformed \cup Misaddressed
    BY <1>9 DEF Observe, WellFormed, RunsKnow
  <2>2. note' = note
    BY <1>9 DEF Observe, remoteVars
  <2>3. QED
    BY <1>4, <1>5, <1>6, <1>9, <2>1, <2>2 DEF Observe, Made, Shown
<1>10. ASSUME NEW w \in ClaimIds, SendCreate(w) PROVE RunsKnow'
  <2>1. PICK c \in Comments : Goto(w, "await", c) /\ Remark(c, "requested", run[w].event)
    BY <1>10 DEF SendCreate
  <2>2. run[w].event \in Events /\ note'[c].event = run[w].event
    BY <1>0, <1>10, <2>1 DEF SendCreate, WellFormed, RunsKnow, Remark
  <2>3. QED BY <1>0, <2>1, <2>2, OneCall DEF Goto
<1>11. ASSUME NEW w \in ClaimIds, ReceiveCreated(w) PROVE RunsKnow'
  <2>1. run[w].comment \in Comments /\ note[run[w].comment].event = run[w].event
    BY <1>11 DEF ReceiveCreated, WellFormed, RunsKnow
  <2>2. QED BY <1>5, <1>11, <2>1 DEF ReceiveCreated, remoteVars
<1>12. ASSUME NEW w \in ClaimIds, ReceiveGarbled(w) PROVE RunsKnow'
  BY <1>3, <1>4, <1>12 DEF ReceiveGarbled
<1>13. ASSUME NEW w \in ClaimIds, CreateUnavailable(w) PROVE RunsKnow'
  BY <1>4, <1>13 DEF CreateUnavailable
<1>14. ASSUME NEW w \in ClaimIds, Finish(w) \/ Crash(w) PROVE RunsKnow'
  BY <1>3, <1>14 DEF Finish, Crash
<1>15. ASSUME NEW e \in Events, Enqueue(e) \/ Expire(e) \/ ArchiveTarget(e)
       PROVE  RunsKnow'
  BY <1>1, <1>15 DEF Enqueue, Expire, ArchiveTarget
<1>16. ASSUME NEW c \in Comments,
             \/ ApplyCreate(c) \/ DropCreate(c)
             \/ EditComment(c) \/ RemoveComment(c)
       PROVE  RunsKnow'
  BY <1>1, <1>16 DEF ApplyCreate, DropCreate, EditComment, RemoveComment
<1>17. CASE UNCHANGED deliveryVars
  BY <1>1, <1>17 DEF deliveryVars
<1>18. QED
  BY <1>2, <1>7, <1>8, <1>9, <1>10, <1>11, <1>12, <1>13, <1>14, <1>15, <1>16, <1>17
  DEF DeliveryNext, WorkerStep

(* Type correctness, with what each call knows.                             *)
THEOREM TypeCorrect == DeliverySpec => []DeliveryTypeOK
<1>1. WellFormed /\ [DeliveryNext]_deliveryVars => WellFormed'
  BY NextTypeOK, NextNotes, NextRunsKnow DEF WellFormed
<1>2. DeliverySpec => []WellFormed
  BY InitWellFormed, <1>1, PTL DEF DeliverySpec
<1>3. WellFormed => DeliveryTypeOK
  BY DEF WellFormed
<1>4. QED BY <1>2, <1>3, PTL

-----------------------------------------------------------------------------
(* Claims.                                                                  *)

LEMMA InitClaims == DeliveryInit => ClaimsAreExclusive
  BY DEF DeliveryInit, StoreInit, ClaimsAreExclusive, IdleCall, At

(* Only claims and finishes touch the claim rows, and only enqueues and     *)
(* finishes the state of an event.                                          *)
LEMMA StoreStep ==
  ASSUME WellFormed, [DeliveryNext]_deliveryVars
  PROVE  \/ \E e \in Events : EnqueueEvent(e) /\ run' = run
         \/ UNCHANGED <<outbox, attempts, receipt, holder>> /\ run' = run
         \/ \E w \in ClaimIds, e \in Events :
               /\ run[w].pc = "idle"
               /\ ResumeClaim(w, e) \/ (LeaseRespected /\ ClaimOldest(w, e))
               /\ run' = [run EXCEPT ![w] = At("preflight", e, NoComment, "none")]
         \/ \E w \in ClaimIds : LeaseRespected /\ ClaimNothing(w) /\ run' = run
         \/ \E w \in ClaimIds :
               /\ run[w].pc = "finish"
               /\ FinishDelivery(w, run[w].verdict, run[w].comment)
               /\ Stop(w)
         \/ \E w \in ClaimIds, pc \in Phases : \E c, v :
               /\ UNCHANGED storeVars
               /\ run[w].pc # "idle"
               /\ \/ Stop(w)
                  \/ run' = [run EXCEPT ![w] = At(pc, run[w].event, c, v)]
<1> USE DEF storeVars
<1>1. ASSUME NEW e \in Events, Enqueue(e)
      PROVE  EnqueueEvent(e) /\ run' = run
  BY <1>1 DEF Enqueue
<1>2. ASSUME NEW e \in Events, Expire(e) \/ ArchiveTarget(e)
      PROVE  UNCHANGED <<outbox, attempts, receipt, holder>> /\ run' = run
  BY <1>2 DEF Expire, LeaseRunsOut, ArchiveTarget
<1>3. ASSUME NEW c \in Comments,
             \/ ApplyCreate(c) \/ DropCreate(c)
             \/ EditComment(c) \/ RemoveComment(c)
      PROVE  UNCHANGED <<outbox, attempts, receipt, holder>> /\ run' = run
  BY <1>3 DEF ApplyCreate, DropCreate, EditComment, RemoveComment
<1>4. CASE UNCHANGED deliveryVars
  BY <1>4 DEF deliveryVars
<1>5. ASSUME NEW w \in ClaimIds, RejectLocally(w) \/ Preflight(w) \/ Observe(w)
                   \/ SendCreate(w) \/ ReceiveCreated(w) \/ ReceiveGarbled(w)
                   \/ CreateUnavailable(w) \/ Crash(w)
      PROVE  \E pc \in Phases : \E c, v :
               /\ UNCHANGED storeVars
               /\ run[w].pc # "idle"
               /\ \/ Stop(w)
                  \/ run' = [run EXCEPT ![w] = At(pc, run[w].event, c, v)]
  <2>1. \A c, v : Conclude(w, v, c) \/ Goto(w, "observe", c) \/ Goto(w, "create", c)
                  \/ Goto(w, "await", c)
                  => \E pc \in Phases : \E d, u :
                        run' = [run EXCEPT ![w] = At(pc, run[w].event, d, u)]
    BY DEF Conclude, Goto, Phases
  <2>2. \/ Stop(w)
        \/ \E c, v : Conclude(w, v, c) \/ Goto(w, "observe", c) \/ Goto(w, "create", c)
                     \/ Goto(w, "await", c)
    BY <1>5 DEF RejectLocally, Preflight, Observe, SendCreate, ReceiveCreated,
       ReceiveGarbled, CreateUnavailable, Crash
  <2>3. run[w].pc # "idle" /\ UNCHANGED storeVars
    BY <1>5 DEF RejectLocally, Preflight, Observe, SendCreate, ReceiveCreated,
       ReceiveGarbled, CreateUnavailable, Crash
  <2>4. "idle" \in Phases
    BY DEF Phases
  <2>5. QED BY <2>1, <2>2, <2>3, <2>4
<1>6. ASSUME NEW w \in ClaimIds, Claim(w)
      PROVE  \/ \E e \in Events :
                  /\ run[w].pc = "idle"
                  /\ ResumeClaim(w, e) \/ (LeaseRespected /\ ClaimOldest(w, e))
                  /\ run' = [run EXCEPT ![w] = At("preflight", e, NoComment, "none")]
             \/ LeaseRespected /\ ClaimNothing(w) /\ run' = run
  BY <1>6 DEF Claim
<1>7. ASSUME NEW w \in ClaimIds, Finish(w)
      PROVE  \/ /\ run[w].pc = "finish"
                /\ FinishDelivery(w, run[w].verdict, run[w].comment)
                /\ Stop(w)
             \/ \E pc \in Phases : \E c, v :
                  /\ UNCHANGED storeVars
                  /\ run[w].pc # "idle"
                  /\ \/ Stop(w)
                     \/ run' = [run EXCEPT ![w] = At(pc, run[w].event, c, v)]
  BY <1>7 DEF Finish, FinishRefused, Phases
<1>8. QED
  BY <1>1, <1>2, <1>3, <1>4, <1>5, <1>6, <1>7 DEF DeliveryNext, WorkerStep

LEMMA NextClaims ==
  ASSUME WellFormed, ClaimsAreExclusive, [DeliveryNext]_deliveryVars
  PROVE  ClaimsAreExclusive'
<1>0. /\ run \in [ClaimIds -> RunType]
      /\ outbox \in [Events -> OutboxStates]
      /\ holder \in [Events -> ClaimIds \cup {NoClaim}]
  BY TypeParts DEF WellFormed, StoreTypeOK
<1>1. ASSUME NEW e \in Events, EnqueueEvent(e), run' = run
      PROVE  ClaimsAreExclusive'
  BY <1>0, <1>1 DEF EnqueueEvent, ClaimsAreExclusive
<1>2. ASSUME UNCHANGED <<outbox, attempts, receipt, holder>>, run' = run
      PROVE  ClaimsAreExclusive'
  BY <1>2 DEF ClaimsAreExclusive
<1>3. ASSUME NEW w \in ClaimIds, NEW e \in Events, run[w].pc = "idle",
             ResumeClaim(w, e),
             run' = [run EXCEPT ![w] = At("preflight", e, NoComment, "none")]
      PROVE  ClaimsAreExclusive'
  BY <1>0, <1>3 DEF ResumeClaim, storeVars, ClaimsAreExclusive, At
<1>4. ASSUME NEW w \in ClaimIds, NEW e \in Events, run[w].pc = "idle",
             ClaimOldest(w, e),
             run' = [run EXCEPT ![w] = At("preflight", e, NoComment, "none")]
      PROVE  ClaimsAreExclusive'
  <2>1. /\ \A f \in Events : holder[f] # w
        /\ outbox[e] = "pending" /\ outbox' = outbox
        /\ holder'[e] = w
        /\ \A f \in Events : f # e => holder'[f] \in {NoClaim, holder[f]}
    BY <1>0, <1>4 DEF ClaimOldest, Held, Claimable, Unreaped
  <2>2. run'[w].event = e /\ \A u \in ClaimIds : u # w => run'[u] = run[u]
    BY <1>0, <1>4 DEF At
  <2>3. QED BY <2>1, <2>2 DEF ClaimsAreExclusive
<1>5. ASSUME NEW w \in ClaimIds, ClaimNothing(w), run' = run
      PROVE  ClaimsAreExclusive'
  BY <1>0, <1>5 DEF ClaimNothing, Unreaped, ClaimsAreExclusive
<1>6. ASSUME NEW w \in ClaimIds, run[w].pc = "finish", Stop(w),
             FinishDelivery(w, run[w].verdict, run[w].comment)
      PROVE  ClaimsAreExclusive'
  <2>1. PICK e \in Events :
           /\ holder[e] = w
           /\ holder' = [holder EXCEPT ![e] = NoClaim]
           /\ \A f \in Events : f # e => outbox'[f] = outbox[f]
    BY <1>0, <1>6 DEF FinishDelivery, Held
  <2>2. /\ run'[w].pc = "idle"
        /\ \A u \in ClaimIds : u # w => run'[u] = run[u]
    BY <1>0, <1>6 DEF Stop, IdleCall, At
  <2>3. QED BY <1>0, <2>1, <2>2 DEF ClaimsAreExclusive
<1>7. ASSUME NEW w \in ClaimIds, UNCHANGED storeVars, run[w].pc # "idle",
             NEW pc \in Phases, NEW c, NEW v,
             Stop(w) \/ run' = [run EXCEPT ![w] = At(pc, run[w].event, c, v)]
      PROVE  ClaimsAreExclusive'
  BY <1>0, <1>7 DEF storeVars, Stop, IdleCall, At, ClaimsAreExclusive
<1>8. QED
  BY <1>1, <1>2, <1>3, <1>4, <1>5, <1>6, <1>7, StoreStep

-----------------------------------------------------------------------------
(* Receipts.                                                                *)

LEMMA NextReceipts ==
  ASSUME WellFormed, ClaimsAreExclusive, ReceiptMatchesComment, [DeliveryNext]_deliveryVars
  PROVE  ReceiptMatchesComment'
<1>0. /\ NotesGrow
      /\ outbox \in [Events -> OutboxStates]
      /\ receipt \in [Events -> Comments \cup {NoComment}]
      /\ holder \in [Events -> ClaimIds \cup {NoClaim}]
  BY NextNotes, TypeParts DEF WellFormed, StoreTypeOK
<1>1. ASSUME NEW e \in Events, receipt'[e] = receipt[e],
             outbox'[e] = "delivered" <=> outbox[e] = "delivered"
      PROVE  /\ outbox'[e] = "delivered" <=> receipt'[e] # NoComment
             /\ receipt'[e] # NoComment =>
                   Made(receipt[e])' /\ note'[receipt[e]].event = e
  BY <1>0, <1>1 DEF ReceiptMatchesComment, NotesGrow, Made, Shown
<1>2. CASE receipt' = receipt /\ \A e \in Events :
                outbox'[e] = "delivered" <=> outbox[e] = "delivered"
  BY <1>1, <1>2 DEF ReceiptMatchesComment, Made, Shown
<1>3. ASSUME NEW w \in ClaimIds, run[w].pc = "finish", Stop(w),
             FinishDelivery(w, run[w].verdict, run[w].comment)
      PROVE  ReceiptMatchesComment'
  <2>1. PICK e \in Events :
           /\ holder[e] = w
           /\ outbox' = [outbox EXCEPT ![e] = IF run[w].verdict = "retryable"
                                  THEN "pending" ELSE run[w].verdict]
           /\ receipt' = IF run[w].verdict = "delivered"
                         THEN [receipt EXCEPT ![e] = run[w].comment] ELSE receipt
    BY <1>3 DEF FinishDelivery, Held
  <2>2. outbox[e] = "pending" /\ run[w].event = e
    BY <1>3, <2>1 DEF ClaimsAreExclusive
  <2>3. CASE run[w].verdict # "delivered"
    BY <1>0, <1>2, <2>1, <2>2, <2>3
  <2>4. CASE run[w].verdict = "delivered"
    <3>1. /\ run[w].comment \in Comments /\ Made(run[w].comment)
          /\ note[run[w].comment].event = e
      BY <2>2, <2>4 DEF WellFormed, RunsKnow
    <3>2. /\ note'[run[w].comment].state \in {"visible", "edited", "removed"}
          /\ note'[run[w].comment].event = e
      BY <1>0, <3>1 DEF NotesGrow, Made, Shown
    <3>3. outbox'[e] = "delivered" /\ receipt'[e] = run[w].comment
      BY <1>0, <2>1, <2>4
    <3>4. \A f \in Events : f # e => outbox'[f] = outbox[f] /\ receipt'[f] = receipt[f]
      BY <1>0, <2>1, <2>4
    <3>5. QED
      BY <1>1, <3>1, <3>2, <3>3, <3>4 DEF ReceiptMatchesComment, Made, Shown
  <2>5. QED BY <2>3, <2>4
<1>4. ASSUME NEW e \in Events, EnqueueEvent(e) PROVE ReceiptMatchesComment'
  BY <1>0, <1>2, <1>4 DEF EnqueueEvent
<1>5. ASSUME NEW w \in ClaimIds, NEW e \in Events,
             ResumeClaim(w, e) \/ ClaimOldest(w, e) \/ ClaimNothing(w)
      PROVE  ReceiptMatchesComment'
  BY <1>2, <1>5 DEF ResumeClaim, ClaimOldest, ClaimNothing, storeVars
<1>6. ASSUME NEW w \in ClaimIds, ClaimNothing(w) PROVE ReceiptMatchesComment'
  BY <1>2, <1>6 DEF ClaimNothing
<1>7. CASE UNCHANGED <<outbox, receipt>>
  BY <1>2, <1>7
<1>8. QED
  BY <1>3, <1>4, <1>5, <1>6, <1>7, StoreStep DEF storeVars

-----------------------------------------------------------------------------
SafeDelivery == WellFormed /\ ClaimsAreExclusive /\ ReceiptMatchesComment

LEMMA SafeDeliveryInvariant == DeliverySpec => []SafeDelivery
<1>1. DeliveryInit => SafeDelivery
  <2>1. DeliveryInit => ReceiptMatchesComment
    BY DEF DeliveryInit, StoreInit, ReceiptMatchesComment
  <2>2. QED BY <2>1, InitWellFormed, InitClaims DEF SafeDelivery
<1>2. SafeDelivery /\ [DeliveryNext]_deliveryVars => SafeDelivery'
  BY NextTypeOK, NextNotes, NextRunsKnow, NextClaims, NextReceipts
  DEF SafeDelivery, WellFormed
<1>3. QED BY <1>1, <1>2, PTL DEF DeliverySpec

(* Claims are exclusive: concurrent, stalled, crashed and resumed calls     *)
(* never share a claim or settle an event that is not theirs.               *)
THEOREM ClaimsCorrect == DeliverySpec => []ClaimsAreExclusive
<1>1. SafeDelivery => ClaimsAreExclusive
  BY DEF SafeDelivery
<1>2. QED BY <1>1, SafeDeliveryInvariant, PTL

(* Delivered means that Linear has made the comment the receipt names.      *)
THEOREM ReceiptsCorrect == DeliverySpec => []ReceiptMatchesComment
<1>1. SafeDelivery => ReceiptMatchesComment
  BY DEF SafeDelivery
<1>2. QED BY <1>1, SafeDeliveryInvariant, PTL

(* Settled events are never touched again: they have no claim row, and a    *)
(* finish needs one.                                                        *)
LEMMA SettledStep ==
  ASSUME SafeDelivery, [DeliveryNext]_deliveryVars, NEW e \in Events,
         outbox[e] \in {"delivered", "dead_letter"}
  PROVE  /\ outbox'[e] = outbox[e]
         /\ receipt'[e] = receipt[e]
         /\ attempts'[e] = attempts[e]
         /\ holder'[e] = NoClaim
<1>0. /\ outbox \in [Events -> OutboxStates]
      /\ receipt \in [Events -> Comments \cup {NoComment}]
      /\ attempts \in [Events -> Nat]
      /\ holder \in [Events -> ClaimIds \cup {NoClaim}]
      /\ holder[e] = NoClaim
  BY TypeParts DEF SafeDelivery, WellFormed, StoreTypeOK, ClaimsAreExclusive
<1>1. ASSUME NEW w \in ClaimIds, FinishDelivery(w, run[w].verdict, run[w].comment)
      PROVE  /\ outbox'[e] = outbox[e]
             /\ receipt'[e] = receipt[e]
             /\ attempts'[e] = attempts[e]
             /\ holder'[e] = NoClaim
  <2>1. PICK f \in Events :
           /\ holder[f] = w
           /\ outbox' = [outbox EXCEPT ![f] = IF run[w].verdict = "retryable"
                                  THEN "pending" ELSE run[w].verdict]
           /\ attempts' = [attempts EXCEPT ![f] = @ + 1]
           /\ receipt' = IF run[w].verdict = "delivered"
                         THEN [receipt EXCEPT ![f] = run[w].comment] ELSE receipt
           /\ holder' = [holder EXCEPT ![f] = NoClaim]
    BY <1>1 DEF FinishDelivery, Held
  <2>2. f # e
    BY <1>0, <2>1
  <2>3. QED BY <1>0, <2>1, <2>2
<1>2. ASSUME NEW f \in Events, EnqueueEvent(f)
      PROVE  /\ outbox'[e] = outbox[e]
             /\ UNCHANGED <<receipt, attempts, holder>>
  BY <1>0, <1>2 DEF EnqueueEvent
<1>3. ASSUME NEW w \in ClaimIds, NEW f \in Events, ClaimOldest(w, f)
      PROVE  UNCHANGED <<outbox, receipt, attempts>> /\ holder'[e] = NoClaim
  <2>1. f # e
    BY <1>3 DEF ClaimOldest, Claimable
  <2>2. QED BY <1>0, <1>3, <2>1 DEF ClaimOldest, Unreaped
<1>4. ASSUME NEW w \in ClaimIds, ClaimNothing(w)
      PROVE  UNCHANGED <<outbox, receipt, attempts>> /\ holder'[e] = NoClaim
  BY <1>0, <1>4 DEF ClaimNothing, Unreaped
<1>5. WellFormed
  BY DEF SafeDelivery
<1>6. QED
  BY <1>0, <1>1, <1>2, <1>3, <1>4, <1>5, StoreStep DEF storeVars, ResumeClaim

(* Delivered and dead_letter are absorbing under every interleaving.        *)
THEOREM SettledCorrect == DeliverySpec => SettledIsFinal
<1>1. SafeDelivery /\ [DeliveryNext]_deliveryVars =>
        [\A e \in Events :
            outbox[e] \in {"delivered", "dead_letter"} =>
              /\ outbox'[e] = outbox[e]
              /\ receipt'[e] = receipt[e]
              /\ attempts'[e] = attempts[e]
              /\ holder'[e] = NoClaim]_deliveryVars
  BY SettledStep
<1>2. QED BY <1>1, SafeDeliveryInvariant, PTL DEF DeliverySpec, SettledIsFinal

-----------------------------------------------------------------------------
LEMMA NextNoMutation ==
  ASSUME WellFormed, NoMutationForRejected, [DeliveryNext]_deliveryVars
  PROVE  NoMutationForRejected'
<1>0. note \in [Comments -> NoteType]
  BY TypeParts DEF WellFormed
<1>1. ASSUME NEW w \in ClaimIds, NEW c \in Comments, SendCreate(w),
             Remark(c, "requested", run[w].event)
      PROVE  NoMutationForRejected'
  <2>1. run[w].event \notin Malformed \cup Misaddressed
    BY <1>1 DEF SendCreate, WellFormed, RunsKnow
  <2>2. QED BY <1>0, <1>1, <2>1 DEF Remark, NoMutationForRejected
<1>2. ASSUME NEW c \in Comments, NEW s, Remark(c, s, note[c].event)
      PROVE  NoMutationForRejected'
  BY <1>0, <1>2 DEF Remark, NoMutationForRejected
<1>3. CASE note' = note
  BY <1>3 DEF NoMutationForRejected
<1>4. QED BY <1>1, <1>2, <1>3, NoteStep

(* A malformed or misaddressed event never causes a Linear mutation.        *)
THEOREM RejectedCorrect == DeliverySpec => []NoMutationForRejected
<1>1. DeliveryInit => NoMutationForRejected
  BY DEF DeliveryInit, Unused, NoMutationForRejected
<1>2. SafeDelivery /\ NoMutationForRejected /\ [DeliveryNext]_deliveryVars => NoMutationForRejected'
  BY NextNoMutation DEF SafeDelivery
<1>3. QED BY <1>1, <1>2, SafeDeliveryInvariant, PTL DEF DeliverySpec

-----------------------------------------------------------------------------
(* At most one comment, when attempts end within their leases and writes    *)
(* settle: a running call still holds its claim, an event has at most one   *)
(* comment that is or may become visible, and none while a call is about to *)
(* create one.                                                              *)
HoldsWhileRunning ==
    LeasesOutlastAttempts =>
        \A w \in ClaimIds : run[w].pc # "idle" => holder[run[w].event] = w

OneLiveComment ==
    LeasesOutlastAttempts /\ WritesSettle =>
        /\ \A c, d \in Comments :
              Live(c) /\ Live(d) /\ note[c].event = note[d].event => c = d
        /\ \A w \in ClaimIds, c \in Comments :
              run[w].pc = "create" /\ note[c].event = run[w].event => ~ Live(c)

LEMMA NextHolds ==
  ASSUME SafeDelivery, HoldsWhileRunning, [DeliveryNext]_deliveryVars
  PROVE  HoldsWhileRunning'
<1> SUFFICES ASSUME LeasesOutlastAttempts, NEW u \in ClaimIds, run'[u].pc # "idle"
             PROVE  holder'[run'[u].event] = u
  BY DEF HoldsWhileRunning
<1>0. /\ run \in [ClaimIds -> RunType]
      /\ holder \in [Events -> ClaimIds \cup {NoClaim}]
      /\ WellFormed
      /\ run[u].pc # "idle" => holder[run[u].event] = u /\ run[u].event \in Events
  BY TypeParts
  DEF SafeDelivery, WellFormed, StoreTypeOK, HoldsWhileRunning, RunsKnow
<1>1. CASE UNCHANGED <<holder, run>>
  BY <1>0, <1>1
<1>2. ASSUME NEW e \in Events, EnqueueEvent(e), run' = run
      PROVE  holder'[run'[u].event] = u
  BY <1>1, <1>2 DEF EnqueueEvent
<1>3. ASSUME NEW w \in ClaimIds, NEW e \in Events, run[w].pc = "idle",
             run' = [run EXCEPT ![w] = At("preflight", e, NoComment, "none")],
             ResumeClaim(w, e)
      PROVE  holder'[run'[u].event] = u
  BY <1>0, <1>3 DEF ResumeClaim, storeVars, At
<1>4. ASSUME LeaseRespected, NEW e \in Events, run[u].pc # "idle"
      PROVE  Unreaped[run[u].event] = u
  BY <1>0, <1>4 DEF LeaseRespected, Unreaped
<1>5. ASSUME NEW w \in ClaimIds, NEW e \in Events, run[w].pc = "idle",
             run' = [run EXCEPT ![w] = At("preflight", e, NoComment, "none")],
             LeaseRespected, ClaimOldest(w, e)
      PROVE  holder'[run'[u].event] = u
  <2>1. Unreaped \in [Events -> ClaimIds \cup {NoClaim}]
    BY <1>0 DEF Unreaped
  <2>2. CASE u = w
    BY <1>0, <1>5, <2>1, <2>2 DEF ClaimOldest, At
  <2>3. CASE u # w
    <3>1. run'[u] = run[u] /\ Unreaped[run[u].event] = u /\ Unreaped[e] = NoClaim
      BY <1>0, <1>4, <1>5, <2>3 DEF ClaimOldest, Claimable
    <3>2. run[u].event # e
      BY <3>1
    <3>3. QED BY <1>0, <1>5, <2>1, <3>1, <3>2 DEF ClaimOldest
  <2>4. QED BY <2>2, <2>3
<1>6. ASSUME NEW w \in ClaimIds, LeaseRespected, ClaimNothing(w), run' = run
      PROVE  holder'[run'[u].event] = u
  BY <1>0, <1>6 DEF ClaimNothing, LeaseRespected, Unreaped
<1>7. ASSUME NEW w \in ClaimIds, Stop(w), run[w].pc = "finish",
             FinishDelivery(w, run[w].verdict, run[w].comment)
      PROVE  holder'[run'[u].event] = u
  <2>1. PICK e \in Events : holder[e] = w /\ holder' = [holder EXCEPT ![e] = NoClaim]
    BY <1>7 DEF FinishDelivery, Held
  <2>2. u # w /\ run'[u] = run[u]
    BY <1>0, <1>7 DEF Stop, IdleCall, At
  <2>3. QED BY <1>0, <2>1, <2>2
<1>8. ASSUME NEW w \in ClaimIds, UNCHANGED storeVars, run[w].pc # "idle",
             NEW pc \in Phases, NEW c, NEW v,
             Stop(w) \/ run' = [run EXCEPT ![w] = At(pc, run[w].event, c, v)]
      PROVE  holder'[run'[u].event] = u
  BY <1>0, <1>8 DEF storeVars, Stop, IdleCall, At
<1>9. QED
  BY <1>0, <1>1, <1>2, <1>3, <1>5, <1>6, <1>7, <1>8, StoreStep

LEMMA NextOneLive ==
  ASSUME SafeDelivery, HoldsWhileRunning, OneLiveComment, [DeliveryNext]_deliveryVars
  PROVE  OneLiveComment'
<1> SUFFICES ASSUME LeasesOutlastAttempts, WritesSettle PROVE OneLiveComment'
  BY DEF OneLiveComment
<1>0. /\ run \in [ClaimIds -> RunType]
      /\ note \in [Comments -> NoteType]
      /\ WellFormed
      /\ \A c, d \in Comments :
            Live(c) /\ Live(d) /\ note[c].event = note[d].event => c = d
      /\ \A w \in ClaimIds, c \in Comments :
            run[w].pc = "create" /\ note[c].event = run[w].event => ~ Live(c)
  BY TypeParts DEF SafeDelivery, WellFormed, OneLiveComment
<1>1. ASSUME NEW w \in ClaimIds, NEW c \in Comments, SendCreate(w),
             Goto(w, "await", c), Remark(c, "requested", run[w].event)
      PROVE  OneLiveComment'
  <2>1. /\ run[w].pc = "create" /\ run[w].event \in Events
        /\ holder[run[w].event] = w
    BY <1>0, <1>1 DEF SendCreate, HoldsWhileRunning, WellFormed, RunsKnow
  <2>2. \A u \in ClaimIds : u # w /\ run[u].pc = "create" => run[u].event # run[w].event
    BY <2>1 DEF HoldsWhileRunning
  <2>3. /\ run'[w].pc = "await"
        /\ \A u \in ClaimIds : u # w => run'[u] = run[u]
    BY <1>0, <1>1 DEF Goto, At
  <2>4. /\ note'[c].event = run[w].event
        /\ \A d \in Comments : d # c => note'[d] = note[d]
    BY <1>0, <1>1 DEF Remark
  <2>5. QED
    BY <1>0, <2>1, <2>2, <2>3, <2>4 DEF OneLiveComment, Live, Shown
<1>2. ASSUME NEW c \in Comments, run' = run,
             \/ note[c].state = "requested" /\ Remark(c, "visible", note[c].event)
             \/ note[c].state = "requested" /\ Remark(c, "dropped", note[c].event)
             \/ note[c].state = "visible" /\ Remark(c, "edited", note[c].event)
             \/ Shown(c) /\ Remark(c, "removed", note[c].event)
      PROVE  OneLiveComment'
  <2>1. /\ note'[c].event = note[c].event
        /\ note'[c].state \in {"requested", "visible", "edited"} => Live(c)
        /\ \A d \in Comments : d # c => note'[d] = note[d]
    BY <1>0, <1>2 DEF Remark, Live, Shown
  <2>2. ASSUME NEW d \in Comments
        PROVE  /\ note'[d].event = note[d].event
               /\ note'[d].state \in {"requested", "visible", "edited"} => Live(d)
    BY <2>1 DEF Live, Shown
  <2>3. QED BY <1>0, <1>2, <2>2 DEF OneLiveComment, Live, Shown
<1>3. ASSUME note' = note,
             \A w \in ClaimIds : run'[w].pc = "create" =>
                \/ run'[w] = run[w]
                \/ \A c \in Comments : note[c].event = run'[w].event => ~ Live(c)
      PROVE  OneLiveComment'
  BY <1>0, <1>3 DEF OneLiveComment, Live, Shown
<1>4. ASSUME NEW w \in ClaimIds, Observe(w) PROVE OneLiveComment'
  <2>1. note' = note
    BY <1>4 DEF Observe, remoteVars
  <2>2. \A u \in ClaimIds : u # w => run'[u] = run[u]
    BY <1>0, <1>4 DEF Observe, Goto, Conclude
  <2>3. run'[w].pc = "create" =>
           \A c \in Comments : note[c].event = run'[w].event => ~ Live(c)
    BY <1>0, <1>4 DEF Observe, Goto, Conclude, At, AllSettled, Live
  <2>4. QED BY <1>3, <2>1, <2>2, <2>3
<1>5. ASSUME NEW w \in ClaimIds,
             \/ Claim(w) \/ RejectLocally(w) \/ Preflight(w) \/ ReceiveCreated(w)
             \/ ReceiveGarbled(w) \/ CreateUnavailable(w) \/ Finish(w) \/ Crash(w)
      PROVE  OneLiveComment'
  <2>1. note' = note
    BY <1>5 DEF Claim, RejectLocally, Preflight, ReceiveCreated, ReceiveGarbled,
       CreateUnavailable, Finish, Crash, remoteVars
  <2>2. \/ run' = run
        \/ \E pc \in Phases \ {"create"} : \E e, c, v :
              run' = [run EXCEPT ![w] = At(pc, e, c, v)]
    BY <1>5 DEF Claim, RejectLocally, Preflight, ReceiveCreated, ReceiveGarbled,
       CreateUnavailable, Finish, Crash, Goto, Conclude, Stop, IdleCall, Phases
  <2>3. QED BY <1>0, <1>3, <2>1, <2>2 DEF At
<1>6. ASSUME note' = note, run' = run PROVE OneLiveComment'
  BY <1>3, <1>6
<1>7. ASSUME NEW e \in Events, Enqueue(e) \/ Expire(e) \/ ArchiveTarget(e)
      PROVE  OneLiveComment'
  BY <1>6, <1>7 DEF Enqueue, Expire, ArchiveTarget, remoteVars
<1>8. ASSUME NEW w \in ClaimIds, SendCreate(w) PROVE OneLiveComment'
  BY <1>1, <1>8 DEF SendCreate
<1>9. ASSUME NEW c \in Comments,
             \/ ApplyCreate(c) \/ DropCreate(c)
             \/ EditComment(c) \/ RemoveComment(c)
      PROVE  OneLiveComment'
  BY <1>2, <1>9 DEF ApplyCreate, DropCreate, EditComment, RemoveComment
<1>10. CASE UNCHANGED deliveryVars
  BY <1>6, <1>10 DEF deliveryVars, remoteVars
<1>11. QED
  BY <1>4, <1>5, <1>7, <1>8, <1>9, <1>10 DEF DeliveryNext, WorkerStep

(* Only events of the outbox are worked on.                                 *)
AnnouncedEvents ==
    /\ \A w \in ClaimIds : run[w].pc # "idle" => outbox[run[w].event] # "absent"
    /\ \A c \in Comments : note[c].state # "unused" => outbox[note[c].event] # "absent"

LEMMA NextAnnounced ==
  ASSUME SafeDelivery, AnnouncedEvents, [DeliveryNext]_deliveryVars
  PROVE  AnnouncedEvents'
<1>0. /\ run \in [ClaimIds -> RunType]
      /\ note \in [Comments -> NoteType]
      /\ outbox \in [Events -> OutboxStates]
      /\ holder \in [Events -> ClaimIds \cup {NoClaim}]
      /\ WellFormed /\ ClaimsAreExclusive
      /\ \A w \in ClaimIds : run[w].pc # "idle" => run[w].event \in Events
      /\ \A c \in Comments : note[c].state # "unused" => note[c].event \in Events
  BY TypeParts
  DEF SafeDelivery, WellFormed, StoreTypeOK, RunsKnow, NotesKnow, NoteType
<1>1. \A e \in Events : outbox[e] # "absent" => outbox'[e] # "absent"
  <2>1. ASSUME NEW w \in ClaimIds, run[w].pc = "finish",
               FinishDelivery(w, run[w].verdict, run[w].comment)
        PROVE  \A e \in Events : outbox[e] # "absent" => outbox'[e] # "absent"
    <3>1. run[w].verdict \in {"retryable", "delivered", "dead_letter"}
      BY <1>0, <2>1, FieldTypes DEF WellFormed, RunsKnow, Verdicts
    <3>2. QED BY <1>0, <2>1, <3>1 DEF FinishDelivery, Held
  <2>2. ASSUME NEW e \in Events, EnqueueEvent(e)
        PROVE  \A f \in Events : outbox[f] # "absent" => outbox'[f] # "absent"
    BY <1>0, <2>2 DEF EnqueueEvent
  <2>3. QED
    BY <1>0, <2>1, <2>2, StoreStep
    DEF ResumeClaim, ClaimOldest, ClaimNothing, storeVars
<1>2. ASSUME NEW w \in ClaimIds, run'[w].pc # "idle"
      PROVE  outbox'[run'[w].event] # "absent"
  <2>1. CASE run'[w] = run[w]
    BY <1>0, <1>1, <1>2, <2>1 DEF AnnouncedEvents
  <2>2. ASSUME NEW u \in ClaimIds, run[u].pc # "idle", NEW pc \in Phases, NEW c, NEW v,
               Stop(u) \/ run' = [run EXCEPT ![u] = At(pc, run[u].event, c, v)]
        PROVE  outbox'[run'[w].event] # "absent"
    BY <1>0, <1>1, <1>2, <2>1, <2>2 DEF Stop, IdleCall, At, AnnouncedEvents
  <2>3. ASSUME NEW u \in ClaimIds, run[u].pc # "idle", Stop(u)
        PROVE  outbox'[run'[w].event] # "absent"
    BY <1>0, <1>2, <2>1, <2>3 DEF Stop, IdleCall, At
  <2>4. ASSUME NEW u \in ClaimIds, NEW e \in Events,
               ResumeClaim(u, e) \/ ClaimOldest(u, e),
               run' = [run EXCEPT ![u] = At("preflight", e, NoComment, "none")]
        PROVE  outbox'[run'[w].event] # "absent"
    <3>1. outbox[e] = "pending"
      BY <1>0, <2>4 DEF ResumeClaim, ClaimOldest, Claimable, ClaimsAreExclusive
    <3>2. QED BY <1>0, <1>1, <2>1, <2>4, <3>1 DEF At
  <2>5. QED BY <1>0, <2>1, <2>2, <2>3, <2>4, StoreStep
<1>3. ASSUME NEW c \in Comments, note'[c].state # "unused"
      PROVE  outbox'[note'[c].event] # "absent"
  <2>1. CASE note'[c].event = note[c].event /\ note[c].state # "unused"
    BY <1>0, <1>1, <2>1 DEF AnnouncedEvents
  <2>2. ASSUME NEW w \in ClaimIds, NEW d \in Comments, SendCreate(w),
               Remark(d, "requested", run[w].event)
        PROVE  outbox'[note'[c].event] # "absent"
    <3>1. run[w].event \in Events /\ outbox[run[w].event] # "absent"
      BY <1>0, <2>2 DEF SendCreate, AnnouncedEvents
    <3>2. QED BY <1>0, <1>1, <1>3, <2>1, <2>2, <3>1 DEF Remark
  <2>3. ASSUME NEW d \in Comments, note[d].state # "unused", NEW t,
               Remark(d, t, note[d].event)
        PROVE  outbox'[note'[c].event] # "absent"
    BY <1>0, <1>3, <2>1, <2>3 DEF Remark
  <2>4. CASE note' = note
    BY <1>3, <2>1, <2>4
  <2>5. QED
    BY <2>2, <2>3, <2>4, NoteStep, <1>0 DEF Shown
<1>4. QED BY <1>2, <1>3 DEF AnnouncedEvents

PromptDelivery ==
    SafeDelivery /\ HoldsWhileRunning /\ OneLiveComment /\ AnnouncedEvents

LEMMA PromptDeliveryInvariant == DeliverySpec => []PromptDelivery
<1>1. DeliveryInit => HoldsWhileRunning /\ OneLiveComment /\ AnnouncedEvents
  BY DEF DeliveryInit, IdleCall, At, Unused, HoldsWhileRunning, OneLiveComment, Live, Shown,
     AnnouncedEvents
<1>2. SafeDelivery /\ HoldsWhileRunning /\ OneLiveComment /\ AnnouncedEvents
         /\ [DeliveryNext]_deliveryVars
         => HoldsWhileRunning' /\ OneLiveComment' /\ AnnouncedEvents'
  BY NextHolds, NextOneLive, NextAnnounced
<1>3. QED
  BY <1>1, <1>2, SafeDeliveryInvariant, PTL DEF DeliverySpec, PromptDelivery

(* At most one visible comment per event, under the two timing assumptions. *)
THEOREM OneCommentCorrect ==
  DeliverySpec => [](LeasesOutlastAttempts /\ WritesSettle => NoDuplicateComment)
<1>1. PromptDelivery => (LeasesOutlastAttempts /\ WritesSettle => NoDuplicateComment)
  BY DEF PromptDelivery, OneLiveComment, NoDuplicateComment, Live
<1>2. QED BY <1>1, PromptDeliveryInvariant, PTL

-----------------------------------------------------------------------------
(* Refinement of ProjectionOutbox.                                          *)
shownFor == [e \in Events |-> {c \in Comments : Shown(c) /\ note[c].event = e}]
goneFor == [e \in Events |-> {c \in Comments :
               note[c].state = "removed" /\ note[c].event = e}]

LEMMA InitRefines == DeliveryInit => Projection!Init
  BY DEF DeliveryInit, StoreInit, Unused, Shown, Projection!Init

LEMMA StutterRefines ==
  ASSUME outbox' = outbox, receipt' = receipt, note' = note
  PROVE  UNCHANGED Projection!outboxVars
  BY DEF Projection!outboxVars, Shown

LEMMA StepRefines ==
  ASSUME PromptDelivery, [DeliveryNext]_deliveryVars
  PROVE  [Projection!Next]_Projection!outboxVars
<1>0. /\ note \in [Comments -> NoteType]
      /\ outbox \in [Events -> OutboxStates]
      /\ receipt \in [Events -> Comments \cup {NoComment}]
      /\ WellFormed /\ ClaimsAreExclusive
  BY TypeParts DEF PromptDelivery, SafeDelivery, WellFormed, StoreTypeOK
<1>1. ASSUME NEW e \in Events, Enqueue(e)
      PROVE  [Projection!Next]_Projection!outboxVars
  <2>1. receipt' = receipt /\ note' = note
    BY <1>1 DEF Enqueue, EnqueueEvent, remoteVars
  <2>2. CASE outbox[e] = "absent"
    <3>1. outbox' = [outbox EXCEPT ![e] = "pending"]
      BY <1>1, <2>2 DEF Enqueue, EnqueueEvent
    <3>2. Projection!Accept(e)
      BY <2>1, <2>2, <3>1 DEF Projection!Accept, Shown
    <3>3. QED BY <3>2 DEF Projection!Next
  <2>3. CASE outbox[e] # "absent"
    BY <1>0, <1>1, <2>1, <2>3, StutterRefines DEF Enqueue, EnqueueEvent
  <2>4. QED BY <2>2, <2>3
<1>2. ASSUME NEW w \in ClaimIds, Finish(w)
      PROVE  [Projection!Next]_Projection!outboxVars
  <2>0. note' = note
    BY <1>2 DEF Finish, remoteVars
  <2>1. CASE UNCHANGED storeVars
    BY <2>0, <2>1, StutterRefines DEF storeVars
  <2>2. CASE FinishDelivery(w, run[w].verdict, run[w].comment)
    <3>1. PICK e \in Events :
             /\ holder[e] = w
             /\ outbox' = [outbox EXCEPT ![e] = IF run[w].verdict = "retryable"
                                    THEN "pending" ELSE run[w].verdict]
             /\ receipt' = IF run[w].verdict = "delivered"
                           THEN [receipt EXCEPT ![e] = run[w].comment] ELSE receipt
      BY <2>2 DEF FinishDelivery, Held
    <3>2. /\ outbox[e] = "pending" /\ run[w].event = e
          /\ run[w].verdict \in {"retryable", "delivered", "dead_letter"}
      BY <1>0, <1>2, <3>1, FieldTypes
      DEF Finish, ClaimsAreExclusive, WellFormed, RunsKnow, Verdicts
    <3>3. CASE run[w].verdict = "retryable"
      BY <1>0, <2>0, <3>1, <3>2, <3>3, StutterRefines
    <3>4. CASE run[w].verdict = "dead_letter"
      <4>1. Projection!GiveUp(e)
        BY <2>0, <3>1, <3>2, <3>4 DEF Projection!GiveUp, Shown
      <4>2. QED BY <4>1 DEF Projection!Next
    <3>5. CASE run[w].verdict = "delivered"
      <4>1. /\ run[w].comment \in Comments /\ Made(run[w].comment)
            /\ note[run[w].comment].event = e
        BY <1>0, <3>2, <3>5 DEF WellFormed, RunsKnow
      <4>2. Projection!Deliver(e, run[w].comment)
        BY <2>0, <3>1, <3>2, <3>5, <4>1 DEF Projection!Deliver, Made, Shown
      <4>3. QED BY <4>1, <4>2 DEF Projection!Next
    <3>6. QED BY <3>2, <3>3, <3>4, <3>5
  <2>3. QED BY <1>2, <2>1, <2>2 DEF Finish, FinishRefused
<1>3. ASSUME NEW c \in Comments, ApplyCreate(c)
      PROVE  [Projection!Next]_Projection!outboxVars
  <2>0. PICK e \in Events : e = note[c].event
    BY <1>0, <1>3 DEF ApplyCreate, WellFormed, NotesKnow, NoteType
  <2>1. /\ note[c].state = "requested"
        /\ outbox' = outbox /\ receipt' = receipt
        /\ note' = [note EXCEPT ![c] = [state |-> "visible", event |-> e]]
    BY <1>3, <2>0 DEF ApplyCreate, Remark, storeVars
  <2>3. outbox[e] # "absent"
    BY <1>0, <2>0, <2>1 DEF PromptDelivery, AnnouncedEvents
  <2>4. \A d \in Comments : Shown(d)' <=> Shown(d) \/ d = c
    BY <1>0, <2>1 DEF Shown
  <2>5. ~ Shown(c) /\ note[c].state # "removed"
    BY <2>1 DEF Shown
  <2>6. \A d \in Comments : note'[d].event = note[d].event
    BY <1>0, <2>0, <2>1
  <2>7. (LeasesOutlastAttempts /\ WritesSettle) => shownFor[e] = {}
    BY <2>0, <2>1, <2>5 DEF PromptDelivery, OneLiveComment, Live, shownFor
  <2>8. shownFor' = [shownFor EXCEPT ![e] = @ \cup {c}]
    BY <2>0, <2>4, <2>6 DEF shownFor
  <2>9. goneFor' = goneFor
    <3>1. \A d \in Comments : note'[d].state = "removed" <=> note[d].state = "removed"
      BY <1>0, <2>1
    <3>2. QED BY <2>6, <3>1 DEF goneFor
  <2>10. Projection!Show(e, c)
    BY <2>1, <2>3, <2>5, <2>7, <2>8, <2>9 DEF Projection!Show, shownFor, goneFor
  <2>11. QED BY <2>10 DEF Projection!Next
<1>4. ASSUME NEW c \in Comments, DropCreate(c) \/ EditComment(c)
      PROVE  UNCHANGED Projection!outboxVars
  <2>1. /\ outbox' = outbox /\ receipt' = receipt
        /\ \A d \in Comments : /\ note'[d].event = note[d].event
                               /\ Shown(d)' <=> Shown(d)
                               /\ note'[d].state = "removed" <=> note[d].state = "removed"
    BY <1>0, <1>4 DEF DropCreate, EditComment, Remark, Shown, storeVars
  <2>2. QED BY <2>1 DEF Projection!outboxVars
<1>5. ASSUME NEW w \in ClaimIds, SendCreate(w)
      PROVE  UNCHANGED Projection!outboxVars
  <2>1. PICK c \in Comments :
           note[c].state = "unused" /\ Remark(c, "requested", run[w].event)
    BY <1>5 DEF SendCreate
  <2>2. ASSUME NEW d \in Comments, NEW f
        PROVE  /\ (Shown(d) /\ note[d].event = f)' <=> (Shown(d) /\ note[d].event = f)
               /\ note'[d].state = "removed" /\ note'[d].event = f
                     <=> note[d].state = "removed" /\ note[d].event = f
    <3>1. CASE d = c
      <4>1. note'[d].state = "requested" /\ note[d].state = "unused"
        BY <1>0, <2>1, <3>1 DEF Remark
      <4>2. QED BY <4>1 DEF Shown
    <3>2. CASE d # c
      <4>1. note'[d] = note[d]
        BY <1>0, <2>1, <3>2 DEF Remark
      <4>2. QED BY <4>1 DEF Shown
    <3>3. QED BY <3>1, <3>2
  <2>3. outbox' = outbox /\ receipt' = receipt
    BY <1>5 DEF SendCreate, storeVars
  <2>4. QED BY <2>2, <2>3 DEF Projection!outboxVars
<1>6. ASSUME NEW w \in ClaimIds,
             \/ Claim(w) \/ RejectLocally(w) \/ Preflight(w) \/ Observe(w)
             \/ ReceiveCreated(w) \/ ReceiveGarbled(w) \/ CreateUnavailable(w) \/ Crash(w)
      PROVE  UNCHANGED Projection!outboxVars
  BY <1>6, StutterRefines DEF Claim, ResumeClaim, ClaimOldest, ClaimNothing, RejectLocally,
     Preflight, Observe, ReceiveCreated, ReceiveGarbled, CreateUnavailable, Crash,
     storeVars, remoteVars
<1>7. ASSUME NEW e \in Events, Expire(e) \/ ArchiveTarget(e)
      PROVE  UNCHANGED Projection!outboxVars
  BY <1>7, StutterRefines DEF Expire, LeaseRunsOut, ArchiveTarget, storeVars, remoteVars
<1>8. CASE UNCHANGED deliveryVars
  BY <1>8, StutterRefines DEF deliveryVars, storeVars, remoteVars
<1>9. ASSUME NEW c \in Comments, RemoveComment(c)
      PROVE  [Projection!Next]_Projection!outboxVars
  <2>0. PICK e \in Events : e = note[c].event
    BY <1>0, <1>9 DEF RemoveComment, Shown, WellFormed, NotesKnow, NoteType
  <2>1. /\ Shown(c)
        /\ outbox' = outbox /\ receipt' = receipt
        /\ note' = [note EXCEPT ![c] = [state |-> "removed", event |-> e]]
    BY <1>9, <2>0 DEF RemoveComment, Remark, storeVars
  <2>2. \A d \in Comments :
           /\ note'[d].event = note[d].event
           /\ Shown(d)' <=> Shown(d) /\ d # c
           /\ note'[d].state = "removed" <=> note[d].state = "removed" \/ d = c
    BY <1>0, <2>0, <2>1 DEF Shown
  <2>3. shownFor' = [shownFor EXCEPT ![e] = @ \ {c}]
    BY <2>0, <2>2 DEF shownFor
  <2>4. goneFor' = [goneFor EXCEPT ![e] = @ \cup {c}]
    BY <2>0, <2>2 DEF goneFor
  <2>5. c \in shownFor[e]
    BY <2>0, <2>1 DEF shownFor
  <2>6. Projection!TakeDown(e, c)
    BY <2>1, <2>3, <2>4, <2>5 DEF Projection!TakeDown, shownFor, goneFor
  <2>7. QED BY <2>6 DEF Projection!Next
<1>10. QED
  BY <1>1, <1>2, <1>3, <1>4, <1>5, <1>6, <1>7, <1>8, <1>9 DEF DeliveryNext, WorkerStep

(* LinearDelivery implements ProjectionOutbox.                              *)
THEOREM DeliveryRefines == DeliverySpec => ImplementsProjection
<1>1. QED
  BY InitRefines, StepRefines, PromptDeliveryInvariant, PTL
  DEF DeliverySpec, ImplementsProjection, Projection!Spec
=============================================================================
