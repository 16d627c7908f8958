--------------------------- MODULE ProposalLineage ---------------------------
(***************************************************************************)
(* What a proposal branch promises its reviewers, whatever is repeated,     *)
(* cut off or answered late: one commit proposes, it is published unchanged *)
(* and never replaced, a pull request shows only what the branch had, and   *)
(* one acceptance may follow the commit that was reviewed.                  *)
(***************************************************************************)
CONSTANTS Commits, None

VARIABLES
    proposed,    \* the commit that proposes
    accepted,    \* the commit that accepts it
    published,   \* the head of the branch on GitHub
    opened       \* the heads that a pull request of the branch has shown

lineage == <<proposed, accepted, published, opened>>

Init ==
    /\ proposed = None
    /\ accepted = None
    /\ published = None
    /\ opened = {}

Propose ==
    /\ proposed = None
    /\ proposed' \in Commits
    /\ UNCHANGED <<accepted, published, opened>>

Accept ==
    /\ proposed # None
    /\ accepted = None
    /\ accepted' \in Commits
    /\ UNCHANGED <<proposed, published, opened>>

Publish ==
    /\ published = None
    /\ proposed # None
    /\ published' = proposed
    /\ UNCHANGED <<proposed, accepted, opened>>

(* The manager's push shows in a pull request that is open.                 *)
PublishAcceptance ==
    /\ published = proposed
    /\ accepted # None
    /\ published' = accepted
    /\ opened' \in {opened, opened \cup {accepted}}
    /\ UNCHANGED <<proposed, accepted>>

Open ==
    /\ published \notin opened \cup {None}
    /\ opened' = opened \cup {published}
    /\ UNCHANGED <<proposed, accepted, published>>

Next == Propose \/ Accept \/ Publish \/ PublishAcceptance \/ Open

Spec == Init /\ [][Next]_lineage
=============================================================================
