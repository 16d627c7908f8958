--------------------------- MODULE MCAcceptedLoop ---------------------------
(* An instance of AcceptedLoop for TLC.                                     *)
EXTENDS AcceptedLoop, TLC

CONSTANTS p1, p2, b1, b2, i1, i2, sa, sb, sz, result, other

Comment(id, version, kind, thread, session) ==
    [id |-> id, version |-> version, kind |-> kind, thread |-> thread,
     session |-> session]

MCPulls == {p1, p2}
MCAccepting == {p1}
MCBridges == {b1, b2}
MCIngresses == {i1, i2}
MCThreads == {result, other}
MCOfTask == {sa, sb}
\* a notice to another Session in the result's thread, edited once; a reply in
\* that thread; one to a Session of another Task
MCComments ==
    {Comment("c1", 1, "notify", result, sa), Comment("c1", 2, "notify", result, sb),
     Comment("c2", 1, "reply", result, sa), Comment("c3", 1, "notify", other, sz)}
MCSymmetry == Permutations(MCBridges) \cup Permutations(MCIngresses)
\* the other pull request is observed, once, where the accepting one does nothing
OtherIsAlone ==
    hub[p2].runs # <<>> \/ hub[p2].head > 1 =>
        /\ hub[p1] = [head |-> 1, merge |-> "open", runs |-> <<>>]
        /\ Len(hub[p2].runs) = 1 /\ hub[p2].head = 1 /\ hub[p2].runs[1].attempt = 1
\* three attempts of the accepting one
ThreeAttempts ==
    LET runs == hub[p1].runs
    IN  Len(runs) = 2 => runs[1].attempt + runs[2].attempt <= 3
\* comments are observed where one call has queued the result
CommentsFollow ==
    events > 0 =>
        /\ \A x \in MCBridges : bridge[x] = Idle
        /\ hub[p1].head = 1 /\ Len(hub[p1].runs) = 1 /\ hub[p1].runs[1].attempt = 1
        /\ hub[p1].merge = "merge commit" /\ reads = 1 /\ outbox # NoEvent
        /\ outbox.run # 0
=============================================================================
