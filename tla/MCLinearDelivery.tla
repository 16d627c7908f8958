-------------------------- MODULE MCLinearDelivery --------------------------
(* Instances of LinearDelivery for TLC.                                     *)
EXTENDS LinearDelivery, TLC

CONSTANTS e1, e2, e3, c1, c2, c3, w1, w2

MCEvents == {e1, e2}
MCComments == {c1, c2, c3}
MCClaimIds == {w1, w2}
\* both were created in the same instant
MCSameInstant == [e \in MCEvents |-> 1]
MCFirst == {e1}
MCThree == {e1, e2, e3}
MCThreeCreatedAt == [e \in MCThree |-> IF e = e1 THEN 1 ELSE 2]
MCSecond == {e2}
MCThird == {e3}
MCSymmetry == Permutations(MCComments) \cup Permutations(MCClaimIds)
=============================================================================
