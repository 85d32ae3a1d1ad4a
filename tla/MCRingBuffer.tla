---------------------------- MODULE MCRingBuffer ----------------------------
(* Instances of RingBuffer for TLC: a reader tr, a writer tw, and tu,      *)
(* which does anything.                                                    *)
EXTENDS RingBuffer, TLC

CONSTANTS tr, tw, tu, stat

ThreeTasks == {tr, tw, tu}
R == {tr}
W == {tw}
U == {tu}
RU == {tr, tu}
WU == {tw, tu}
None == {}
OneSig == {stat}
EmptyOnly == {"wait_empty"}
NonFullOnly == {"wait_nonfull"}
EmptyOrNonFull == {"wait_empty", "wait_nonfull"}
Calls2 == [t \in Task |-> 2]
Calls121 == (tr :> 1) @@ (tw :> 2) @@ (tu :> 1)
=============================================================================
