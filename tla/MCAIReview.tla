----------------------------- MODULE MCAIReview -----------------------------
(***************************************************************************)
(* Instances of AIReview.  Task ti is for build bi; b1 and b2 share a key, *)
(* and so do b3 and b4; b5 has its own.                                    *)
(***************************************************************************)
EXTENDS AIReview, TLC

CONSTANTS t1, t2, t3, t4, t5, b1, b2, b3, b4, b5, k1, k2, k3

None == {}
OneTask == {t1}
TwoTasks == {t1, t2}
FiveTasks == {t1, t2, t3, t4, t5}
AllBuilds == {b1, b2, b3, b4, b5}
ThreeKeys == {k1, k2, k3}

OwnBuild == [t \in Tasks |->
               CASE t = t1 -> b1 [] t = t2 -> b2 [] t = t3 -> b3 [] t = t4 -> b4 [] OTHER -> b5]
KeyInPairs == [b \in Builds |-> IF b \in {b1, b2} THEN k1 ELSE IF b \in {b3, b4} THEN k2 ELSE k3]
JustB1 == {b1}
B1B2B5 == {b1, b2, b5}
JustT5 == {t5}

\* State constraint: tasks of one key only, since nothing is shared between keys.
OneKeyAtATime == \E k \in Keys : \A t \in Tasks : Key(t) # k => task[t] = Idle
=============================================================================
