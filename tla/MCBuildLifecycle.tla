-------------------------- MODULE MCBuildLifecycle --------------------------
(***************************************************************************)
(* Instances of BuildLifecycle: one branch build, or a branch build and a  *)
(* pull request of the same commit that may reuse it.                      *)
(***************************************************************************)
EXTENDS BuildLifecycle, TLC

CONSTANTS b1, b2, s1, u1

OneBuild == {b1}
TwoBuilds == {b1, b2}
OneSha == {s1}
MCShaOf == [b \in Builds |-> s1]
OnlyB2 == {b2}
None == {}
OneClient == {u1}

\* State constraint: a client and a fault only where b2 reuses the result of b1;
\* where b2 runs itself, both builds interleave freely and nothing else happens.
\* The archived copy and the Jenkins result, which only clients read, then say
\* what the result file says.
QuietUnlessReused ==
  \/ trig[b2].pc # "trigger" /\ jenkins[b2].phase = "none"
  \/ /\ faults = 0 /\ cancels = 0
     /\ \A c \in Clients : client[c] = IdleRequest
     /\ \A b \in Builds :
          /\ ~db[b].number
          /\ jenkins[b].phase = "callback" =>
               /\ jenkins[b].archived = jenkins[b].file
               /\ jenkins[b].result = IF jenkins[b].file = "passed" THEN "SUCCESS" ELSE "FAILURE"
=============================================================================
