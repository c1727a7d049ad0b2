----------------------------- MODULE StatusGate -----------------------------
(***************************************************************************)
(* What the jenkinsservice/native-ci commit status promises to a branch    *)
(* protection rule: a final state is published only for a build whose      *)
(* pipeline reached that verdict, or for a build that reuses a passed one  *)
(* of the same commit, and a build's completion is recorded only after its *)
(* verdict was published.                                                  *)
(***************************************************************************)
CONSTANTS Builds, Shas, ShaOf

VARIABLES verdict,    \* what the pipeline of each build reported
          gate,       \* the native-ci status of each commit
          published,  \* builds whose verdict, own or reused, reached GitHub
          recorded    \* builds whose completion callback is recorded

gateVars == <<verdict, gate, published, recorded>>

StateFor(v) == IF v = "passed" THEN "success" ELSE "failure"

Init ==
  /\ verdict = [b \in Builds |-> "none"]
  /\ gate = [s \in Shas |-> "none"]
  /\ published = {}
  /\ recorded = {}

Decide(b) ==
  /\ verdict[b] = "none"
  /\ \E v \in {"passed", "failed"} : verdict' = [verdict EXCEPT ![b] = v]
  /\ UNCHANGED <<gate, published, recorded>>

Queue(b) ==
  /\ gate' = [gate EXCEPT ![ShaOf[b]] = "pending"]
  /\ UNCHANGED <<verdict, published, recorded>>

Publish(b) ==
  /\ verdict[b] # "none"
  /\ gate' = [gate EXCEPT ![ShaOf[b]] = StateFor(verdict[b])]
  /\ published' = published \cup {b}
  /\ UNCHANGED <<verdict, recorded>>

Reuse(b) ==
  /\ \E s \in Builds : ShaOf[s] = ShaOf[b] /\ verdict[s] = "passed"
  /\ gate' = [gate EXCEPT ![ShaOf[b]] = "success"]
  /\ published' = published \cup {b}
  /\ UNCHANGED <<verdict, recorded>>

Record(b) ==
  /\ b \in published
  /\ recorded' = recorded \cup {b}
  /\ UNCHANGED <<verdict, gate, published>>

Next ==
  \E b \in Builds : Decide(b) \/ Queue(b) \/ Publish(b) \/ Reuse(b) \/ Record(b)

Spec == Init /\ [][Next]_gateVars
=============================================================================
