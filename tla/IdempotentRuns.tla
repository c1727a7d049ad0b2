--------------------------- MODULE IdempotentRuns ---------------------------
(***************************************************************************)
(* What the extension_runs table promises the callers of an idempotent     *)
(* operation: a key is claimed once, outward effects happen only while its *)
(* run is in progress, and a settled run is never reopened.  A run that    *)
(* was saved as succeeded may still be revised to failed, because the      *)
(* gateway saves "failed" when the answer to the first save was lost.      *)
(***************************************************************************)
EXTENDS Naturals

CONSTANT Keys

VARIABLES phase,    \* status of the run stored under each key
          effects   \* outward effects performed for each key

Phases == {"absent", "running", "succeeded", "failed"}

Init ==
  /\ phase = [k \in Keys |-> "absent"]
  /\ effects = [k \in Keys |-> 0]

Claim(k) ==
  /\ phase[k] = "absent"
  /\ phase' = [phase EXCEPT ![k] = "running"]
  /\ UNCHANGED effects

Effect(k) ==
  /\ phase[k] = "running"
  /\ effects' = [effects EXCEPT ![k] = @ + 1]
  /\ UNCHANGED phase

Settle(k) ==
  /\ phase[k] \in {"running", "succeeded"}
  /\ \E p \in {"succeeded", "failed"} : phase' = [phase EXCEPT ![k] = p]
  /\ UNCHANGED effects

Next == \E k \in Keys : Claim(k) \/ Effect(k) \/ Settle(k)

Spec == Init /\ [][Next]_<<phase, effects>>
=============================================================================
