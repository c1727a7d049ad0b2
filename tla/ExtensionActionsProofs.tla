----------------------- MODULE ExtensionActionsProofs -----------------------
(***************************************************************************)
(* The safety properties of run_extension_action for every set of calls,   *)
(* keys and every number of requested actions, and the proof that it       *)
(* implements IdempotentRuns.  The inductive invariant says who may be     *)
(* past the claim (only the owner of the stored run) and how far the       *)
(* history of a key is when its owner is at each location.                 *)
(***************************************************************************)
EXTENDS ExtensionActions, TLAPS

\* Only the call that created the stored run is past save_extension_run, and
\* a call that has not reached it owns nothing.
OwnerOnly ==
  \A c \in Calls :
    /\ pc[c] \in {"execute", "act", "failing"} => runs[KeyOf[c]].owner = c
    /\ pc[c] \in {"idle", "create"} => runs[KeyOf[c]].owner # c

\* An absent run has no owner and no history.
AbsentIsFresh ==
  \A k \in Keys :
    /\ runs[k].status = "absent" <=> runs[k].owner = NoCall
    /\ runs[k].status = "absent" =>
         executed[k] = 0 /\ performed[k] = 0 /\ requested[k] = 0

\* What the owner has done for its key, by its location.
OwnerProgress ==
  \A c \in Calls : LET k == KeyOf[c] IN
    /\ pc[c] = "execute" =>
         /\ runs[k].status = "running"
         /\ executed[k] = 0 /\ performed[k] = 0 /\ requested[k] = 0
    /\ pc[c] = "act" =>
         /\ runs[k].status = "running"
         /\ executed[k] = 1 /\ performed[k] + pending[c] = requested[k]
    /\ pc[c] = "failing" => executed[k] = 1

IInv ==
  /\ TypeOK
  /\ OwnerOnly
  /\ AbsentIsFresh
  /\ OwnerProgress
  /\ AtMostOneExecution
  /\ NoExtraActions
  /\ SucceededMeansPerformed

\* In the initial state no run exists and every call is idle.
LEMMA InitEstablishesIInv == Init => IInv
BY CallAssumption DEF Init, IInv, TypeOK, OwnerOnly, AbsentIsFresh, OwnerProgress,
     AtMostOneExecution, NoExtraActions, SucceededMeansPerformed, NoRun,
     Locations, InFlight, Statuses

\* A save by the owner of the stored run replaces it.
LEMMA OwnerSaves ==
  ASSUME TypeOK, NEW c \in Calls, NEW s \in Statuses,
         runs[KeyOf[c]].owner = c, Save(c, s)
  PROVE  /\ runs' = [runs EXCEPT ![KeyOf[c]] = Run(c, s)]
         /\ KeyOf[c] \in Keys
         /\ runs'[KeyOf[c]].owner = c /\ runs'[KeyOf[c]].status = s
         /\ \A k \in Keys \ {KeyOf[c]} : runs'[k] = runs[k]
         /\ runs' \in [Keys -> [owner : Calls \cup {NoCall}, status : Statuses]]
BY CallAssumption DEF TypeOK, Save, SaveExtensionRun, Run, NoRun, Statuses

USE CallAssumption DEF NoRun, Run, Locations, InFlight, Statuses, Goto

\* At most one call is past the claim for a key.
LEMMA OneOwner ==
  ASSUME OwnerOnly, NEW c \in Calls, pc[c] \in {"execute", "act", "failing"},
         NEW d \in Calls, d # c, KeyOf[d] = KeyOf[c]
  PROVE  pc[d] \notin {"execute", "act", "failing"}
BY DEF OwnerOnly

\* Steps of a call preserve the types.
LEMMA StepTypes ==
  ASSUME TypeOK, NEW c \in Calls, Step(c) \/ Interrupt(c)
  PROVE  TypeOK'
<1>1. CASE Lookup(c)  BY <1>1 DEF TypeOK, Lookup
<1>2. CASE Create(c)  BY <1>2 DEF TypeOK, Create, Save, SaveExtensionRun
<1>3. CASE Execute(c)
  <2>1. executed' \in [Keys -> Nat] /\ runs' = runs /\ performed' = performed
    BY <1>3 DEF TypeOK, Execute
  <2>2. pc' \in [Calls -> Locations]
    BY <1>3 DEF TypeOK, Execute
  <2>3. pending' \in [Calls -> Nat] /\ requested' \in [Keys -> Nat]
    <3>1. CASE UNCHANGED <<pending, requested>>
      BY <3>1 DEF TypeOK
    <3>2. CASE \E n \in 0..MaxActions :
                 /\ pending' = [pending EXCEPT ![c] = n]
                 /\ requested' = [requested EXCEPT ![KeyOf[c]] = n]
      BY <3>2 DEF TypeOK
    <3> QED BY <1>3, <3>1, <3>2 DEF Execute
  <2> QED BY <2>1, <2>2, <2>3 DEF TypeOK
<1>4. CASE Act(c)
  <2>1. pc' \in [Calls -> Locations] /\ runs' = runs
        /\ requested' = requested /\ executed' = executed
    BY <1>4 DEF TypeOK, Act
  <2>2. pending[c] \in Nat /\ pending[c] - 1 \in Nat
    BY <1>4 DEF TypeOK, Act
  <2>3. pending' \in [Calls -> Nat] /\ performed' \in [Keys -> Nat]
    BY <1>4, <2>2 DEF TypeOK, Act
  <2> QED BY <2>1, <2>3 DEF TypeOK
<1>5. CASE Finish(c)
  <2>1. pc' \in [Calls -> Locations] /\ UNCHANGED <<pending, requested, executed, performed>>
    BY <1>5 DEF TypeOK, Finish
  <2>2. CASE Save(c, "succeeded")
    BY <2>1, <2>2 DEF TypeOK, Save, SaveExtensionRun
  <2>3. CASE UNCHANGED runs
    BY <2>1, <2>3 DEF TypeOK
  <2> QED BY <1>5, <2>2, <2>3 DEF Finish
<1>6. CASE Fail(c)  BY <1>6 DEF TypeOK, Fail, Save, SaveExtensionRun
<1>7. CASE Interrupt(c)  BY <1>7 DEF TypeOK, Interrupt
<1> QED BY <1>1, <1>2, <1>3, <1>4, <1>5, <1>6, <1>7 DEF Step

USE DEF OwnerOnly, AbsentIsFresh, OwnerProgress, AtMostOneExecution,
     NoExtraActions, SucceededMeansPerformed

\* Looking a key up, or dying, changes nothing but the location of the call.
LEMMA QuietStepsKeepIInv ==
  ASSUME IInv, NEW c \in Calls, Lookup(c) \/ Interrupt(c)  PROVE IInv'
<1>1. TypeOK'
  BY StepTypes DEF IInv, Step
<1> QED BY <1>1 DEF IInv, Lookup, Interrupt, TypeOK

\* The claim makes the caller the owner only of a run that was absent.
LEMMA CreateKeepsIInv ==
  ASSUME IInv, NEW c \in Calls, Create(c)  PROVE IInv'
<1> DEFINE k == KeyOf[c]
<1>1. TypeOK'
  BY StepTypes DEF IInv, Step
<1>2. CASE runs[k] = NoRun
  <2>1. runs' = [runs EXCEPT ![k] = Run(c, "running")] /\ pc' = [pc EXCEPT ![c] = "execute"]
    BY <1>2 DEF IInv, TypeOK, Create, Save, SaveExtensionRun
  <2>2. \A d \in Calls : KeyOf[d] = k => pc[d] \notin {"execute", "act", "failing"}
    BY <1>2 DEF IInv
  <2> QED BY <1>1, <1>2, <2>1, <2>2 DEF IInv, TypeOK, Create
<1>3. CASE runs[k] # NoRun
  <2>1. runs[k].owner # c
    BY DEF IInv, Create
  <2>2. runs' = runs /\ pc' = [pc EXCEPT ![c] = "returned"]
    BY <1>3, <2>1 DEF IInv, TypeOK, Create, Save, SaveExtensionRun
  <2> QED BY <1>1, <2>2 DEF IInv, TypeOK, Create
<1> QED BY <1>2, <1>3

\* The container starts for the owner of a run that has no history.
LEMMA ExecuteKeepsIInv ==
  ASSUME IInv, NEW c \in Calls, Execute(c)  PROVE IInv'
<1> DEFINE k == KeyOf[c]
<1>1. TypeOK' /\ k \in Keys
  BY StepTypes DEF IInv, Step
<1>2. \A d \in Calls \ {c} : KeyOf[d] = k => pc[d] \notin {"execute", "act", "failing"}
  BY OneOwner DEF IInv, Execute
<1>3. /\ executed' = [executed EXCEPT ![k] = 1] /\ performed' = performed /\ runs' = runs
      /\ performed[k] = 0 /\ runs[k].status = "running" /\ runs[k].owner = c
  <2>1. /\ executed[k] = 0 /\ performed[k] = 0
        /\ runs[k].status = "running" /\ runs[k].owner = c
    BY DEF IInv, Execute
  <2> QED BY <1>1, <2>1 DEF IInv, TypeOK, Execute
<1>4. CASE pc' = [pc EXCEPT ![c] = "failing"] /\ UNCHANGED <<pending, requested>>
  BY <1>1, <1>2, <1>3, <1>4 DEF IInv, TypeOK
<1>5. ASSUME NEW n \in 0..MaxActions, pending' = [pending EXCEPT ![c] = n],
             requested' = [requested EXCEPT ![k] = n], pc' = [pc EXCEPT ![c] = "act"]
      PROVE  IInv'
  <2>1. OwnerOnly' /\ AbsentIsFresh'
    BY <1>1, <1>3, <1>5 DEF IInv, TypeOK
  <2>2. OwnerProgress'
    BY <1>1, <1>2, <1>3, <1>5 DEF IInv, TypeOK
  <2>3. AtMostOneExecution' /\ NoExtraActions' /\ SucceededMeansPerformed'
    BY <1>1, <1>3, <1>5 DEF IInv, TypeOK
  <2> QED BY <1>1, <2>1, <2>2, <2>3 DEF IInv
<1> QED BY <1>4, <1>5 DEF Execute

\* An action moves one unit from pending to performed, or stops the call.
LEMMA ActKeepsIInv ==
  ASSUME IInv, NEW c \in Calls, Act(c)  PROVE IInv'
<1> DEFINE k == KeyOf[c]
<1>1. TypeOK' /\ k \in Keys
  BY StepTypes DEF IInv, Step
<1>2. \A d \in Calls \ {c} : KeyOf[d] = k => pc[d] \notin {"execute", "act", "failing"}
  BY OneOwner DEF IInv, Act
<1>3. /\ UNCHANGED <<runs, requested, executed>>
      /\ performed[k] + pending[c] = requested[k] /\ pending[c] > 0
      /\ executed[k] = 1 /\ runs[k].status = "running" /\ runs[k].owner = c
      /\ performed[k] \in Nat /\ pending[c] \in Nat /\ requested[k] \in Nat
  BY <1>1 DEF IInv, TypeOK, Act
<1>4. CASE /\ performed' = [performed EXCEPT ![k] = @ + 1]
           /\ pending' = [pending EXCEPT ![c] = @ - 1] /\ UNCHANGED pc
  <2>1. performed'[k] = performed[k] + 1 /\ pending'[c] = pending[c] - 1
    BY <1>1, <1>4 DEF IInv, TypeOK
  <2>2. performed'[k] + pending'[c] = requested[k] /\ performed'[k] <= requested[k]
    BY <1>3, <2>1
  <2> QED BY <1>1, <1>2, <1>3, <1>4, <2>2 DEF IInv, TypeOK
<1>5. CASE UNCHANGED <<performed, pending>> /\ pc' = [pc EXCEPT ![c] = "failing"]
  BY <1>1, <1>2, <1>3, <1>5 DEF IInv, TypeOK
<1>6. CASE /\ performed' = [performed EXCEPT ![k] = @ + 1]
           /\ UNCHANGED pending /\ pc' = [pc EXCEPT ![c] = "failing"]
  <2>1. performed'[k] <= requested[k]
    BY <1>1, <1>3, <1>6 DEF IInv, TypeOK
  <2> QED BY <1>1, <1>2, <1>3, <1>6, <2>1 DEF IInv, TypeOK
<1> QED BY <1>4, <1>5, <1>6 DEF Act

\* A final save by the owner, with the history the saved status calls for.
LEMMA FinalSaveKeepsIInv ==
  ASSUME IInv, NEW c \in Calls, pc[c] \in {"act", "failing"},
         NEW s \in {"succeeded", "failed"}, Save(c, s),
         s = "succeeded" => performed[KeyOf[c]] = requested[KeyOf[c]],
         pc' \in {[pc EXCEPT ![c] = l] : l \in {"failing", "returned", "raised"}},
         UNCHANGED <<pending, requested, executed, performed>>, TypeOK'
  PROVE  IInv'
<1> DEFINE k == KeyOf[c]
<1>1. runs[k].owner = c /\ executed[k] = 1 /\ k \in Keys
  BY DEF IInv
<1>2. \A d \in Calls \ {c} : KeyOf[d] = k => pc[d] \notin {"execute", "act", "failing"}
  BY OneOwner DEF IInv
<1>3. /\ runs'[k].owner = c /\ runs'[k].status = s
      /\ \A j \in Keys \ {k} : runs'[j] = runs[j]
  BY <1>1, OwnerSaves DEF IInv
<1>4. PICK l \in {"failing", "returned", "raised"} : pc' = [pc EXCEPT ![c] = l]
  OBVIOUS
<1>5. OwnerOnly' /\ AbsentIsFresh'
  <2>1. \A d \in Calls : KeyOf[d] \in Keys /\ (d # c => pc'[d] = pc[d]) /\ pc'[c] = l
    BY <1>4 DEF IInv, TypeOK
  <2>2. OwnerOnly'
    BY <1>1, <1>2, <1>3, <2>1 DEF IInv
  <2>3. AbsentIsFresh'
    BY <1>1, <1>3 DEF IInv, TypeOK
  <2> QED BY <2>2, <2>3
<1>6. OwnerProgress'
  BY <1>1, <1>2, <1>3, <1>4 DEF IInv, TypeOK
<1>7. AtMostOneExecution' /\ NoExtraActions' /\ SucceededMeansPerformed'
  BY <1>1, <1>3 DEF IInv, TypeOK
<1> QED BY <1>5, <1>6, <1>7 DEF IInv

\* The run is saved as succeeded only with nothing pending.
LEMMA FinishKeepsIInv ==
  ASSUME IInv, NEW c \in Calls, Finish(c)  PROVE IInv'
<1>1. TypeOK'
  BY StepTypes DEF IInv, Step
<1>2. CASE Save(c, "succeeded")
  <2>1. performed[KeyOf[c]] = requested[KeyOf[c]]
    BY DEF IInv, TypeOK, Finish
  <2> QED BY <1>1, <1>2, <2>1, FinalSaveKeepsIInv DEF Finish
<1>3. CASE UNCHANGED runs
  BY <1>1, <1>3 DEF IInv, TypeOK, Finish
<1> QED BY <1>2, <1>3 DEF Finish

\* Saving "failed" keeps the history of the key.
LEMMA FailKeepsIInv ==
  ASSUME IInv, NEW c \in Calls, Fail(c)  PROVE IInv'
<1>1. TypeOK'
  BY StepTypes DEF IInv, Step
<1>2. CASE Save(c, "failed")
  BY <1>1, <1>2, FinalSaveKeepsIInv DEF Fail
<1>3. CASE UNCHANGED runs
  BY <1>1, <1>3 DEF IInv, TypeOK, Fail
<1> QED BY <1>2, <1>3 DEF Fail

\* Every step keeps the invariant.
LEMMA NextKeepsIInv == IInv /\ [Next]_vars => IInv'
<1> SUFFICES ASSUME IInv, [Next]_vars  PROVE IInv'
  OBVIOUS
<1>1. ASSUME NEW c \in Calls, Step(c) \/ Interrupt(c)  PROVE IInv'
  BY <1>1, QuietStepsKeepIInv, CreateKeepsIInv, ExecuteKeepsIInv, ActKeepsIInv,
     FinishKeepsIInv, FailKeepsIInv DEF Step
<1>2. CASE UNCHANGED vars
  BY <1>2 DEF vars, IInv, TypeOK
<1> QED BY <1>1, <1>2 DEF Next, Done

\* The invariant holds in every reachable state.
THEOREM Invariance == Spec => []IInv
<1>1. Init => IInv
  BY InitEstablishesIInv
<1>2. IInv /\ [Next]_vars => IInv'
  BY NextKeepsIInv
<1> QED BY <1>1, <1>2, PTL DEF Spec

\* The table, the calls and the histories keep their types.
THEOREM TypeCorrect == Spec => []TypeOK
<1>1. IInv => TypeOK
  BY DEF IInv
<1> QED BY <1>1, Invariance, PTL

\* However many calls carry a key, and wherever they die, the extension's
\* container is started at most once for it.
THEOREM AtMostOnce == Spec => []AtMostOneExecution
<1>1. IInv => AtMostOneExecution
  BY DEF IInv
<1> QED BY <1>1, Invariance, PTL

\* A run reads "succeeded" only when all the actions it requested happened.
THEOREM SucceededIsTrue == Spec => []SucceededMeansPerformed
<1>1. IInv => SucceededMeansPerformed
  BY DEF IInv
<1> QED BY <1>1, Invariance, PTL

\* No key sees more GitHub actions than one output requested.
THEOREM ActionsBounded == Spec => []NoExtraActions
<1>1. IInv => NoExtraActions
  BY DEF IInv
<1> QED BY <1>1, Invariance, PTL

-----------------------------------------------------------------------------
phaseOf == [k \in Keys |-> runs[k].status]

\* A step of a call is a step of IdempotentRuns or leaves its state alone.
LEMMA StepRefines ==
  ASSUME IInv, NEW c \in Calls, Step(c) \/ Interrupt(c)
  PROVE  Abstract!Next \/ UNCHANGED <<phaseOf, performed>>
<1> DEFINE k == KeyOf[c]
<1> k \in Keys
  OBVIOUS
<1>1. CASE Lookup(c) \/ Interrupt(c) \/ Execute(c)
  BY <1>1 DEF Lookup, Interrupt, Execute, phaseOf
<1>2. CASE Create(c)
  <2>1. CASE runs[k] = NoRun
    <3>1. phaseOf[k] = "absent" /\ UNCHANGED performed
      BY <1>2, <2>1 DEF phaseOf, Create
    <3>2. runs' = [runs EXCEPT ![k] = Run(c, "running")]
      BY <1>2, <2>1 DEF IInv, TypeOK, Create, Save, SaveExtensionRun
    <3>3. phaseOf' = [phaseOf EXCEPT ![k] = "running"]
      BY <3>2 DEF phaseOf, IInv, TypeOK
    <3> QED BY <3>1, <3>3 DEF Abstract!Next, Abstract!Claim, phaseOf
  <2>2. CASE runs[k] # NoRun
    <3>1. UNCHANGED runs
      BY <1>2, <2>2 DEF IInv, TypeOK, Create, Save, SaveExtensionRun
    <3> QED BY <1>2, <3>1 DEF phaseOf, Create
  <2> QED BY <2>1, <2>2
<1>3. CASE Act(c)
  <2>1. phaseOf[k] = "running" /\ UNCHANGED phaseOf
    BY <1>3 DEF phaseOf, IInv, Act
  <2>2. CASE UNCHANGED performed
    BY <2>1, <2>2
  <2>3. CASE performed' = [performed EXCEPT ![k] = @ + 1]
    BY <2>1, <2>3 DEF Abstract!Next, Abstract!Effect, phaseOf
  <2> QED BY <1>3, <2>2, <2>3 DEF Act
<1>4. CASE Finish(c) \/ Fail(c)
  <2>1. runs[k].owner = c /\ UNCHANGED performed
    BY <1>4 DEF IInv, Finish, Fail
  <2>2. CASE UNCHANGED runs
    BY <2>1, <2>2 DEF phaseOf
  <2>3. ASSUME NEW s \in {"succeeded", "failed"}, Save(c, s),
               s = "succeeded" => runs[k].status = "running"
        PROVE  Abstract!Next \/ UNCHANGED phaseOf
    <3>1. runs' = [runs EXCEPT ![k] = Run(c, s)]
      BY <2>1, <2>3, OwnerSaves DEF IInv
    <3>2. phaseOf' = [phaseOf EXCEPT ![k] = s]
      BY <3>1 DEF phaseOf, IInv, TypeOK
    <3>3. CASE phaseOf[k] = "failed"
      <4>1. s = "failed"
        BY <2>3, <3>3 DEF phaseOf
      <4>2. phaseOf' = phaseOf
        BY <3>2, <3>3, <4>1 DEF phaseOf
      <4> QED BY <4>2
    <3>4. CASE phaseOf[k] \in {"running", "succeeded"}
      BY <2>1, <3>2, <3>4 DEF Abstract!Next, Abstract!Settle, phaseOf
    <3> QED BY <2>1, <3>3, <3>4 DEF IInv, TypeOK, phaseOf
  <2>4. Finish(c) => runs[k].status = "running"
    BY DEF IInv, Finish
  <2> QED BY <1>4, <2>1, <2>2, <2>3, <2>4 DEF Finish, Fail
<1> QED BY <1>1, <1>2, <1>3, <1>4 DEF Step

\* run_extension_action implements IdempotentRuns under the mapping that
\* forgets who owns a run and where the calls are.
THEOREM Refinement == Spec => ImplementsIdempotentRuns
<1>1. Init => Abstract!Init
  BY DEF Init, Abstract!Init
<1>2. IInv /\ [Next]_vars => [Abstract!Next]_<<phaseOf, performed>>
  <2> SUFFICES ASSUME IInv, [Next]_vars
               PROVE  Abstract!Next \/ UNCHANGED <<phaseOf, performed>>
    OBVIOUS
  <2>1. CASE UNCHANGED vars
    BY <2>1 DEF vars, phaseOf
  <2> QED BY <2>1, StepRefines DEF Next, Done
<1> QED BY <1>1, <1>2, Invariance, PTL DEF Spec, ImplementsIdempotentRuns, Abstract!Spec, phaseOf
=============================================================================
