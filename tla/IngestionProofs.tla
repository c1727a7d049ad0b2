--------------------------- MODULE IngestionProofs ---------------------------
(***************************************************************************)
(* TypeOK, AtMostOneTrigger, NoSilentLoss, NoHalfRegistration and          *)
(* NoResurrection of Ingestion, for any deliveries, requests, registrations*)
(* and jobs and any number of faults and restarts.                         *)
(***************************************************************************)
EXTENDS Ingestion, TLAPS

Ensuring == {"folder", "readJob", "writeJob", "rebind"}
\* Where a dispatch has not asked Jenkins for a run, and where it has.
Dispatching == {"list", "get", "trigger"} \cup Ensuring
Saving == {"saveQueue", "saveBuild", "publish"}
Registering == Ensuring \cup {"rollback"}
Operating == {"get", "readRow", "writeRow", "readFolder", "deleteFolder", "deleteRow"} \cup Ensuring

HookTask(t) ==
  /\ t.op = "hook"
  /\ t.pc \in {"idle", "over", "audit"} \cup Dispatching \cup Saving
  /\ t.pc \in (Dispatching \ {"list"}) \cup Saving => t.id \in Ids

OperatorTask(t) ==
  \/ t.op = "hook" /\ t.pc \in {"idle", "over"}
  \/ t.op = "register" /\ t.pc \in Registering /\ t.id \in Ids
  \/ t.op \in Requests \ {"register"} /\ t.pc \in Operating /\ t.id \in Ids

\* Where a task can be, and with what.
WorkOK ==
  /\ \A h \in Hooks : HookTask(work[h])
  /\ \A o \in Operators : OperatorTask(work[o])

\* Of all requests that carry a delivery, one at most is dispatched, and only
\* once Jenkins was asked has the delivery a run.
OneDispatch ==
  /\ \A d \in Deliveries : d \notin recorded => started[d] = 0
  /\ \A h \in Hooks :
       work[h].pc \in Active =>
         /\ DeliveryOf[h] \in recorded
         /\ \A g \in Hooks : DeliveryOf[g] = DeliveryOf[h] /\ work[g].pc \in Active => g = h
         /\ work[h].pc \in Dispatching => started[DeliveryOf[h]] = 0

\* A dispatch gets to its last step only with its build saved.
Accounted == \A h \in Hooks : work[h].pc = "publish" => outcome[DeliveryOf[h]] = "saved"

IInv ==
  /\ TypeOK /\ WorkOK /\ OneDispatch /\ Accounted
  /\ AtMostOneTrigger /\ NoSilentLoss /\ NoHalfRegistration

-----------------------------------------------------------------------------
(* What a step does to the task that takes it.                             *)

Moves(w) ==
  /\ work' \in [Workers -> Tasks]
  /\ \A x \in Workers \ {w} : work'[x] = work[x]

To(w, pc) ==
  /\ Moves(w)
  /\ work'[w].pc = pc /\ work'[w].op = work[w].op /\ work'[w].id = work[w].id
Gone(w) == Moves(w) /\ work'[w].pc = "over" /\ work'[w].op = "hook"
Failed(w) ==
  IF w \in Hooks THEN To(w, "audit")
  ELSE IF work[w].op = "register" THEN To(w, "rollback") ELSE Gone(w)

LEMMA GotoEffect ==
  ASSUME TypeOK, NEW w \in Workers, NEW pc \in {"idle", "over"} \cup Active, Goto(w, pc)
  PROVE  To(w, pc)
<1> HIDE DEF Active
<1> QED
  BY DEF TypeOK, Goto, To, Moves, Tasks

LEMMA EndsEffect ==
  ASSUME TypeOK, NEW w \in Workers, Ends(w)
  PROVE  Gone(w)
  BY DEF TypeOK, Ends, Gone, Moves, Tasks, Over, NoWork, RowStates

LEMMA FailsEffect ==
  ASSUME TypeOK, WorkOK, NEW w \in Workers, Fails(w)
  PROVE  Failed(w)
<1>1. CASE w \in Hooks
  <2>1. work[w].op # "register"
    BY <1>1 DEF WorkOK, HookTask
  <2>2. Goto(w, "audit")
    BY <1>1, <2>1 DEF Fails
  <2> QED
    BY <1>1, <2>2, GotoEffect DEF Failed, Active
<1>2. CASE w \notin Hooks /\ work[w].op = "register"
  <2>1. Goto(w, "rollback")
    BY <1>2 DEF Fails
  <2> QED
    BY <1>2, <2>1, GotoEffect DEF Failed, Active
<1>3. CASE w \notin Hooks /\ work[w].op # "register"
  <2>1. Ends(w)
    BY <1>3 DEF Fails
  <2> QED
    BY <1>3, <2>1, EndsEffect DEF Failed
<1>4. QED
  BY <1>1, <1>2, <1>3

-----------------------------------------------------------------------------
(* What a step of w must respect for each property, and why that is enough. *)

Triggers(w) ==
  IF w \in Hooks
  THEN LET d == DeliveryOf[w] IN
       /\ recorded' = recorded \/ recorded' = recorded \cup {d}
       /\ \/ started' = started
          \/ /\ work[w].pc \in Dispatching /\ work'[w].pc \notin Dispatching
             /\ started' = [started EXCEPT ![d] = @ + 1]
       /\ work'[w].pc \in Active => d \in recorded' /\ (work[w].pc \in Active \/ d \notin recorded)
       /\ work'[w].pc \in Dispatching => work[w].pc \in Dispatching \/ d \notin recorded
  ELSE UNCHANGED <<recorded, started>>

Accounts(w) ==
  /\ audited \subseteq audited' /\ crashes' = crashes
  /\ IF w \in Hooks
     THEN LET d == DeliveryOf[w] IN
          /\ \A e \in Deliveries \ {d} : outcome'[e] = outcome[e]
          /\ outcome'[d] # outcome[d] => work[w].pc \in Active \/ d \notin recorded
          /\ outcome'[d] = "accepted" =>
               work'[w].pc \in Active \/ d \in audited'
                 \/ (outcome[d] = "accepted" /\ work[w].pc \notin Active)
          /\ work'[w].pc = "publish" => outcome'[d] = "saved"
     ELSE outcome' = outcome

Registers(w) ==
  /\ \A id \in Ids :
       repos'[id] # "absent" /\ phase'[id] = "new" =>
         \/ repos[id] # "absent" /\ phase[id] = "new"
         \/ w \in Operators /\ work'[w].op = "register" /\ work'[w].id = id
  /\ w \in Operators /\ work[w].op = "register" =>
       \/ work'[w].op = "register" /\ work'[w].id = work[w].id
       \/ repos'[work[w].id] = "absent"
       \/ phase'[work[w].id] # "new"

LEMMA TriggersKeeps ==
  ASSUME TypeOK, WorkOK, OneDispatch, AtMostOneTrigger,
         NEW w \in Workers, Moves(w), Triggers(w)
  PROVE  OneDispatch' /\ AtMostOneTrigger'
<1> USE IngestionAssumption DEF TypeOK, Workers, Moves, Triggers
<1>1. CASE w \in Operators
  <2>1. \A h \in Hooks : work'[h] = work[h]
    BY <1>1
  <2> QED
    BY <1>1, <2>1 DEF OneDispatch, AtMostOneTrigger
<1>2. CASE w \in Hooks
  <2> DEFINE d == DeliveryOf[w]
  <2>0. d \in Deliveries
    BY <1>2
  <2>1. Dispatching \subseteq Active
    BY DEF Dispatching, Ensuring, Active
  <2>2. work[w].pc \in Dispatching => started[d] = 0
    BY <1>2, <2>1 DEF OneDispatch
  <2>3. started' \in [Deliveries -> Nat] /\ (\A e \in Deliveries \ {d} : started'[e] = started[e])
    BY <1>2
  <2>4. AtMostOneTrigger'
    <3>1. started[d] <= 1 /\ started[d] \in Nat /\ started'[d] \in {started[d], started[d] + 1}
      BY <1>2, <2>0 DEF AtMostOneTrigger
    <3>2. started'[d] <= 1
      BY <1>2, <2>0, <2>2, <3>1
    <3> QED
      BY <2>3, <3>2 DEF AtMostOneTrigger
  <2>5. ASSUME NEW e \in Deliveries, e \notin recorded'
        PROVE  started'[e] = 0
    <3>1. e \notin recorded /\ started[e] = 0
      BY <1>2, <2>5 DEF OneDispatch
    <3>2. work[w].pc \in Dispatching => d \in recorded
      BY <1>2, <2>1 DEF OneDispatch
    <3> QED
      BY <1>2, <3>1, <3>2, <2>3
  <2>6. ASSUME NEW h \in Hooks, work'[h].pc \in Active
        PROVE  /\ DeliveryOf[h] \in recorded'
               /\ \A g \in Hooks :
                    DeliveryOf[g] = DeliveryOf[h] /\ work'[g].pc \in Active => g = h
               /\ work'[h].pc \in Dispatching => started'[DeliveryOf[h]] = 0
    <3>1. CASE h = w
      <4>1. d \in recorded'
        BY <1>2, <2>6, <3>1
      <4>2. ASSUME NEW g \in Hooks, DeliveryOf[g] = d, work'[g].pc \in Active, g # w
            PROVE  FALSE
        <5>1. work[g].pc \in Active
          BY <4>2
        <5> QED
          BY <1>2, <2>6, <3>1, <4>2, <5>1 DEF OneDispatch
      <4>3. work'[w].pc \in Dispatching => started'[d] = 0
        BY <1>2, <2>2, <2>0 DEF OneDispatch
      <4> QED
        BY <3>1, <4>1, <4>2, <4>3
    <3>2. CASE h # w
      <4>1. work[h].pc \in Active /\ work'[h] = work[h]
        BY <2>6, <3>2
      <4>2. DeliveryOf[h] \in recorded'
        BY <1>2, <4>1 DEF OneDispatch
      <4>3. DeliveryOf[h] = d => ~(work[w].pc \in Active) /\ d \in recorded
        BY <1>2, <3>2, <4>1 DEF OneDispatch
      <4>4. DeliveryOf[h] = d => ~(work'[w].pc \in Active) /\ started' = started
        BY <1>2, <2>1, <4>3
      <4>5. started'[DeliveryOf[h]] = started[DeliveryOf[h]]
        BY <4>4, <2>3
      <4>6. \A g \in Hooks : DeliveryOf[g] = DeliveryOf[h] /\ work'[g].pc \in Active => g = h
        BY <1>2, <4>1, <4>4 DEF OneDispatch
      <4> QED
        BY <4>1, <4>2, <4>5, <4>6 DEF OneDispatch
    <3> QED
      BY <3>1, <3>2
  <2> QED
    BY <2>4, <2>5, <2>6 DEF OneDispatch
<1>3. QED
  BY <1>1, <1>2

LEMMA AccountsKeeps ==
  ASSUME TypeOK, OneDispatch, Accounted, NoSilentLoss,
         NEW w \in Workers, Moves(w), Accounts(w)
  PROVE  Accounted' /\ NoSilentLoss'
<1> USE IngestionAssumption DEF TypeOK, Workers, Moves, Accounts
<1>1. CASE w \in Operators
  BY <1>1 DEF Accounted, NoSilentLoss
<1>2. CASE w \in Hooks
  <2> DEFINE d == DeliveryOf[w]
  <2>1. ASSUME NEW h \in Hooks, work'[h].pc = "publish"
        PROVE  outcome'[DeliveryOf[h]] = "saved"
    <3>1. CASE h = w
      BY <1>2, <2>1, <3>1
    <3>2. CASE h # w
      <4>1. work[h].pc = "publish" /\ outcome[DeliveryOf[h]] = "saved"
        BY <2>1, <3>2 DEF Accounted
      <4>2. work[h].pc \in Active
        BY <4>1 DEF Active
      <4>3. DeliveryOf[h] = d => ~(work[w].pc \in Active) /\ d \in recorded
        BY <1>2, <3>2, <4>2 DEF OneDispatch
      <4> QED
        BY <1>2, <4>1, <4>3
    <3> QED
      BY <3>1, <3>2
  <2>2. ASSUME crashes' = 0, NEW e \in Deliveries, outcome'[e] = "accepted",
               \A h \in Hooks : DeliveryOf[h] = e => ~(work'[h].pc \in Active)
        PROVE  e \in audited'
    <3>1. CASE e = d
      <4>1. ~(work'[w].pc \in Active)
        BY <1>2, <2>2, <3>1
      <4>2. d \in audited' \/ (outcome[d] = "accepted" /\ work[w].pc \notin Active)
        BY <1>2, <2>2, <3>1, <4>1
      <4>3. \A h \in Hooks \ {w} : DeliveryOf[h] = e => ~(work[h].pc \in Active)
        BY <2>2
      <4> QED
        BY <1>2, <2>2, <3>1, <4>2, <4>3 DEF NoSilentLoss
    <3>2. CASE e # d
      <4>1. outcome[e] = "accepted"
        BY <1>2, <2>2, <3>2
      <4>2. \A h \in Hooks : DeliveryOf[h] = e => ~(work[h].pc \in Active)
        BY <1>2, <2>2, <3>2
      <4> QED
        BY <2>2, <4>1, <4>2 DEF NoSilentLoss
    <3> QED
      BY <3>1, <3>2
  <2> QED
    BY <2>1, <2>2 DEF Accounted, NoSilentLoss
<1>3. QED
  BY <1>1, <1>2

LEMMA RegistersKeeps ==
  ASSUME NoHalfRegistration, crashes' = crashes,
         NEW w \in Workers, Moves(w), Registers(w)
  PROVE  NoHalfRegistration'
<1> SUFFICES ASSUME crashes' = 0, NEW id \in Ids, repos'[id] # "absent", phase'[id] = "new"
             PROVE  \E o \in Operators : work'[o].op = "register" /\ work'[o].id = id
  BY DEF NoHalfRegistration
<1>1. CASE repos[id] # "absent" /\ phase[id] = "new"
  <2>1. PICK o \in Operators : work[o].op = "register" /\ work[o].id = id
    BY <1>1 DEF NoHalfRegistration
  <2>2. CASE o = w
    BY <2>1, <2>2 DEF Registers
  <2>3. CASE o # w
    BY <2>1, <2>3 DEF Moves, Workers
  <2> QED
    BY <2>2, <2>3
<1>2. CASE ~(repos[id] # "absent" /\ phase[id] = "new")
  BY <1>2 DEF Registers
<1>3. QED
  BY <1>1, <1>2

TaskOK(w) ==
  IF w \in Hooks THEN HookTask(work[w]) ELSE OperatorTask(work[w])

\* A step that respects all of this keeps the invariant.
LEMMA StepKeeps ==
  ASSUME IInv, NEW w \in Workers, Moves(w), TypeOK', TaskOK(w)',
         Triggers(w), Accounts(w), Registers(w)
  PROVE  IInv'
<1>1. OneDispatch' /\ AtMostOneTrigger'
  BY TriggersKeeps DEF IInv
<1>2. Accounted' /\ NoSilentLoss'
  BY AccountsKeeps DEF IInv
<1>3. NoHalfRegistration'
  BY RegistersKeeps DEF IInv, Accounts
<1>4. WorkOK'
  BY IngestionAssumption DEF IInv, WorkOK, TaskOK, Moves, Workers
<1>5. QED
  BY <1>1, <1>2, <1>3, <1>4 DEF IInv

\* What a step of w can rely on.
LEMMA InvFacts ==
  ASSUME IInv, NEW w \in Workers
  PROVE  /\ TypeOK /\ WorkOK /\ TaskOK(w)
         /\ w \in Hooks /\ work[w].pc \in Active => DeliveryOf[w] \in recorded
         /\ w \in Hooks /\ work[w].pc = "publish" => outcome[DeliveryOf[w]] = "saved"
  BY DEF IInv, WorkOK, TaskOK, OneDispatch, Accounted, Workers

-----------------------------------------------------------------------------
(* Every action is such a step.  First what it does to its task, then the  *)
(* types and the three concerns.                                           *)

LEMMA HookRecordStep ==
  ASSUME IInv, NEW h \in Hooks, HookRecord(h)
  PROVE  IInv'
<1>0. h \in Workers /\ TypeOK /\ WorkOK
  BY InvFacts DEF Workers
<1>1. (To(h, "list") /\ DeliveryOf[h] \notin recorded
       /\ outcome' = [outcome EXCEPT ![DeliveryOf[h]] = "accepted"])
     \/ (Gone(h) /\ UNCHANGED outcome)
  BY <1>0, GotoEffect, EndsEffect DEF HookRecord, At, Active
<1>2. Moves(h)
  BY <1>1 DEF To, Gone
<1>3. TaskOK(h)'
  BY <1>0, <1>1, InvFacts, IngestionAssumption
    DEF HookRecord, At, TaskOK, WorkOK, HookTask, OperatorTask, To, Gone, Workers,
        Updates, Ensuring, Dispatching, Saving, Registering, Operating
<1>4. TypeOK'
  BY <1>0, <1>1, <1>2, InvFacts, IngestionAssumption
    DEF HookRecord, At, TypeOK, Moves, TaskOK, HookTask, OperatorTask, RowStates,
        Workers, hierarchy, budgetVars, Ensuring, Dispatching, Saving,
        Registering, Operating
<1>5. Triggers(h)
  BY <1>0, <1>1, <1>3, InvFacts, IngestionAssumption
    DEF Triggers, HookRecord, At, TypeOK, Workers, To, Gone, TaskOK, HookTask,
        OperatorTask, hierarchy, budgetVars, Ensuring, Dispatching, Saving,
        Registering, Operating, Active
<1>6. Accounts(h)
  BY <1>0, <1>1, <1>3, InvFacts, IngestionAssumption
    DEF Accounts, HookRecord, At, TypeOK, Workers, To, Gone, TaskOK, HookTask,
        OperatorTask, hierarchy, budgetVars, Ensuring, Dispatching, Saving,
        Registering, Operating, Active
<1>7. Registers(h)
  BY <1>0, <1>1, <1>3, InvFacts, IngestionAssumption
    DEF Registers, HookRecord, At, TypeOK, Workers, To, Gone, TaskOK, HookTask,
        OperatorTask, hierarchy, budgetVars, Ensuring, Dispatching, Saving,
        Registering, Operating, Active
<1>8. QED
  BY <1>0, <1>2, <1>3, <1>4, <1>5, <1>6, <1>7, StepKeeps

LEMMA HookListStep ==
  ASSUME IInv, NEW h \in Hooks, HookList(h)
  PROVE  IInv'
<1>0. h \in Workers /\ TypeOK /\ WorkOK
  BY InvFacts DEF Workers
<1>1. (Moves(h) /\ work'[h].pc = "get" /\ work'[h].op = work[h].op /\ work'[h].id \in Ids
       /\ UNCHANGED outcome)
     \/ (Gone(h) /\ outcome' = [outcome EXCEPT ![DeliveryOf[h]] = "ignored"])
  BY <1>0, EndsEffect DEF HookList, At, Active, Moves, TypeOK, Tasks
<1>2. Moves(h)
  BY <1>1 DEF Gone
<1>3. TaskOK(h)'
  BY <1>0, <1>1, InvFacts, IngestionAssumption
    DEF HookList, At, Moves, TypeOK, Tasks, TaskOK, WorkOK, HookTask,
        OperatorTask, Gone, Workers, Updates, Ensuring, Dispatching, Saving,
        Registering, Operating
<1>4. TypeOK'
  <2>1. outcome' \in [Deliveries -> {"none", "accepted", "ignored", "saved", "lost"}]
    BY <1>0, <1>1 DEF TypeOK
  <2> QED
    BY <1>0, <1>2, <2>1 DEF HookList, TypeOK, Moves, tables, hierarchy, budgetVars
<1>5. Triggers(h)
  BY <1>0, <1>1, <1>3, InvFacts, IngestionAssumption
    DEF Triggers, HookList, At, TypeOK, Workers, Gone, TaskOK, HookTask,
        OperatorTask, Moves, Tasks, tables, hierarchy, budgetVars, Ensuring,
        Dispatching, Saving, Registering, Operating, Active
<1>6. Accounts(h)
  BY <1>0, <1>1, <1>3, InvFacts, IngestionAssumption
    DEF Accounts, HookList, At, TypeOK, Workers, Gone, TaskOK, HookTask,
        OperatorTask, Moves, Tasks, tables, hierarchy, budgetVars, Ensuring,
        Dispatching, Saving, Registering, Operating, Active
<1>7. Registers(h)
  BY <1>0, <1>1, <1>3, InvFacts, IngestionAssumption
    DEF Registers, HookList, At, TypeOK, Workers, Gone, TaskOK, HookTask,
        OperatorTask, Moves, Tasks, tables, hierarchy, budgetVars, Ensuring,
        Dispatching, Saving, Registering, Operating, Active
<1>8. QED
  BY <1>0, <1>2, <1>3, <1>4, <1>5, <1>6, <1>7, StepKeeps

LEMMA HookTriggerStep ==
  ASSUME IInv, NEW h \in Hooks, HookTrigger(h)
  PROVE  IInv'
<1>0. h \in Workers /\ TypeOK /\ WorkOK
  BY InvFacts DEF Workers
<1>1. (To(h, "saveQueue") /\ started' = [started EXCEPT ![DeliveryOf[h]] = @ + 1])
     \/ (Failed(h) /\ UNCHANGED started)
  BY <1>0, GotoEffect, FailsEffect DEF HookTrigger, At, Active
<1>2. Moves(h)
  BY <1>1 DEF To, Gone, Failed
<1>3. TaskOK(h)'
  BY <1>0, <1>1, InvFacts, IngestionAssumption
    DEF HookTrigger, At, TaskOK, WorkOK, HookTask, OperatorTask, To, Gone, Failed,
        Workers, Updates, Ensuring, Dispatching, Saving, Registering, Operating
<1>4. TypeOK'
  BY <1>0, <1>1, <1>2, InvFacts, IngestionAssumption
    DEF HookTrigger, At, TypeOK, Moves, TaskOK, HookTask, OperatorTask, RowStates,
        Workers, tables, hierarchy, budgetVars, Ensuring, Dispatching, Saving,
        Registering, Operating
<1>5. Triggers(h)
  BY <1>0, <1>1, <1>3, InvFacts, IngestionAssumption
    DEF Triggers, HookTrigger, At, TypeOK, Workers, To, Gone, Failed, TaskOK,
        HookTask, OperatorTask, tables, hierarchy, budgetVars, Ensuring,
        Dispatching, Saving, Registering, Operating, Active
<1>6. Accounts(h)
  BY <1>0, <1>1, <1>3, InvFacts, IngestionAssumption
    DEF Accounts, HookTrigger, At, TypeOK, Workers, To, Gone, Failed, TaskOK,
        HookTask, OperatorTask, tables, hierarchy, budgetVars, Ensuring,
        Dispatching, Saving, Registering, Operating, Active
<1>7. Registers(h)
  BY <1>0, <1>1, <1>3, InvFacts, IngestionAssumption
    DEF Registers, HookTrigger, At, TypeOK, Workers, To, Gone, Failed, TaskOK,
        HookTask, OperatorTask, tables, hierarchy, budgetVars, Ensuring,
        Dispatching, Saving, Registering, Operating, Active
<1>8. QED
  BY <1>0, <1>2, <1>3, <1>4, <1>5, <1>6, <1>7, StepKeeps

LEMMA HookSaveQueueStep ==
  ASSUME IInv, NEW h \in Hooks, HookSaveQueue(h)
  PROVE  IInv'
<1>0. h \in Workers /\ TypeOK /\ WorkOK
  BY InvFacts DEF Workers
<1>1. To(h, "saveBuild") \/ Failed(h)
  BY <1>0, GotoEffect, FailsEffect DEF HookSaveQueue, At, Active
<1>2. Moves(h)
  BY <1>1 DEF To, Gone, Failed
<1>3. TaskOK(h)'
  BY <1>0, <1>1, InvFacts, IngestionAssumption
    DEF HookSaveQueue, At, TaskOK, WorkOK, HookTask, OperatorTask, To, Gone,
        Failed, Workers, Updates, Ensuring, Dispatching, Saving, Registering,
        Operating
<1>4. TypeOK'
  BY <1>0, <1>1, <1>2, InvFacts, IngestionAssumption
    DEF HookSaveQueue, At, TypeOK, Moves, TaskOK, HookTask, OperatorTask,
        RowStates, Workers, tables, hierarchy, budgetVars, historyVars, Ensuring,
        Dispatching, Saving, Registering, Operating
<1>5. Triggers(h)
  BY <1>0, <1>1, <1>3, InvFacts, IngestionAssumption
    DEF Triggers, HookSaveQueue, At, TypeOK, Workers, To, Gone, Failed, TaskOK,
        HookTask, OperatorTask, tables, hierarchy, budgetVars, historyVars,
        Ensuring, Dispatching, Saving, Registering, Operating, Active
<1>6. Accounts(h)
  BY <1>0, <1>1, <1>3, InvFacts, IngestionAssumption
    DEF Accounts, HookSaveQueue, At, TypeOK, Workers, To, Gone, Failed, TaskOK,
        HookTask, OperatorTask, tables, hierarchy, budgetVars, historyVars,
        Ensuring, Dispatching, Saving, Registering, Operating, Active
<1>7. Registers(h)
  BY <1>0, <1>1, <1>3, InvFacts, IngestionAssumption
    DEF Registers, HookSaveQueue, At, TypeOK, Workers, To, Gone, Failed, TaskOK,
        HookTask, OperatorTask, tables, hierarchy, budgetVars, historyVars,
        Ensuring, Dispatching, Saving, Registering, Operating, Active
<1>8. QED
  BY <1>0, <1>2, <1>3, <1>4, <1>5, <1>6, <1>7, StepKeeps

LEMMA HookSaveBuildStep ==
  ASSUME IInv, NEW h \in Hooks, HookSaveBuild(h)
  PROVE  IInv'
<1>0. h \in Workers /\ TypeOK /\ WorkOK
  BY InvFacts DEF Workers
<1>1. (To(h, "publish") /\ builds' = [builds EXCEPT ![DeliveryOf[h]] = work[h].id]
       /\ outcome' = [outcome EXCEPT ![DeliveryOf[h]] = "saved"])
     \/ (Failed(h) /\ UNCHANGED <<builds, outcome>>)
  BY <1>0, GotoEffect, FailsEffect DEF HookSaveBuild, At, Active
<1>2. Moves(h)
  BY <1>1 DEF To, Gone, Failed
<1>3. TaskOK(h)'
  BY <1>0, <1>1, InvFacts, IngestionAssumption
    DEF HookSaveBuild, At, TaskOK, WorkOK, HookTask, OperatorTask, To, Gone,
        Failed, Workers, Updates, Ensuring, Dispatching, Saving, Registering,
        Operating
<1>4. TypeOK'
  BY <1>0, <1>1, <1>2, InvFacts, IngestionAssumption
    DEF HookSaveBuild, At, TypeOK, Moves, TaskOK, HookTask, OperatorTask,
        RowStates, Workers, hierarchy, budgetVars, Ensuring, Dispatching, Saving,
        Registering, Operating
<1>5. Triggers(h)
  BY <1>0, <1>1, <1>3, InvFacts, IngestionAssumption
    DEF Triggers, HookSaveBuild, At, TypeOK, Workers, To, Gone, Failed, TaskOK,
        HookTask, OperatorTask, hierarchy, budgetVars, Ensuring, Dispatching,
        Saving, Registering, Operating, Active
<1>6. Accounts(h)
  BY <1>0, <1>1, <1>3, InvFacts, IngestionAssumption
    DEF Accounts, HookSaveBuild, At, TypeOK, Workers, To, Gone, Failed, TaskOK,
        HookTask, OperatorTask, hierarchy, budgetVars, Ensuring, Dispatching,
        Saving, Registering, Operating, Active
<1>7. Registers(h)
  BY <1>0, <1>1, <1>3, InvFacts, IngestionAssumption
    DEF Registers, HookSaveBuild, At, TypeOK, Workers, To, Gone, Failed, TaskOK,
        HookTask, OperatorTask, hierarchy, budgetVars, Ensuring, Dispatching,
        Saving, Registering, Operating, Active
<1>8. QED
  BY <1>0, <1>2, <1>3, <1>4, <1>5, <1>6, <1>7, StepKeeps

LEMMA HookPublishStep ==
  ASSUME IInv, NEW h \in Hooks, HookPublish(h)
  PROVE  IInv'
<1>0. h \in Workers /\ TypeOK /\ WorkOK
  BY InvFacts DEF Workers
<1>1. Gone(h)
  BY <1>0, EndsEffect DEF HookPublish, At
<1>2. Moves(h)
  BY <1>1 DEF Gone
<1>3. TaskOK(h)'
  BY <1>0, <1>1, InvFacts, IngestionAssumption
    DEF HookPublish, At, TaskOK, WorkOK, HookTask, OperatorTask, Gone, Workers,
        Updates, Ensuring, Dispatching, Saving, Registering, Operating
<1>4. TypeOK'
  BY <1>0, <1>1, <1>2, InvFacts, IngestionAssumption
    DEF HookPublish, At, TypeOK, Moves, TaskOK, HookTask, OperatorTask, RowStates,
        Workers, tables, hierarchy, budgetVars, historyVars, Ensuring,
        Dispatching, Saving, Registering, Operating
<1>5. Triggers(h)
  BY <1>0, <1>1, <1>3, InvFacts, IngestionAssumption
    DEF Triggers, HookPublish, At, TypeOK, Workers, Gone, TaskOK, HookTask,
        OperatorTask, tables, hierarchy, budgetVars, historyVars, Ensuring,
        Dispatching, Saving, Registering, Operating, Active
<1>6. Accounts(h)
  BY <1>0, <1>1, <1>3, InvFacts, IngestionAssumption
    DEF Accounts, HookPublish, At, TypeOK, Workers, Gone, TaskOK, HookTask,
        OperatorTask, tables, hierarchy, budgetVars, historyVars, Ensuring,
        Dispatching, Saving, Registering, Operating, Active
<1>7. Registers(h)
  BY <1>0, <1>1, <1>3, InvFacts, IngestionAssumption
    DEF Registers, HookPublish, At, TypeOK, Workers, Gone, TaskOK, HookTask,
        OperatorTask, tables, hierarchy, budgetVars, historyVars, Ensuring,
        Dispatching, Saving, Registering, Operating, Active
<1>8. QED
  BY <1>0, <1>2, <1>3, <1>4, <1>5, <1>6, <1>7, StepKeeps

LEMMA HookAuditStep ==
  ASSUME IInv, NEW h \in Hooks, HookAudit(h)
  PROVE  IInv'
<1>0. h \in Workers /\ TypeOK /\ WorkOK
  BY InvFacts DEF Workers
<1>1. Gone(h)
  BY <1>0, EndsEffect DEF HookAudit, At
<1>2. Moves(h)
  BY <1>1 DEF Gone
<1>3. TaskOK(h)'
  BY <1>0, <1>1, InvFacts, IngestionAssumption
    DEF HookAudit, At, TaskOK, WorkOK, HookTask, OperatorTask, Gone, Workers,
        Updates, Ensuring, Dispatching, Saving, Registering, Operating
<1>4. TypeOK'
  BY <1>0, <1>1, <1>2, InvFacts, IngestionAssumption
    DEF HookAudit, At, TypeOK, Moves, TaskOK, HookTask, OperatorTask, RowStates,
        Workers, hierarchy, budgetVars, historyVars, Ensuring, Dispatching,
        Saving, Registering, Operating
<1>5. Triggers(h)
  BY <1>0, <1>1, <1>3, InvFacts, IngestionAssumption
    DEF Triggers, HookAudit, At, TypeOK, Workers, Gone, TaskOK, HookTask,
        OperatorTask, hierarchy, budgetVars, historyVars, Ensuring, Dispatching,
        Saving, Registering, Operating, Active
<1>6. Accounts(h)
  BY <1>0, <1>1, <1>3, InvFacts, IngestionAssumption
    DEF Accounts, HookAudit, At, TypeOK, Workers, Gone, TaskOK, HookTask,
        OperatorTask, hierarchy, budgetVars, historyVars, Ensuring, Dispatching,
        Saving, Registering, Operating, Active
<1>7. Registers(h)
  BY <1>0, <1>1, <1>3, InvFacts, IngestionAssumption
    DEF Registers, HookAudit, At, TypeOK, Workers, Gone, TaskOK, HookTask,
        OperatorTask, hierarchy, budgetVars, historyVars, Ensuring, Dispatching,
        Saving, Registering, Operating, Active
<1>8. QED
  BY <1>0, <1>2, <1>3, <1>4, <1>5, <1>6, <1>7, StepKeeps

LEMMA GetRepositoryStep ==
  ASSUME IInv, NEW w \in Workers, GetRepository(w)
  PROVE  IInv'
<1>0. w \in Workers /\ TypeOK /\ WorkOK
  BY InvFacts DEF Workers
<1>1. (To(w, "folder") /\ work[w].op # "unregister") \/ (To(w, "readFolder") /\ work[w].op = "unregister") \/ Failed(w)
  BY <1>0, GotoEffect, FailsEffect DEF GetRepository, At, Active
<1>2. Moves(w)
  BY <1>1 DEF To, Gone, Failed
<1>3. TaskOK(w)'
  BY <1>0, <1>1, InvFacts, IngestionAssumption
    DEF GetRepository, At, TaskOK, WorkOK, HookTask, OperatorTask, To, Gone,
        Failed, Workers, Updates, Ensuring, Dispatching, Saving, Registering,
        Operating
<1>4. TypeOK'
  BY <1>0, <1>1, <1>2, InvFacts, IngestionAssumption
    DEF GetRepository, At, TypeOK, Moves, TaskOK, HookTask, OperatorTask,
        RowStates, Workers, tables, hierarchy, budgetVars, historyVars, Ensuring,
        Dispatching, Saving, Registering, Operating
<1>5. Triggers(w)
  BY <1>0, <1>1, <1>3, InvFacts, IngestionAssumption
    DEF Triggers, GetRepository, At, TypeOK, Workers, To, Gone, Failed, TaskOK,
        HookTask, OperatorTask, tables, hierarchy, budgetVars, historyVars,
        Ensuring, Dispatching, Saving, Registering, Operating, Active
<1>6. Accounts(w)
  BY <1>0, <1>1, <1>3, InvFacts, IngestionAssumption
    DEF Accounts, GetRepository, At, TypeOK, Workers, To, Gone, Failed, TaskOK,
        HookTask, OperatorTask, tables, hierarchy, budgetVars, historyVars,
        Ensuring, Dispatching, Saving, Registering, Operating, Active
<1>7. Registers(w)
  BY <1>0, <1>1, <1>3, InvFacts, IngestionAssumption
    DEF Registers, GetRepository, At, TypeOK, Workers, To, Gone, Failed, TaskOK,
        HookTask, OperatorTask, tables, hierarchy, budgetVars, historyVars,
        Ensuring, Dispatching, Saving, Registering, Operating, Active
<1>8. QED
  BY <1>0, <1>2, <1>3, <1>4, <1>5, <1>6, <1>7, StepKeeps

LEMMA EnsureFolderStep ==
  ASSUME IInv, NEW w \in Workers, EnsureFolder(w)
  PROVE  IInv'
<1>0. w \in Workers /\ TypeOK /\ WorkOK
  BY InvFacts DEF Workers
<1>1. To(w, "readJob")
  BY <1>0, GotoEffect DEF EnsureFolder, At, Active
<1>2. Moves(w)
  BY <1>1 DEF To
<1>3. TaskOK(w)'
  BY <1>0, <1>1, InvFacts, IngestionAssumption
    DEF EnsureFolder, At, TaskOK, WorkOK, HookTask, OperatorTask, To, Workers,
        Updates, Ensuring, Dispatching, Saving, Registering, Operating
<1>4. TypeOK'
  BY <1>0, <1>1, <1>2, InvFacts, IngestionAssumption
    DEF EnsureFolder, At, TypeOK, Moves, TaskOK, HookTask, OperatorTask,
        RowStates, Workers, Name, tables, budgetVars, historyVars, Ensuring,
        Dispatching, Saving, Registering, Operating
<1>5. Triggers(w)
  BY <1>0, <1>1, <1>3, InvFacts, IngestionAssumption
    DEF Triggers, EnsureFolder, At, TypeOK, Workers, To, TaskOK, HookTask,
        OperatorTask, tables, budgetVars, historyVars, Ensuring, Dispatching,
        Saving, Registering, Operating, Active
<1>6. Accounts(w)
  BY <1>0, <1>1, <1>3, InvFacts, IngestionAssumption
    DEF Accounts, EnsureFolder, At, TypeOK, Workers, To, TaskOK, HookTask,
        OperatorTask, tables, budgetVars, historyVars, Ensuring, Dispatching,
        Saving, Registering, Operating, Active
<1>7. Registers(w)
  BY <1>0, <1>1, <1>3, InvFacts, IngestionAssumption
    DEF Registers, EnsureFolder, At, TypeOK, Workers, To, TaskOK, HookTask,
        OperatorTask, tables, budgetVars, historyVars, Ensuring, Dispatching,
        Saving, Registering, Operating, Active
<1>8. QED
  BY <1>0, <1>2, <1>3, <1>4, <1>5, <1>6, <1>7, StepKeeps

LEMMA ReadJobStep ==
  ASSUME IInv, NEW w \in Workers, ReadJob(w)
  PROVE  IInv'
<1>0. w \in Workers /\ TypeOK /\ WorkOK
  BY InvFacts DEF Workers
<1>1. To(w, "writeJob")
  <2> DEFINE seen == Job(w) \in jobs[Name(w)]
  <2>1. seen \in BOOLEAN
    OBVIOUS
  <2> DEFINE new == [work[w] EXCEPT !.pc = "writeJob", !.seen = seen]
  <2>2. work' = [work EXCEPT ![w] = new]
    BY <1>0 DEF ReadJob, TypeOK
  <2>3. work[w] \in Tasks /\ "writeJob" \in {"idle", "over"} \cup Active
    BY <1>0 DEF TypeOK, Active
  <2> HIDE DEF seen
  <2>4. new \in Tasks
    BY <2>1, <2>3 DEF Tasks
  <2>5. new.pc = "writeJob" /\ new.op = work[w].op /\ new.id = work[w].id
    BY <2>3 DEF Tasks
  <2> HIDE DEF new
  <2> QED
    BY <1>0, <2>2, <2>4, <2>5 DEF To, Moves, TypeOK
<1>2. Moves(w)
  BY <1>1 DEF To
<1>3. TaskOK(w)'
  BY <1>0, <1>1, InvFacts, IngestionAssumption
    DEF ReadJob, At, To, Moves, TypeOK, Tasks, TaskOK, WorkOK, HookTask,
        OperatorTask, Workers, Updates, Ensuring, Dispatching, Saving,
        Registering, Operating
<1>4. TypeOK'
  BY <1>0, <1>1, <1>2, InvFacts, IngestionAssumption
    DEF ReadJob, At, TypeOK, Moves, TaskOK, HookTask, OperatorTask, RowStates,
        Workers, To, Tasks, tables, hierarchy, budgetVars, historyVars, Ensuring,
        Dispatching, Saving, Registering, Operating
<1>5. Triggers(w)
  BY <1>0, <1>1, <1>3, InvFacts, IngestionAssumption
    DEF Triggers, ReadJob, At, TypeOK, Workers, To, TaskOK, HookTask,
        OperatorTask, Moves, Tasks, tables, hierarchy, budgetVars, historyVars,
        Ensuring, Dispatching, Saving, Registering, Operating, Active
<1>6. Accounts(w)
  BY <1>0, <1>1, <1>3, InvFacts, IngestionAssumption
    DEF Accounts, ReadJob, At, TypeOK, Workers, To, TaskOK, HookTask,
        OperatorTask, Moves, Tasks, tables, hierarchy, budgetVars, historyVars,
        Ensuring, Dispatching, Saving, Registering, Operating, Active
<1>7. Registers(w)
  BY <1>0, <1>1, <1>3, InvFacts, IngestionAssumption
    DEF Registers, ReadJob, At, TypeOK, Workers, To, TaskOK, HookTask,
        OperatorTask, Moves, Tasks, tables, hierarchy, budgetVars, historyVars,
        Ensuring, Dispatching, Saving, Registering, Operating, Active
<1>8. QED
  BY <1>0, <1>2, <1>3, <1>4, <1>5, <1>6, <1>7, StepKeeps

LEMMA WriteJobStep ==
  ASSUME IInv, NEW w \in Workers, WriteJob(w)
  PROVE  IInv'
<1>0. w \in Workers /\ TypeOK /\ WorkOK
  BY InvFacts DEF Workers
<1>1. (To(w, "rebind") /\ jobs' = [jobs EXCEPT ![Name(w)] = @ \cup {Job(w)}])
     \/ (Failed(w) /\ UNCHANGED jobs)
  BY <1>0, GotoEffect, FailsEffect DEF WriteJob, At, Active
<1>2. Moves(w)
  BY <1>1 DEF To, Gone, Failed
<1>3. TaskOK(w)'
  BY <1>0, <1>1, InvFacts, IngestionAssumption
    DEF WriteJob, At, TaskOK, WorkOK, HookTask, OperatorTask, To, Gone, Failed,
        Workers, Updates, Ensuring, Dispatching, Saving, Registering, Operating
<1>4. TypeOK'
  BY <1>0, <1>1, <1>2, InvFacts, IngestionAssumption
    DEF WriteJob, At, TypeOK, Moves, TaskOK, HookTask, OperatorTask, RowStates,
        Workers, Job, tables, budgetVars, historyVars, Ensuring, Dispatching,
        Saving, Registering, Operating
<1>5. Triggers(w)
  BY <1>0, <1>1, <1>3, InvFacts, IngestionAssumption
    DEF Triggers, WriteJob, At, TypeOK, Workers, To, Gone, Failed, TaskOK,
        HookTask, OperatorTask, tables, budgetVars, historyVars, Ensuring,
        Dispatching, Saving, Registering, Operating, Active
<1>6. Accounts(w)
  BY <1>0, <1>1, <1>3, InvFacts, IngestionAssumption
    DEF Accounts, WriteJob, At, TypeOK, Workers, To, Gone, Failed, TaskOK,
        HookTask, OperatorTask, tables, budgetVars, historyVars, Ensuring,
        Dispatching, Saving, Registering, Operating, Active
<1>7. Registers(w)
  BY <1>0, <1>1, <1>3, InvFacts, IngestionAssumption
    DEF Registers, WriteJob, At, TypeOK, Workers, To, Gone, Failed, TaskOK,
        HookTask, OperatorTask, tables, budgetVars, historyVars, Ensuring,
        Dispatching, Saving, Registering, Operating, Active
<1>8. QED
  BY <1>0, <1>2, <1>3, <1>4, <1>5, <1>6, <1>7, StepKeeps

LEMMA RebindStep ==
  ASSUME IInv, NEW w \in Workers, Rebind(w)
  PROVE  IInv'
<1>0. w \in Workers /\ TypeOK /\ WorkOK
  BY InvFacts DEF Workers
<1>1. (To(w, "trigger") /\ w \in Hooks) \/ (To(w, "readRow") /\ w \notin Hooks /\ work[w].op \in Updates) \/ (Gone(w) /\ w \notin Hooks)
  BY <1>0, GotoEffect, EndsEffect DEF Rebind, At, Active, WorkOK, HookTask, Updates
<1>2. Moves(w)
  BY <1>1 DEF To, Gone
<1>3. TaskOK(w)'
  BY <1>0, <1>1, InvFacts, IngestionAssumption
    DEF Rebind, At, WorkOK, HookTask, Updates, TaskOK, OperatorTask, To, Gone,
        Workers, Ensuring, Dispatching, Saving, Registering, Operating
<1>4. TypeOK'
  BY <1>0, <1>1, <1>2, InvFacts, IngestionAssumption
    DEF Rebind, At, TypeOK, Moves, TaskOK, HookTask, OperatorTask, RowStates,
        Workers, WorkOK, Updates, tables, hierarchy, budgetVars, Ensuring,
        Dispatching, Saving, Registering, Operating
<1>5. Triggers(w)
  BY <1>0, <1>1, <1>3, InvFacts, IngestionAssumption
    DEF Triggers, Rebind, At, TypeOK, Workers, To, Gone, TaskOK, HookTask,
        OperatorTask, WorkOK, Updates, tables, hierarchy, budgetVars, Ensuring,
        Dispatching, Saving, Registering, Operating, Active
<1>6. Accounts(w)
  BY <1>0, <1>1, <1>3, InvFacts, IngestionAssumption
    DEF Accounts, Rebind, At, TypeOK, Workers, To, Gone, TaskOK, HookTask,
        OperatorTask, WorkOK, Updates, tables, hierarchy, budgetVars, Ensuring,
        Dispatching, Saving, Registering, Operating, Active
<1>7. Registers(w)
  BY <1>0, <1>1, <1>3, InvFacts, IngestionAssumption
    DEF Registers, Rebind, At, TypeOK, Workers, To, Gone, TaskOK, HookTask,
        OperatorTask, WorkOK, Updates, tables, hierarchy, budgetVars, Ensuring,
        Dispatching, Saving, Registering, Operating, Active
<1>8. QED
  BY <1>0, <1>2, <1>3, <1>4, <1>5, <1>6, <1>7, StepKeeps

LEMMA RaiseStep ==
  ASSUME IInv, NEW w \in Workers, Raise(w)
  PROVE  IInv'
<1>0. w \in Workers /\ TypeOK /\ WorkOK
  BY InvFacts DEF Workers
<1>1. (Gone(w) /\ work[w].pc \in {"idle", "audit", "rollback"}) \/ (Failed(w) /\ work[w].pc \notin {"idle", "audit", "rollback"})
  BY <1>0, EndsEffect, FailsEffect DEF Raise, At, Active
<1>2. Moves(w)
  BY <1>1 DEF To, Gone, Failed
<1>3. TaskOK(w)'
  BY <1>0, <1>1, InvFacts, IngestionAssumption
    DEF Raise, At, TaskOK, WorkOK, HookTask, OperatorTask, To, Gone, Failed,
        Workers, Updates, Ensuring, Dispatching, Saving, Registering, Operating
<1>4. TypeOK'
  BY <1>0, <1>1, <1>2, InvFacts, IngestionAssumption
    DEF Raise, At, TypeOK, Moves, TaskOK, HookTask, OperatorTask, RowStates,
        Workers, Spend, tables, hierarchy, Ensuring, Dispatching, Saving,
        Registering, Operating
<1>5. Triggers(w)
  BY <1>0, <1>1, <1>3, InvFacts, IngestionAssumption
    DEF Triggers, Raise, At, TypeOK, Workers, To, Gone, Failed, TaskOK, HookTask,
        OperatorTask, tables, hierarchy, Ensuring, Dispatching, Saving,
        Registering, Operating, Active
<1>6. Accounts(w)
  BY <1>0, <1>1, <1>3, InvFacts, IngestionAssumption
    DEF Accounts, Raise, At, TypeOK, Workers, To, Gone, Failed, TaskOK, HookTask,
        OperatorTask, tables, hierarchy, Ensuring, Dispatching, Saving,
        Registering, Operating, Active
<1>7. Registers(w)
  BY <1>0, <1>1, <1>3, InvFacts, IngestionAssumption
    DEF Registers, Raise, At, TypeOK, Workers, To, Gone, Failed, TaskOK, HookTask,
        OperatorTask, tables, hierarchy, Ensuring, Dispatching, Saving,
        Registering, Operating, Active
<1>8. QED
  BY <1>0, <1>2, <1>3, <1>4, <1>5, <1>6, <1>7, StepKeeps

\* A row whose INSERT was not answered stays, and counts as stuck.
LEMMA InsertLostStep ==
  ASSUME IInv, NEW o \in Operators, AnswerLost(o),
         NEW id \in Ids, CreateRepository(o, id), phase' = [phase EXCEPT ![id] = "stuck"],
         Ends(o), UNCHANGED <<recorded, jobs, started>>
  PROVE  IInv'
<1>0. o \in Workers /\ TypeOK /\ WorkOK
  BY InvFacts DEF Workers
<1>1. Gone(o) /\ work[o].op # "register"
  <2>1. OperatorTask(work[o]) /\ work[o].pc = "idle"
    BY <1>0 DEF WorkOK, CreateRepository, At
  <2> QED BY <1>0, <2>1, EndsEffect DEF OperatorTask, Registering, Ensuring
<1>2. Moves(o)
  BY <1>1 DEF Gone
<1>3. TaskOK(o)'
  BY <1>0, <1>1, IngestionAssumption DEF TaskOK, OperatorTask, HookTask, Gone, Workers
<1>4. /\ repos' \in [Ids -> RowStates]
      /\ \A other \in Ids \ {id} : repos'[other] = repos[other] /\ phase'[other] = phase[other]
      /\ phase' \in [Ids -> {"fresh", "new", "ready", "stuck"}] /\ phase'[id] = "stuck"
  BY <1>0 DEF CreateRepository, TypeOK, RowStates
<1>5. /\ UNCHANGED <<recorded, jobs, started, builds, audited, folders, crashes, outcome>>
      /\ faults' \in 0..MaxFaults
  BY <1>0, IngestionAssumption DEF AnswerLost, Spend, TypeOK
<1>6. TypeOK'
  BY <1>0, <1>2, <1>4, <1>5 DEF TypeOK, Moves
<1>7. Triggers(o) /\ Accounts(o)
  BY <1>5, IngestionAssumption DEF Triggers, Accounts
<1>8. Registers(o)
  BY <1>1, <1>4 DEF Registers
<1>9. QED
  BY <1>0, <1>2, <1>3, <1>6, <1>7, <1>8, StepKeeps

LEMMA AnswerLostStep ==
  ASSUME IInv, NEW w \in Workers, AnswerLost(w)
  PROVE  IInv'
<1>0. w \in Workers /\ TypeOK /\ WorkOK
  BY InvFacts DEF Workers
<1> DEFINE Recorded == w \in Hooks /\ At(w, "idle") /\ Ends(w)
                       /\ recorded' = recorded \cup {DeliveryOf[w]} /\ UNCHANGED <<jobs, started>>
           Written == At(w, "writeJob") /\ Fails(w) /\ UNCHANGED <<recorded, started>>
                      /\ jobs' = [jobs EXCEPT ![Name(w)] = @ \cup {Job(w)}]
           Queued == At(w, "trigger") /\ Fails(w) /\ UNCHANGED <<recorded, jobs>>
                     /\ started' = [started EXCEPT ![DeliveryOf[w]] = @ + 1]
<1> SUFFICES ASSUME Recorded \/ Written \/ Queued, UNCHANGED <<repos, phase>>
             PROVE  IInv'
  BY InsertLostStep DEF AnswerLost
<1>a. Spend /\ UNCHANGED <<builds, audited, folders, crashes, outcome>>
  BY DEF AnswerLost
<1>1. \/ /\ w \in Hooks /\ At(w, "idle") /\ Gone(w)
        /\ recorded' = recorded \cup {DeliveryOf[w]} /\ UNCHANGED <<jobs, started>>
     \/ /\ At(w, "writeJob") /\ Failed(w) /\ jobs' = [jobs EXCEPT ![Name(w)] = @ \cup {Job(w)}]
        /\ UNCHANGED <<recorded, started>>
     \/ /\ At(w, "trigger") /\ Failed(w) /\ started' = [started EXCEPT ![DeliveryOf[w]] = @ + 1]
        /\ UNCHANGED <<recorded, jobs>>
  BY <1>0, EndsEffect, FailsEffect DEF At
<1> HIDE DEF Recorded, Written, Queued
<1>2. Moves(w)
  BY <1>1 DEF To, Gone, Failed
<1>3. TaskOK(w)'
  BY <1>0, <1>1, InvFacts, IngestionAssumption
    DEF At, TaskOK, WorkOK, HookTask, OperatorTask, To, Gone, Failed,
        Workers, Updates, Ensuring, Dispatching, Saving, Registering, Operating
<1>4. TypeOK'
  BY <1>a, <1>0, <1>1, <1>2, InvFacts, IngestionAssumption
    DEF At, TypeOK, Moves, TaskOK, HookTask, OperatorTask, RowStates,
        Workers, Spend, Job, Ensuring, Dispatching, Saving, Registering, Operating
<1>5. Triggers(w)
  BY <1>a, <1>0, <1>1, <1>3, InvFacts, IngestionAssumption
    DEF Triggers, At, TypeOK, Workers, To, Gone, Failed, TaskOK,
        HookTask, OperatorTask, Ensuring, Dispatching, Saving, Registering,
        Operating, Active
<1>6. Accounts(w)
  BY <1>a, <1>0, <1>1, <1>3, InvFacts, IngestionAssumption
    DEF Accounts, At, TypeOK, Workers, To, Gone, Failed, TaskOK,
        HookTask, OperatorTask, Ensuring, Dispatching, Saving, Registering,
        Operating, Active
<1>7. Registers(w)
  BY <1>a, <1>0, <1>1, <1>3, InvFacts, IngestionAssumption
    DEF Registers, At, TypeOK, Workers, To, Gone, Failed, TaskOK,
        HookTask, OperatorTask, Ensuring, Dispatching, Saving, Registering,
        Operating, Active
<1>8. QED
  BY <1>0, <1>2, <1>3, <1>4, <1>5, <1>6, <1>7, StepKeeps

\* A cancelled registration leaves its row, which counts as stuck.
LEMMA CancelledStep ==
  ASSUME IInv, NEW o \in Operators, Cancelled(o)
  PROVE  IInv'
<1>0. o \in Workers /\ TypeOK /\ WorkOK
  BY InvFacts DEF Workers
<1>1. Gone(o)
  BY <1>0, EndsEffect DEF Cancelled
<1>2. Moves(o)
  BY <1>1 DEF Gone
<1>3. TaskOK(o)'
  BY <1>0, <1>1, IngestionAssumption DEF TaskOK, OperatorTask, HookTask, Gone, Workers
<1>4. work[o].op = "register" => work[o].id \in Ids
  BY <1>0 DEF WorkOK, OperatorTask
<1>5. /\ UNCHANGED <<repos, recorded, jobs, started, builds, audited, folders, crashes, outcome>>
      /\ faults' \in 0..MaxFaults
  BY <1>0, IngestionAssumption DEF Cancelled, Spend, TypeOK, tables, hierarchy
<1>6. /\ phase' \in [Ids -> {"fresh", "new", "ready", "stuck"}]
      /\ \A id \in Ids : phase'[id] = "new" => phase[id] = "new"
      /\ work[o].op = "register" => phase'[work[o].id] # "new"
  BY <1>0, <1>4 DEF Cancelled, TypeOK
<1>7. TypeOK'
  BY <1>0, <1>2, <1>5, <1>6 DEF TypeOK, Moves
<1>8. Triggers(o) /\ Accounts(o)
  BY <1>5, IngestionAssumption DEF Triggers, Accounts
<1>9. Registers(o)
  BY <1>5, <1>6 DEF Registers
<1>10. QED
  BY <1>0, <1>2, <1>3, <1>7, <1>8, <1>9, StepKeeps

LEMMA RegisterStep ==
  ASSUME IInv, NEW o \in Operators, NEW id \in Ids, Register(o, id)
  PROVE  IInv'
<1>0. o \in Workers /\ TypeOK /\ WorkOK
  BY InvFacts DEF Workers
<1>1. Moves(o) /\ work'[o].pc = "folder" /\ work'[o].op = "register" /\ work'[o].id = id
  BY <1>0 DEF Register, CreateRepository, At, Active, Moves, TypeOK, Tasks, NoWork, RowStates
<1>2. Moves(o)
  BY <1>1
<1>3. TaskOK(o)'
  BY <1>0, <1>1, InvFacts, IngestionAssumption
    DEF Register, CreateRepository, At, Moves, TypeOK, Tasks, NoWork, RowStates, TaskOK, WorkOK,
        HookTask, OperatorTask, Workers, Updates, Ensuring, Dispatching, Saving,
        Registering, Operating
<1>4. TypeOK'
  BY <1>0, <1>1, <1>2, InvFacts, IngestionAssumption
    DEF Register, CreateRepository, At, TypeOK, Moves, TaskOK, HookTask, OperatorTask, RowStates,
        Workers, Tasks, NoWork, hierarchy, budgetVars, Ensuring, Dispatching,
        Saving, Registering, Operating
<1>5. Triggers(o)
  BY <1>0, <1>1, <1>3, InvFacts, IngestionAssumption
    DEF Triggers, Register, CreateRepository, At, TypeOK, Workers, TaskOK, HookTask, OperatorTask,
        Moves, Tasks, NoWork, RowStates, hierarchy, budgetVars, Ensuring,
        Dispatching, Saving, Registering, Operating, Active
<1>6. Accounts(o)
  BY <1>0, <1>1, <1>3, InvFacts, IngestionAssumption
    DEF Accounts, Register, CreateRepository, At, TypeOK, Workers, TaskOK, HookTask, OperatorTask,
        Moves, Tasks, NoWork, RowStates, hierarchy, budgetVars, Ensuring,
        Dispatching, Saving, Registering, Operating, Active
<1>7. Registers(o)
  BY <1>0, <1>1, <1>3, InvFacts, IngestionAssumption
    DEF Registers, Register, CreateRepository, At, TypeOK, Workers, TaskOK, HookTask, OperatorTask,
        Moves, Tasks, NoWork, RowStates, hierarchy, budgetVars, Ensuring,
        Dispatching, Saving, Registering, Operating, Active
<1>8. QED
  BY <1>0, <1>2, <1>3, <1>4, <1>5, <1>6, <1>7, StepKeeps

LEMMA RequestStep ==
  ASSUME IInv, NEW o \in Operators, NEW op \in Requests, NEW id \in Ids,
         Request(o, op, id)
  PROVE  IInv'
<1>0. o \in Workers /\ TypeOK /\ WorkOK
  BY InvFacts DEF Workers
<1>1. Moves(o) /\ work'[o].pc = "get" /\ work'[o].op = op /\ work'[o].id = id
  BY <1>0 DEF Request, At, Active, Moves, TypeOK, Tasks, NoWork, RowStates
<1>2. Moves(o)
  BY <1>1
<1>3. TaskOK(o)'
  BY <1>0, <1>1, InvFacts, IngestionAssumption
    DEF Request, At, Moves, TypeOK, Tasks, NoWork, RowStates, TaskOK, WorkOK,
        HookTask, OperatorTask, Workers, Updates, Ensuring, Dispatching, Saving,
        Registering, Operating
<1>4. TypeOK'
  BY <1>0, <1>1, <1>2, InvFacts, IngestionAssumption
    DEF Request, At, TypeOK, Moves, TaskOK, HookTask, OperatorTask, RowStates,
        Workers, Tasks, NoWork, tables, hierarchy, budgetVars, historyVars,
        Ensuring, Dispatching, Saving, Registering, Operating
<1>5. Triggers(o)
  BY <1>0, <1>1, <1>3, InvFacts, IngestionAssumption
    DEF Triggers, Request, At, TypeOK, Workers, TaskOK, HookTask, OperatorTask,
        Moves, Tasks, NoWork, RowStates, tables, hierarchy, budgetVars,
        historyVars, Ensuring, Dispatching, Saving, Registering, Operating, Active
<1>6. Accounts(o)
  BY <1>0, <1>1, <1>3, InvFacts, IngestionAssumption
    DEF Accounts, Request, At, TypeOK, Workers, TaskOK, HookTask, OperatorTask,
        Moves, Tasks, NoWork, RowStates, tables, hierarchy, budgetVars,
        historyVars, Ensuring, Dispatching, Saving, Registering, Operating, Active
<1>7. Registers(o)
  BY <1>0, <1>1, <1>3, InvFacts, IngestionAssumption
    DEF Registers, Request, At, TypeOK, Workers, TaskOK, HookTask, OperatorTask,
        Moves, Tasks, NoWork, RowStates, tables, hierarchy, budgetVars,
        historyVars, Ensuring, Dispatching, Saving, Registering, Operating, Active
<1>8. QED
  BY <1>0, <1>2, <1>3, <1>4, <1>5, <1>6, <1>7, StepKeeps

LEMMA RollbackStep ==
  ASSUME IInv, NEW o \in Operators, Rollback(o)
  PROVE  IInv'
<1>0. o \in Workers /\ TypeOK /\ WorkOK
  BY InvFacts DEF Workers
<1>1. Gone(o)
  BY <1>0, EndsEffect DEF Rollback, At
<1>2. Moves(o)
  BY <1>1 DEF Gone
<1>3. TaskOK(o)'
  BY <1>0, <1>1, InvFacts, IngestionAssumption
    DEF Rollback, At, TaskOK, WorkOK, HookTask, OperatorTask, Gone, Workers,
        Updates, Ensuring, Dispatching, Saving, Registering, Operating
<1>4. TypeOK'
  BY <1>0, <1>1, <1>2, InvFacts, IngestionAssumption
    DEF Rollback, At, TypeOK, Moves, TaskOK, HookTask, OperatorTask, RowStates,
        Workers, DeleteRepository, hierarchy, budgetVars, historyVars, Ensuring,
        Dispatching, Saving, Registering, Operating
<1>5. Triggers(o)
  BY <1>0, <1>1, <1>3, InvFacts, IngestionAssumption
    DEF Triggers, Rollback, At, TypeOK, Workers, Gone, TaskOK, HookTask,
        OperatorTask, hierarchy, budgetVars, historyVars, Ensuring, Dispatching,
        Saving, Registering, Operating, Active
<1>6. Accounts(o)
  BY <1>0, <1>1, <1>3, InvFacts, IngestionAssumption
    DEF Accounts, Rollback, At, TypeOK, Workers, Gone, TaskOK, HookTask,
        OperatorTask, hierarchy, budgetVars, historyVars, Ensuring, Dispatching,
        Saving, Registering, Operating, Active
<1>7. Registers(o)
  BY <1>0, <1>1, <1>3, InvFacts, IngestionAssumption
    DEF Registers, DeleteRepository, Rollback, At, TypeOK, Workers, Gone, TaskOK,
        HookTask, OperatorTask, hierarchy, budgetVars, historyVars, Ensuring,
        Dispatching, Saving, Registering, Operating, Active
<1>8. QED
  BY <1>0, <1>2, <1>3, <1>4, <1>5, <1>6, <1>7, StepKeeps

LEMMA ReadRowStep ==
  ASSUME IInv, NEW o \in Operators, ReadRow(o)
  PROVE  IInv'
<1>0. o \in Workers /\ TypeOK /\ WorkOK
  BY InvFacts DEF Workers
<1>1. To(o, "writeRow") \/ Failed(o)
  BY <1>0, FailsEffect DEF ReadRow, At, Active, To, Moves, TypeOK, Tasks
<1>2. Moves(o)
  BY <1>1 DEF To, Gone, Failed
<1>3. TaskOK(o)'
  BY <1>0, <1>1, InvFacts, IngestionAssumption
    DEF ReadRow, At, To, Moves, TypeOK, Tasks, TaskOK, WorkOK, HookTask,
        OperatorTask, Gone, Failed, Workers, Updates, Ensuring, Dispatching,
        Saving, Registering, Operating
<1>4. TypeOK'
  BY <1>0, <1>1, <1>2, InvFacts, IngestionAssumption
    DEF ReadRow, At, TypeOK, Moves, TaskOK, HookTask, OperatorTask, RowStates,
        Workers, To, Tasks, tables, hierarchy, budgetVars, historyVars, Ensuring,
        Dispatching, Saving, Registering, Operating
<1>5. Triggers(o)
  BY <1>0, <1>1, <1>3, InvFacts, IngestionAssumption
    DEF Triggers, ReadRow, At, TypeOK, Workers, To, Gone, Failed, TaskOK,
        HookTask, OperatorTask, Moves, Tasks, tables, hierarchy, budgetVars,
        historyVars, Ensuring, Dispatching, Saving, Registering, Operating, Active
<1>6. Accounts(o)
  BY <1>0, <1>1, <1>3, InvFacts, IngestionAssumption
    DEF Accounts, ReadRow, At, TypeOK, Workers, To, Gone, Failed, TaskOK,
        HookTask, OperatorTask, Moves, Tasks, tables, hierarchy, budgetVars,
        historyVars, Ensuring, Dispatching, Saving, Registering, Operating, Active
<1>7. Registers(o)
  BY <1>0, <1>1, <1>3, InvFacts, IngestionAssumption
    DEF Registers, ReadRow, At, TypeOK, Workers, To, Gone, Failed, TaskOK,
        HookTask, OperatorTask, Moves, Tasks, tables, hierarchy, budgetVars,
        historyVars, Ensuring, Dispatching, Saving, Registering, Operating, Active
<1>8. QED
  BY <1>0, <1>2, <1>3, <1>4, <1>5, <1>6, <1>7, StepKeeps

LEMMA WriteRowStep ==
  ASSUME IInv, NEW o \in Operators, WriteRow(o)
  PROVE  IInv'
<1>0. o \in Workers /\ TypeOK /\ WorkOK
  BY InvFacts DEF Workers
<1>1. Gone(o)
  BY <1>0, EndsEffect DEF WriteRow, At, RowExists
<1>2. Moves(o)
  BY <1>1 DEF Gone
<1>3. TaskOK(o)'
  BY <1>0, <1>1, InvFacts, IngestionAssumption
    DEF WriteRow, At, RowExists, TaskOK, WorkOK, HookTask, OperatorTask, Gone,
        Workers, Updates, Ensuring, Dispatching, Saving, Registering, Operating
<1>4. TypeOK'
  <2> DEFINE new == CASE work[o].op = "enable" -> "enabled"
                      [] work[o].op = "disable" -> "disabled"
                      [] OTHER -> work[o].row
  <2>1. work[o].row \in RowStates
    BY <1>0 DEF TypeOK, Tasks
  <2>2. new \in RowStates
    BY <2>1 DEF RowStates
  <2>3. repos' = IF RowExists(o) THEN [repos EXCEPT ![work[o].id] = new] ELSE repos
    BY DEF WriteRow
  <2> HIDE DEF new
  <2>4. repos' \in [Ids -> RowStates]
    BY <1>0, <2>2, <2>3 DEF TypeOK
  <2> QED
    BY <1>0, <1>2, <2>4 DEF WriteRow, TypeOK, Moves, hierarchy, budgetVars, historyVars
<1>5. Triggers(o)
  BY <1>0, <1>1, <1>3, InvFacts, IngestionAssumption
    DEF Triggers, WriteRow, At, TypeOK, Workers, Gone, TaskOK, HookTask,
        OperatorTask, RowExists, hierarchy, budgetVars, historyVars, Ensuring,
        Dispatching, Saving, Registering, Operating, Active
<1>6. Accounts(o)
  BY <1>0, <1>1, <1>3, InvFacts, IngestionAssumption
    DEF Accounts, WriteRow, At, TypeOK, Workers, Gone, TaskOK, HookTask,
        OperatorTask, RowExists, hierarchy, budgetVars, historyVars, Ensuring,
        Dispatching, Saving, Registering, Operating, Active
<1>7. Registers(o)
  BY <1>0, <1>1, <1>3, InvFacts, IngestionAssumption
    DEF Registers, WriteRow, At, TypeOK, Workers, Gone, TaskOK, HookTask,
        OperatorTask, RowExists, hierarchy, budgetVars, historyVars, Ensuring,
        Dispatching, Saving, Registering, Operating, Active
<1>8. QED
  BY <1>0, <1>2, <1>3, <1>4, <1>5, <1>6, <1>7, StepKeeps

LEMMA ReadFolderStep ==
  ASSUME IInv, NEW o \in Operators, ReadFolder(o)
  PROVE  IInv'
<1>0. o \in Workers /\ TypeOK /\ WorkOK
  BY InvFacts DEF Workers
<1>1. To(o, "deleteFolder") \/ To(o, "deleteRow")
  BY <1>0, GotoEffect DEF ReadFolder, At, Active
<1>2. Moves(o)
  BY <1>1 DEF To
<1>3. TaskOK(o)'
  BY <1>0, <1>1, InvFacts, IngestionAssumption
    DEF ReadFolder, At, TaskOK, WorkOK, HookTask, OperatorTask, To, Workers,
        Updates, Ensuring, Dispatching, Saving, Registering, Operating
<1>4. TypeOK'
  BY <1>0, <1>1, <1>2, InvFacts, IngestionAssumption
    DEF ReadFolder, At, TypeOK, Moves, TaskOK, HookTask, OperatorTask, RowStates,
        Workers, tables, hierarchy, budgetVars, historyVars, Ensuring,
        Dispatching, Saving, Registering, Operating
<1>5. Triggers(o)
  BY <1>0, <1>1, <1>3, InvFacts, IngestionAssumption
    DEF Triggers, ReadFolder, At, TypeOK, Workers, To, TaskOK, HookTask,
        OperatorTask, tables, hierarchy, budgetVars, historyVars, Ensuring,
        Dispatching, Saving, Registering, Operating, Active
<1>6. Accounts(o)
  BY <1>0, <1>1, <1>3, InvFacts, IngestionAssumption
    DEF Accounts, ReadFolder, At, TypeOK, Workers, To, TaskOK, HookTask,
        OperatorTask, tables, hierarchy, budgetVars, historyVars, Ensuring,
        Dispatching, Saving, Registering, Operating, Active
<1>7. Registers(o)
  BY <1>0, <1>1, <1>3, InvFacts, IngestionAssumption
    DEF Registers, ReadFolder, At, TypeOK, Workers, To, TaskOK, HookTask,
        OperatorTask, tables, hierarchy, budgetVars, historyVars, Ensuring,
        Dispatching, Saving, Registering, Operating, Active
<1>8. QED
  BY <1>0, <1>2, <1>3, <1>4, <1>5, <1>6, <1>7, StepKeeps

LEMMA DeleteFolderStep ==
  ASSUME IInv, NEW o \in Operators, DeleteFolder(o)
  PROVE  IInv'
<1>0. o \in Workers /\ TypeOK /\ WorkOK
  BY InvFacts DEF Workers
<1>1. To(o, "deleteRow") \/ Failed(o)
  BY <1>0, GotoEffect, FailsEffect DEF DeleteFolder, At, Active
<1>2. Moves(o)
  BY <1>1 DEF To, Gone, Failed
<1>3. TaskOK(o)'
  BY <1>0, <1>1, InvFacts, IngestionAssumption
    DEF DeleteFolder, At, TaskOK, WorkOK, HookTask, OperatorTask, To, Gone,
        Failed, Workers, Updates, Ensuring, Dispatching, Saving, Registering,
        Operating
<1>4. TypeOK'
  BY <1>0, <1>1, <1>2, InvFacts, IngestionAssumption
    DEF DeleteFolder, At, TypeOK, Moves, TaskOK, HookTask, OperatorTask,
        RowStates, Workers, tables, budgetVars, historyVars, Ensuring,
        Dispatching, Saving, Registering, Operating
<1>5. Triggers(o)
  BY <1>0, <1>1, <1>3, InvFacts, IngestionAssumption
    DEF Triggers, DeleteFolder, At, TypeOK, Workers, To, Gone, Failed, TaskOK,
        HookTask, OperatorTask, tables, budgetVars, historyVars, Ensuring,
        Dispatching, Saving, Registering, Operating, Active
<1>6. Accounts(o)
  BY <1>0, <1>1, <1>3, InvFacts, IngestionAssumption
    DEF Accounts, DeleteFolder, At, TypeOK, Workers, To, Gone, Failed, TaskOK,
        HookTask, OperatorTask, tables, budgetVars, historyVars, Ensuring,
        Dispatching, Saving, Registering, Operating, Active
<1>7. Registers(o)
  BY <1>0, <1>1, <1>3, InvFacts, IngestionAssumption
    DEF Registers, DeleteFolder, At, TypeOK, Workers, To, Gone, Failed, TaskOK,
        HookTask, OperatorTask, tables, budgetVars, historyVars, Ensuring,
        Dispatching, Saving, Registering, Operating, Active
<1>8. QED
  BY <1>0, <1>2, <1>3, <1>4, <1>5, <1>6, <1>7, StepKeeps

LEMMA DeleteRowStep ==
  ASSUME IInv, NEW o \in Operators, DeleteRow(o)
  PROVE  IInv'
<1>0. o \in Workers /\ TypeOK /\ WorkOK
  BY InvFacts DEF Workers
<1>1. Gone(o)
  BY <1>0, EndsEffect DEF DeleteRow, At
<1>2. Moves(o)
  BY <1>1 DEF Gone
<1>3. TaskOK(o)'
  BY <1>0, <1>1, InvFacts, IngestionAssumption
    DEF DeleteRow, At, TaskOK, WorkOK, HookTask, OperatorTask, Gone, Workers,
        Updates, Ensuring, Dispatching, Saving, Registering, Operating
<1>4. TypeOK'
  BY <1>0, <1>1, <1>2, InvFacts, IngestionAssumption
    DEF DeleteRow, At, TypeOK, Moves, TaskOK, HookTask, OperatorTask, RowStates,
        Workers, DeleteRepository, hierarchy, budgetVars, historyVars, Ensuring,
        Dispatching, Saving, Registering, Operating
<1>5. Triggers(o)
  BY <1>0, <1>1, <1>3, InvFacts, IngestionAssumption
    DEF Triggers, DeleteRow, At, TypeOK, Workers, Gone, TaskOK, HookTask,
        OperatorTask, hierarchy, budgetVars, historyVars, Ensuring, Dispatching,
        Saving, Registering, Operating, Active
<1>6. Accounts(o)
  BY <1>0, <1>1, <1>3, InvFacts, IngestionAssumption
    DEF Accounts, DeleteRow, At, TypeOK, Workers, Gone, TaskOK, HookTask,
        OperatorTask, hierarchy, budgetVars, historyVars, Ensuring, Dispatching,
        Saving, Registering, Operating, Active
<1>7. Registers(o)
  BY <1>0, <1>1, <1>3, InvFacts, IngestionAssumption
    DEF Registers, DeleteRepository, DeleteRow, At, TypeOK, Workers, Gone, TaskOK,
        HookTask, OperatorTask, hierarchy, budgetVars, historyVars, Ensuring,
        Dispatching, Saving, Registering, Operating, Active
<1>8. QED
  BY <1>0, <1>2, <1>3, <1>4, <1>5, <1>6, <1>7, StepKeeps

LEMMA CrashStep == ASSUME IInv, Crash PROVE IInv'
<1> USE IngestionAssumption DEF IInv, TypeOK, Crash, tables, hierarchy, historyVars
<1>1. \A w \in Workers :
        \/ work'[w] = Over /\ work[w].pc \in Active
        \/ work'[w] = work[w] /\ work[w].pc \notin Active
  OBVIOUS
<1>2. Over \in Tasks /\ Over.pc = "over" /\ Over.op = "hook" /\ "over" \notin Active
  BY DEF Over, NoWork, Tasks, RowStates, Active
<1>3. TypeOK'
  <2>1. work' \in [Workers -> Tasks]
    BY <1>1, <1>2
  <2> QED
    BY <2>1
<1>4. crashes' # 0
  OBVIOUS
<1>5. WorkOK'
  BY <1>1, <1>2
      DEF WorkOK, HookTask, OperatorTask, Workers, Dispatching, Ensuring, Saving
<1>6. \A h \in Hooks : ~(work'[h].pc \in Active)
  BY <1>1, <1>2 DEF Workers
<1>7. OneDispatch' /\ Accounted'
  BY <1>6 DEF OneDispatch, Accounted, Active
<1>8. QED
  BY <1>3, <1>4, <1>5, <1>7 DEF AtMostOneTrigger, NoSilentLoss, NoHalfRegistration

LEMMA StutterStep == ASSUME IInv, UNCHANGED vars PROVE IInv'
  BY
    DEF IInv, vars, tables, hierarchy, budgetVars, historyVars, TypeOK, WorkOK,
        OneDispatch, Accounted, AtMostOneTrigger, NoSilentLoss, NoHalfRegistration

-----------------------------------------------------------------------------
LEMMA InitInv == Init => IInv
<1> SUFFICES ASSUME Init PROVE IInv
  OBVIOUS
<1> USE IngestionAssumption DEF Init
<1>1. NoWork \in Tasks /\ NoWork.pc = "idle" /\ NoWork.op = "hook" /\ "idle" \notin Active
  BY DEF NoWork, Tasks, RowStates, Active
<1>2. TypeOK
  BY <1>1 DEF TypeOK, RowStates
<1>3. \A w \in Workers : work[w] = NoWork
  OBVIOUS
<1>4. WorkOK
  BY <1>1, <1>3
    DEF WorkOK, HookTask, OperatorTask, Workers, Dispatching, Ensuring, Saving
<1>5. OneDispatch /\ Accounted
  BY <1>1, <1>3 DEF OneDispatch, Accounted, Workers
<1>6. AtMostOneTrigger /\ NoSilentLoss /\ NoHalfRegistration
  BY DEF AtMostOneTrigger, NoSilentLoss, NoHalfRegistration
<1>7. QED
  BY <1>2, <1>4, <1>5, <1>6 DEF IInv

LEMMA NextInv == IInv /\ [Next]_vars => IInv'
<1> SUFFICES ASSUME IInv, [Next]_vars PROVE IInv'
  OBVIOUS
<1>1. ASSUME NEW h \in Hooks, HookStep(h) PROVE IInv'
  BY <1>1, HookRecordStep, HookListStep, HookTriggerStep, HookSaveQueueStep,
     HookSaveBuildStep, HookPublishStep, HookAuditStep DEF HookStep
<1>2. ASSUME NEW o \in Operators, OperatorStep(o) \/ Cancelled(o) PROVE IInv'
  BY <1>2, RegisterStep, RequestStep, RollbackStep, ReadRowStep, WriteRowStep,
     ReadFolderStep, DeleteFolderStep, DeleteRowStep, CancelledStep DEF OperatorStep
<1>3. ASSUME NEW w \in Workers, ReconcileStep(w) \/ Raise(w) \/ AnswerLost(w) PROVE IInv'
  BY <1>3, GetRepositoryStep, EnsureFolderStep, ReadJobStep, WriteJobStep, RebindStep,
     RaiseStep, AnswerLostStep DEF ReconcileStep
<1>4. CASE Crash
  BY <1>4, CrashStep
<1>5. CASE UNCHANGED vars
  BY <1>5, StutterStep
<1>6. QED
  BY <1>1, <1>2, <1>3, <1>4, <1>5 DEF Next

\* The inductive invariant of ingestion: it holds initially and every request,
\* background task, fault and restart keeps it.
THEOREM Invariant == Spec => []IInv
  BY InitInv, NextInv, PTL DEF Spec

\* The tables, the Jenkins hierarchy and the tasks keep their types.
THEOREM TypeCorrect == Spec => []TypeOK
<1>1. IInv => TypeOK
  BY DEF IInv
<1>2. QED
  BY <1>1, Invariant, PTL

\* A delivery starts at most one Jenkins run, whatever GitHub repeats and
\* whatever fails between process_github_webhook and trigger_pipeline.
THEOREM OneTrigger == Spec => []AtMostOneTrigger
<1>1. IInv => AtMostOneTrigger
  BY DEF IInv
<1>2. QED
  BY <1>1, Invariant, PTL

\* An accepted delivery whose dispatch_github_webhook is over was ignored, saved
\* or audited, unless the audit itself failed or the gateway restarted.
THEOREM NothingLostSilently == Spec => []NoSilentLoss
<1>1. IInv => NoSilentLoss
  BY DEF IInv
<1>2. QED
  BY <1>1, Invariant, PTL

\* When reconciliation fails, register_repository takes its row back, unless the
\* rollback failed, the call was cancelled, the INSERT committed with its answer
\* lost (phase "stuck" in all three), or the gateway restarted.
THEOREM RegistrationTakenBack == Spec => []NoHalfRegistration
<1>1. IInv => NoHalfRegistration
  BY DEF IInv
<1>2. QED
  BY <1>1, Invariant, PTL

\* Only create_repository makes a row, and never again one that was deleted:
\* the other writers replace a row that exists or delete one.
LEMMA RowsStayDeleted ==
  ASSUME TypeOK, [Next]_vars, NEW id \in Ids, phase[id] # "fresh", repos[id] = "absent"
  PROVE  repos'[id] = "absent"
<1>1. CASE UNCHANGED repos
  BY <1>1
<1>2. ASSUME NEW o \in Operators, NEW other \in Ids, CreateRepository(o, other)
      PROVE  repos'[id] = "absent"
  BY <1>2 DEF CreateRepository, TypeOK
<1>3. ASSUME NEW o \in Operators, WriteRow(o)
      PROVE  repos'[id] = "absent"
  BY <1>3 DEF WriteRow, RowExists, TypeOK
<1>4. ASSUME NEW o \in Operators, Rollback(o) \/ DeleteRow(o)
      PROVE  repos'[id] = "absent"
  BY <1>4 DEF Rollback, DeleteRow, DeleteRepository, TypeOK
<1>5. QED
  <2>1. ASSUME NEW h \in Hooks, HookStep(h) PROVE UNCHANGED repos
    BY <2>1
      DEF HookStep, HookRecord, HookList, HookTrigger, HookSaveQueue,
          HookSaveBuild, HookPublish, HookAudit, tables
  <2>2. ASSUME NEW w \in Workers, ReconcileStep(w) \/ Raise(w) \/ AnswerLost(w)
        PROVE  repos'[id] = "absent"
    <3>1. ReconcileStep(w) \/ Raise(w) => UNCHANGED repos
      BY DEF ReconcileStep, GetRepository, EnsureFolder, ReadJob, WriteJob, Rebind, Raise, tables
    <3>2. AnswerLost(w) =>
            \/ UNCHANGED repos
            \/ w \in Operators /\ \E other \in Ids : CreateRepository(w, other)
      BY DEF AnswerLost
    <3> QED
      BY <1>1, <1>2, <2>2, <3>1, <3>2
  <2>3. ASSUME NEW o \in Operators, OperatorStep(o) \/ Cancelled(o)
        PROVE  repos'[id] = "absent"
    <3>1. ASSUME NEW op \in Requests, NEW other \in Ids, Request(o, op, other)
          PROVE  UNCHANGED repos
      BY <3>1 DEF Request, tables
    <3>2. ReadRow(o) \/ ReadFolder(o) \/ DeleteFolder(o) \/ Cancelled(o) => UNCHANGED repos
      BY DEF ReadRow, ReadFolder, DeleteFolder, Cancelled, tables
    <3> QED
      BY <1>1, <1>2, <1>3, <1>4, <2>3, <3>1, <3>2 DEF OperatorStep, Register
  <2>4. Crash \/ UNCHANGED vars => UNCHANGED repos
    BY DEF Crash, vars, tables
  <2> QED
    BY <1>1, <2>1, <2>2, <2>3, <2>4 DEF Next

\* No update, scan, dispatch or rollback that read an older row brings back a
\* repository that unregister_repository removed.
THEOREM RowsNotResurrected == Spec => NoResurrection
<1>1. TypeOK /\ [Next]_vars =>
        [\A id \in Ids : phase[id] # "fresh" /\ repos[id] = "absent" => repos'[id] = "absent"]_vars
  BY RowsStayDeleted
<1>2. QED
  BY <1>1, TypeCorrect, PTL DEF Spec, NoResurrection
=============================================================================
