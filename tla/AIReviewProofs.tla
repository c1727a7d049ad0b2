--------------------------- MODULE AIReviewProofs ---------------------------
(***************************************************************************)
(* TypeOK, SuccessMeansCleanReview, BuildLogJustified, ReturnedMeansLogged,*)
(* ReviewsBounded and FinalRunStays of AIReview, for any tasks, builds and *)
(* keys, any policy of each build and any number of attempts, faults and   *)
(* restarts.                                                               *)
(***************************************************************************)
EXTENDS AIReview, FiniteSetTheorems, TLAPS

\* Where a task has still to post its review, and has a run of its own.
Heading == {"pending", "review", "post"}
Reviewing == Heading \cup {"finalStatus", "failStatus"}
Completing == {"saveRun", "attach"}
Holding == Reviewing \cup Completing \cup {"dedupStatus"}

\* What is true of a run of key k, stored or copied, when the clean reviews
\* are those of the keys in c: it has a log when it is final, its outcome
\* has a reason, and only a build without review lets it be skipped.
RunOK(c, k, r) ==
  /\ r.owner = NoTask <=> r = NoRun
  /\ r.status = "absent" <=> r = NoRun
  /\ r.log = "none" <=> r.status \in {"absent", "running"}
  /\ r.log = "passed" => k \in c
  /\ r.status = "succeeded" /\ ~r.blocking => k \in c
  /\ r.status = "skipped" => \E b \in Builds : KeyOf[b] = k /\ b \notin Reviewed

RunsOK == \A k \in Keys : RunOK(clean, k, runs[k])

\* What is true of a task's own copy of the run: once a row exists the copy
\* has its owner, so that the task's save replaces it.
TaskOK(t) ==
  LET at == task[t].pc
      run == task[t].run
      stored == runs[Key(t)]
  IN
  /\ at = "create" => stored.owner # t
  /\ at \in Holding => run.owner = stored.owner /\ run.owner # NoTask
  /\ at \in Reviewing \cup {"dedupStatus"} => IsReviewed(t)
  /\ at = "finalStatus" => run.blocking \/ Key(t) \in clean
  /\ at \in Completing \cup {"dedupStatus"} => RunOK(clean, Key(t), run)
  /\ at \in Completing => run.log # "none"
  /\ at = "attach" => stored.log # "none"
  /\ at = "returned" /\ ~IsReviewed(t) => stored.log # "none"

TasksOK == \A t \in Tasks : TaskOK(t)

LogsOK ==
  \A b \in Builds : logs[b] # "none" =>
    /\ runs[KeyOf[b]].log # "none"
    /\ logs[b] = "passed" => KeyOf[b] \in clean

\* The tasks that will post a review for k unless something fails.
ToPost(k) == {t \in Tasks : Key(t) = k /\ task[t].pc \in Heading}
Created(k) == IF runs[k] = NoRun THEN 0 ELSE 1

\* A task heads for its review because it created the run or took it over.
CountOK(k) ==
  /\ IsFiniteSet(ToPost(k))
  /\ posted[k] + Cardinality(ToPost(k)) <= Created(k) + takeovers[k]
CountsOK == \A k \in Keys : CountOK(k)

IInv ==
  /\ TypeOK /\ RunsOK /\ TasksOK /\ LogsOK /\ CountsOK
  /\ SuccessMeansCleanReview

-----------------------------------------------------------------------------
(* What a step does to the task that takes it.                             *)

Moves(t) ==
  /\ task' \in [Tasks -> TaskStates]
  /\ \A u \in Tasks \ {t} : task'[u] = task[u]

To(t, pc, run) == Moves(t) /\ task'[t].pc = pc /\ task'[t].run = run

LEMMA GotoEffect ==
  ASSUME TypeOK, NEW t \in Tasks, NEW pc \in {"returned"} \cup Active, Goto(t, pc)
  PROVE  To(t, pc, task[t].run)
<1> HIDE DEF Active
<1> QED
  BY DEF TypeOK, Goto, To, Moves, TaskStates

LEMMA GotoWithEffect ==
  ASSUME TypeOK, NEW t \in Tasks, NEW pc \in Active, NEW run \in RunRows, GotoWith(t, pc, run)
  PROVE  To(t, pc, run)
<1> HIDE DEF Active, RunRows
<1> QED
  BY DEF TypeOK, GotoWith, To, Moves, TaskStates

LEMMA OverIsState ==
  ASSUME NEW pc \in {"returned", "gaveUp", "dead"}
  PROVE  /\ Over(pc) \in TaskStates
         /\ Over(pc).pc = pc
<1>1. NoRun \in RunRows
  BY DEF NoRun, RunRows, Outcomes
<1>2. 1 \in 1..Attempts
  BY ReviewAssumption
<1> HIDE DEF RunRows, Active, NoRun
<1> QED
  BY <1>1, <1>2 DEF Over, Idle, TaskStates

LEMMA ReturnEffect ==
  ASSUME TypeOK, NEW t \in Tasks, Return(t)
  PROVE  Moves(t) /\ task'[t].pc = "returned"
<1>1. Over("returned") \in TaskStates /\ Over("returned").pc = "returned"
  BY OverIsState
<1> HIDE DEF Over, TaskStates
<1> QED
  BY <1>1 DEF TypeOK, Return, Moves

LEMMA RunOfTask ==
  ASSUME TypeOK, NEW t \in Tasks
  PROVE  /\ task[t] \in TaskStates
         /\ task[t].run \in RunRows
         /\ BuildOf[t] \in Builds /\ Key(t) \in Keys
         /\ runs[Key(t)] \in RunRows
<1> HIDE DEF Active, RunRows
<1> QED
  BY ReviewAssumption DEF TypeOK, TaskStates, Key

\* A run that is brought to its end.
LEMMA FinishedRun ==
  ASSUME NEW run \in RunRows, NEW outcome \in Outcomes,
         NEW s \in {"running", "skipped", "succeeded", "failed"}
  PROVE  /\ Finished(run, outcome, s) \in RunRows
         /\ Finished(run, outcome, s).owner = run.owner
         /\ Finished(run, outcome, s).status = s
         /\ Finished(run, outcome, s).log = outcome
         /\ Finished(run, outcome, s).blocking = run.blocking
  BY DEF Finished, RunRows

-----------------------------------------------------------------------------
(* What a step of t must respect for each property, and why that is enough. *)

\* Reviews are not taken back, the row of a key keeps its owner and its log.
Respects(t) ==
  /\ clean \subseteq clean'
  /\ \A k \in Keys \ {Key(t)} : runs'[k] = runs[k]
  /\ runs[Key(t)].log # "none" => runs'[Key(t)].log # "none"
  /\ \/ runs'[Key(t)].owner = runs[Key(t)].owner
     \/ runs[Key(t)].owner = NoTask /\ runs'[Key(t)].owner = t

\* A task heads for a review after it created or took over the run, and a
\* review is posted by a task that no longer heads for one.
Counts(t) ==
  /\ \A k \in Keys \ {Key(t)} : posted'[k] = posted[k] /\ takeovers'[k] = takeovers[k]
  /\ LET k == Key(t)
         was == task[t].pc \in Heading
         is == task'[t].pc \in Heading
     IN \/ /\ is = was
           /\ posted'[k] = posted[k] /\ Created(k)' + takeovers'[k] >= Created(k) + takeovers[k]
        \/ /\ was /\ ~is
           /\ posted'[k] <= posted[k] + 1
           /\ Created(k)' + takeovers'[k] >= Created(k) + takeovers[k]
        \/ /\ ~was /\ is
           /\ posted'[k] = posted[k]
           /\ Created(k)' + takeovers'[k] = Created(k) + takeovers[k] + 1

Shows ==
  \A k \in SettledKeys : status'[k] = "success" => status[k] = "success" \/ k \in clean'

Logs ==
  \A b \in Builds : logs'[b] # logs[b] =>
    /\ runs'[KeyOf[b]].log # "none"
    /\ logs'[b] = "passed" => KeyOf[b] \in clean'

LEMMA RunOKGrows ==
  ASSUME NEW c, NEW d, c \subseteq d, NEW k, NEW r, RunOK(c, k, r)
  PROVE  RunOK(d, k, r)
  BY DEF RunOK

LEMMA OthersKeep ==
  ASSUME TypeOK, NEW t \in Tasks, NEW u \in Tasks \ {t}, TaskOK(u), Moves(t), Respects(t)
  PROVE  TaskOK(u)'
<1> DEFINE run == task[u].run
           k == Key(u)
<1>1. task'[u] = task[u]
  BY DEF Moves
<1>2. /\ runs[k].log # "none" => runs'[k].log # "none"
      /\ runs[k].owner # NoTask => runs'[k].owner = runs[k].owner
      /\ runs'[k].owner = u => runs[k].owner = u
  BY RunOfTask DEF Respects
<1>3. RunOK(clean, k, run) => RunOK(clean', k, run)
  BY RunOKGrows DEF Respects
<1>4. k \in clean => k \in clean'
  BY DEF Respects
<1> HIDE DEF RunOK
<1> QED
  BY <1>1, <1>2, <1>3, <1>4 DEF TaskOK, IsReviewed, Key, Completing, Holding

LEMMA CountsKeep ==
  ASSUME TypeOK, TypeOK', NEW t \in Tasks, Moves(t), Respects(t), Counts(t),
         NEW k \in Keys, CountOK(k)
  PROVE  CountOK(k)'
<1> DEFINE S == ToPost(k)
<1>1. /\ IsFiniteSet(S) /\ Cardinality(S) \in Nat
      /\ posted[k] + Cardinality(S) <= Created(k) + takeovers[k]
  BY FS_CardinalityType DEF CountOK
<1>2. posted[k] \in Nat /\ posted'[k] \in Nat /\ takeovers[k] \in Nat /\ takeovers'[k] \in Nat
  BY DEF TypeOK
<1>3. Created(k) \in Nat /\ Created(k)' \in Nat
  BY DEF Created
<1>4. \A u \in Tasks \ {t} : u \in ToPost(k)' <=> u \in S
  BY DEF ToPost, Moves, Key
<1>5. CASE Key(t) # k
  <2>1. ToPost(k)' = S
    BY <1>4, <1>5 DEF ToPost, Key
  <2>2. Created(k)' = Created(k)
    BY <1>5 DEF Created, Respects
  <2>3. posted'[k] = posted[k] /\ takeovers'[k] = takeovers[k]
    BY <1>5 DEF Counts
  <2> QED
    BY <1>1, <2>1, <2>2, <2>3 DEF CountOK
<1>6. CASE Key(t) = k
  <2>1. (t \in S <=> task[t].pc \in Heading) /\ (t \in ToPost(k)' <=> task'[t].pc \in Heading)
    BY <1>6 DEF ToPost, Key
  <2>2. CASE (t \in ToPost(k)' <=> t \in S)
    <3>1. ToPost(k)' = S
      BY <1>4, <2>2 DEF ToPost
    <3>2. posted'[k] = posted[k] /\ Created(k)' + takeovers'[k] >= Created(k) + takeovers[k]
      BY <1>6, <2>1, <2>2 DEF Counts
    <3> QED
      BY <1>1, <1>2, <1>3, <3>1, <3>2 DEF CountOK
  <2>3. CASE t \in S /\ t \notin ToPost(k)'
    <3>1. ToPost(k)' = S \ {t}
      BY <1>4, <2>3 DEF ToPost
    <3>2. posted'[k] <= posted[k] + 1 /\ Created(k)' + takeovers'[k] >= Created(k) + takeovers[k]
      BY <1>6, <2>1, <2>3 DEF Counts
    <3>3. IsFiniteSet(S \ {t}) /\ Cardinality(S \ {t}) = Cardinality(S) - 1
      BY <1>1, <2>3, FS_RemoveElement
    <3> QED
      BY <1>1, <1>2, <1>3, <3>1, <3>2, <3>3 DEF CountOK
  <2>4. CASE t \notin S /\ t \in ToPost(k)'
    <3>1. ToPost(k)' = S \cup {t}
      BY <1>4, <2>4 DEF ToPost
    <3>2. posted'[k] = posted[k] /\ Created(k)' + takeovers'[k] = Created(k) + takeovers[k] + 1
      BY <1>6, <2>1, <2>4 DEF Counts
    <3>3. IsFiniteSet(S \cup {t}) /\ Cardinality(S \cup {t}) = Cardinality(S) + 1
      BY <1>1, <2>4, FS_AddElement
    <3> QED
      BY <1>1, <1>2, <1>3, <3>1, <3>2, <3>3 DEF CountOK
  <2> QED
    BY <2>2, <2>3, <2>4
<1> QED
  BY <1>5, <1>6

LEMMA StepKeeps ==
  ASSUME IInv, NEW t \in Tasks, TypeOK', Moves(t), Respects(t), Counts(t), Shows, Logs,
         RunOK(clean', Key(t), runs'[Key(t)]), TaskOK(t)'
  PROVE  IInv'
<1> USE DEF IInv
<1>1. clean \subseteq clean'
  BY DEF Respects
<1>2. RunsOK'
  <2> SUFFICES ASSUME NEW k \in Keys PROVE RunOK(clean', k, runs'[k])
    BY DEF RunsOK
  <2>1. CASE k # Key(t)
    <3>1. runs'[k] = runs[k] /\ RunOK(clean, k, runs[k])
      BY <2>1 DEF Respects, RunsOK
    <3> QED
      BY <1>1, <3>1, RunOKGrows
  <2> QED
    BY <2>1
<1>3. TasksOK'
  BY OthersKeep DEF TasksOK
<1>4. LogsOK'
  <2> SUFFICES ASSUME NEW b \in Builds, logs'[b] # "none"
               PROVE  runs'[KeyOf[b]].log # "none" /\ (logs'[b] = "passed" => KeyOf[b] \in clean')
    BY DEF LogsOK
  <2> DEFINE k == KeyOf[b]
  <2>1. k \in Keys
    BY ReviewAssumption
  <2>2. runs[k].log # "none" => runs'[k].log # "none"
    BY <2>1 DEF Respects
  <2> QED
    BY <1>1, <2>2 DEF LogsOK, Logs
<1>5. CountsOK'
  BY CountsKeep DEF CountsOK
<1>6. SuccessMeansCleanReview'
  BY <1>1 DEF SuccessMeansCleanReview, Shows, SettledKeys
<1> QED
  BY <1>2, <1>3, <1>4, <1>5, <1>6

\* A step that leaves the rows, the builds and the reviews alone.
LEMMA QuietStepKeeps ==
  ASSUME IInv, NEW t \in Tasks, TypeOK', Moves(t), TaskOK(t)', Shows,
         UNCHANGED <<runs, logs, historyVars>>,
         task'[t].pc \in Heading => task[t].pc \in Heading
  PROVE  IInv'
<1>1. Key(t) \in Keys
  BY RunOfTask DEF IInv
<1>2. Respects(t) /\ Logs
  BY DEF Respects, Logs, historyVars
<1>3. Counts(t)
  <2>1. /\ posted'[Key(t)] = posted[Key(t)] /\ takeovers'[Key(t)] = takeovers[Key(t)]
        /\ Created(Key(t))' = Created(Key(t))
    BY DEF Created, historyVars, Key
  <2>2. posted[Key(t)] \in Nat /\ takeovers[Key(t)] \in Nat /\ Created(Key(t)) \in Nat
    BY <1>1 DEF IInv, TypeOK, Created
  <2> QED
    BY <2>1, <2>2 DEF Counts, historyVars
<1>4. RunOK(clean', Key(t), runs'[Key(t)])
  BY <1>1 DEF IInv, RunsOK, historyVars
<1> QED
  BY <1>2, <1>3, <1>4, StepKeeps

\* What the row of a key and a task's copy of it say, by the invariant.
LEMMA StoredRun ==
  ASSUME IInv, NEW t \in Tasks
  PROVE  RunOK(clean, Key(t), runs[Key(t)]) /\ TaskOK(t)
  BY RunOfTask DEF IInv, RunsOK, TasksOK

\* A published status is the one that was asked for, or the one before.
LEMMA PublishEffect ==
  ASSUME TypeOK, NEW t \in Tasks, NEW state \in {"pending", "success", "failure"},
         NEW ok \in BOOLEAN, Publish(t, state, ok),
         UNCHANGED clean,
         state = "success" /\ Key(t) \in SettledKeys => Key(t) \in clean
  PROVE  /\ status' \in [Keys -> {"none", "pending", "success", "failure"}]
         /\ faults' \in 0..MaxFaults
         /\ Shows
<1> DEFINE shown == [status EXCEPT ![Key(t)] = state]
<1>1. status' \in {status, shown}
  BY DEF Publish
<1>2. faults' \in 0..MaxFaults
  BY ReviewAssumption DEF Publish, TypeOK
<1>3. shown \in [Keys -> {"none", "pending", "success", "failure"}]
  BY DEF TypeOK
<1>4. \A k \in Keys : shown[k] = "success" => status[k] = "success" \/ (k = Key(t) /\ state = "success")
  BY DEF TypeOK
<1> QED
  BY <1>1, <1>2, <1>3, <1>4 DEF TypeOK, Shows, SettledKeys

LEMMA BeginKeeps ==
  ASSUME IInv, NEW t \in Tasks, Begin(t)
  PROVE  IInv'
<1>1. To(t, "lookup", task[t].run)
  BY GotoEffect DEF IInv, Begin, Active
<1>2. TypeOK'
  BY <1>1 DEF IInv, TypeOK, Begin, historyVars, To, Moves
<1>3. TaskOK(t)'
  BY <1>1 DEF TaskOK, To, Holding, Reviewing, Heading, Completing
<1>4. Shows
  BY DEF Begin, Shows
<1> QED
  BY <1>1, <1>2, <1>3, <1>4, QuietStepKeeps DEF Begin, To, Heading

\* A task that skips the review holds a run that its save makes final.
LEMMA SkipKeeps ==
  ASSUME IInv, NEW t \in Tasks, ~IsReviewed(t), runs'[Key(t)].owner # NoTask,
         runs'[Key(t)] \in RunRows,
         Proceed(t, runs'[Key(t)])
  PROVE  /\ Moves(t) /\ task'[t].pc = "saveRun"
         /\ TaskOK(t)'
<1> DEFINE run == Finished(runs'[Key(t)], "skipped", "skipped")
<1>1. /\ run \in RunRows /\ run.owner = runs'[Key(t)].owner
      /\ run.status = "skipped" /\ run.log = "skipped"
  BY FinishedRun DEF Outcomes
<1>2. To(t, "saveRun", run)
  BY <1>1, GotoWithEffect DEF Proceed, IInv, Active
<1>3. BuildOf[t] \in Builds /\ KeyOf[BuildOf[t]] = Key(t) /\ BuildOf[t] \notin Reviewed
  BY RunOfTask DEF IInv, Key, IsReviewed
<1>4. run # NoRun
  BY <1>1 DEF NoRun
<1>5. RunOK(clean', Key(t), run)
  BY <1>1, <1>3, <1>4 DEF RunOK
<1> HIDE DEF run
<1> QED
  BY <1>1, <1>2, <1>5 DEF To, TaskOK, Holding, Reviewing, Heading, Completing, Key

LEMMA LookupKeeps ==
  ASSUME IInv, NEW t \in Tasks, Lookup(t)
  PROVE  IInv'
<1> DEFINE previous == runs[Key(t)]
<1>1. /\ RunOK(clean, Key(t), previous)
      /\ previous \in RunRows /\ task[t] \in TaskStates
  BY StoredRun, RunOfTask DEF IInv
<1>2. UNCHANGED <<runs, logs, status, faults, crashes, historyVars>>
  BY DEF Lookup
<1>3. SUFFICES Moves(t) /\ TaskOK(t)' /\ task'[t].pc \notin Heading
  <2>1. TypeOK'
    BY <1>2, <1>3 DEF IInv, TypeOK, historyVars, Moves
  <2>2. Shows
    BY <1>2 DEF Shows
  <2> QED
    BY <1>2, <1>3, <2>1, <2>2, QuietStepKeeps
<1>4. CASE previous = NoRun /\ Goto(t, "create")
  <2>1. To(t, "create", task[t].run)
    BY <1>4, GotoEffect DEF IInv, Active
  <2>2. runs'[Key(t)].owner # t
    BY <1>2, <1>4, ReviewAssumption DEF NoRun
  <2> QED
    BY <2>1, <2>2 DEF To, TaskOK, Heading, Holding, Reviewing, Completing, Key
<1>5. ASSUME NEW pc \in {"saveRun", "dedupStatus"},
             task' = [task EXCEPT ![t].pc = pc, ![t].run = previous, ![t].dedup = TRUE],
             previous # NoRun, pc = "saveRun" => previous.log # "none",
             pc = "dedupStatus" => IsReviewed(t)
      PROVE  Moves(t) /\ TaskOK(t)' /\ task'[t].pc \notin Heading
  <2>1. To(t, pc, previous)
    <3> HIDE DEF RunRows, previous
    <3> QED
      BY <1>1, <1>5 DEF To, Moves, IInv, TypeOK, TaskStates, Active
  <2>2. previous.owner # NoTask
    BY <1>1, <1>5 DEF RunOK
  <2>3. RunOK(clean', Key(t), previous)
    BY <1>1, <1>2 DEF historyVars
  <2>4. runs'[Key(t)] = previous
    BY <1>2
  <2> HIDE DEF previous
  <2> QED
    BY <1>5, <2>1, <2>2, <2>3, <2>4
    DEF To, TaskOK, Heading, Holding, Reviewing, Completing, Key, IsReviewed
<1>6. CASE previous # NoRun /\ previous.log = "none" /\ ~IsReviewed(t)
  <2>1. previous.status = "running" /\ previous.owner # NoTask
    BY <1>1, <1>6 DEF RunOK
  <2>2. Proceed(t, previous)
    BY <1>6, <2>1 DEF Lookup
  <2>3. runs'[Key(t)] = previous
    BY <1>2
  <2> HIDE DEF previous
  <2> QED
    BY <1>1, <1>6, <2>1, <2>2, <2>3, SkipKeeps DEF Heading
<1>7. previous.log # "none" => previous # NoRun
  BY DEF NoRun
<1> QED
  BY <1>4, <1>5, <1>6, <1>7 DEF Lookup

\* A task that finds no row creates it; one that finds another's row either
\* takes it over, which is counted, or leaves it alone, which then is final.
LEMMA CreateKeeps ==
  ASSUME IInv, NEW t \in Tasks, Create(t)
  PROVE  IInv'
<1> DEFINE k == Key(t)
           stored == SaveExtensionRun(runs[k], NewRun(t))
<1>1. /\ k \in Keys /\ runs[k] \in RunRows /\ task[t] \in TaskStates
      /\ RunOK(clean, k, runs[k]) /\ runs[k].owner # t /\ task[t].pc = "create"
  BY StoredRun, RunOfTask DEF IInv, Create, At, TaskOK
<1>2. /\ NewRun(t) \in RunRows /\ NewRun(t) # NoRun /\ NewRun(t).owner = t
      /\ NewRun(t).status = "running" /\ NewRun(t).log = "none"
      /\ RunOK(clean, k, NewRun(t))
  BY ReviewAssumption DEF NewRun, NoRun, RunRows, Outcomes, RunOK
<1>3. stored = IF runs[k] = NoRun THEN NewRun(t) ELSE runs[k]
  BY <1>1, <1>2 DEF SaveExtensionRun
<1>4. stored \in RunRows /\ stored # NoRun /\ RunOK(clean, k, stored) /\ stored.owner # NoTask
  <2> HIDE DEF stored
  <2> QED
    BY <1>1, <1>2, <1>3 DEF RunOK
<1>5. /\ runs' = [runs EXCEPT ![k] = stored]
      /\ UNCHANGED <<logs, status, faults, crashes, posted, clean>>
  BY DEF Create
<1>6. /\ runs' \in [Keys -> RunRows] /\ runs'[k] = stored
      /\ \A j \in Keys \ {k} : runs'[j] = runs[j]
  <2> HIDE DEF stored, RunRows
  <2> QED
    BY <1>1, <1>4, <1>5 DEF IInv, TypeOK
<1>7. Respects(t)
  <2>1. CASE runs[k] = NoRun
    BY <1>2, <1>3, <1>5, <1>6, <2>1 DEF Respects, NoRun
  <2>2. CASE runs[k] # NoRun
    BY <1>3, <1>5, <1>6, <2>2 DEF Respects
  <2> QED
    BY <2>1, <2>2
<1>8. Shows /\ Logs
  BY <1>5 DEF Shows, Logs
<1>9. RunOK(clean', k, runs'[k])
  BY <1>4, <1>5, <1>6
<1>10. takeovers[k] \in Nat /\ posted[k] \in Nat
  BY <1>1 DEF IInv, TypeOK
<1>11. Created(k)' = 1 /\ Created(k) = (IF runs[k] = NoRun THEN 0 ELSE 1)
  BY <1>4, <1>6 DEF Created, Key
<1>12. SUFFICES ASSUME TRUE
                PROVE  TypeOK' /\ Moves(t) /\ TaskOK(t)' /\ Counts(t)
  BY <1>7, <1>8, <1>9, <1>12, StepKeeps
<1>13. CASE stored.owner # t /\ (stored.status # "running" \/ stored.log # "none")
  <2>1. Return(t) /\ UNCHANGED takeovers
    BY <1>13 DEF Create
  <2>2. Moves(t) /\ task'[t].pc = "returned"
    BY <2>1, ReturnEffect DEF IInv
  <2>3. stored.log # "none"
    <3> HIDE DEF stored
    <3> QED
      BY <1>4, <1>13 DEF RunOK
  <2>4. TypeOK'
    BY <1>5, <1>6, <2>1, <2>2 DEF IInv, TypeOK, Moves
  <2>5. TaskOK(t)'
    BY <1>6, <2>2, <2>3 DEF TaskOK, Holding, Reviewing, Heading, Completing, Key
  <2>6. Counts(t)
    BY <1>1, <1>5, <1>10, <1>11, <2>1, <2>2 DEF Counts, Heading
  <2> QED
    BY <2>2, <2>4, <2>5, <2>6
<1>14. CASE ~(stored.owner # t /\ (stored.status # "running" \/ stored.log # "none"))
  <2>1. /\ Proceed(t, stored)
        /\ takeovers' = [takeovers EXCEPT ![k] = IF stored.owner # t THEN @ + 1 ELSE @]
    BY <1>14 DEF Create
  <2>2. /\ takeovers' \in [Keys -> Nat]
        /\ \A j \in Keys \ {k} : takeovers'[j] = takeovers[j]
        /\ takeovers'[k] = IF stored.owner # t THEN takeovers[k] + 1 ELSE takeovers[k]
    <3> HIDE DEF stored
    <3> QED
      BY <1>1, <1>10, <2>1 DEF IInv, TypeOK
  <2>3. Created(k)' + takeovers'[k] = Created(k) + takeovers[k] + 1
    <3>1. CASE runs[k] = NoRun
      BY <1>2, <1>3, <1>10, <1>11, <2>2, <3>1
    <3>2. CASE runs[k] # NoRun
      BY <1>1, <1>3, <1>10, <1>11, <2>2, <3>2
    <3> QED
      BY <3>1, <3>2
  <2>4. SUFFICES ASSUME TRUE
                 PROVE  Moves(t) /\ TaskOK(t)' /\ task'[t].pc \in {"pending", "saveRun"}
    <3>1. TypeOK'
      BY <1>5, <1>6, <2>2, <2>4 DEF IInv, TypeOK, Moves
    <3>2. Counts(t)
      BY <1>1, <1>5, <1>10, <1>11, <2>2, <2>3, <2>4 DEF Counts, Heading
    <3> QED
      BY <2>4, <3>1, <3>2
  <2>5. CASE IsReviewed(t)
    <3>1. To(t, "pending", stored)
      BY <1>4, <2>1, <2>5, GotoWithEffect DEF Proceed, IInv, Active
    <3> HIDE DEF stored
    <3> QED
      BY <1>4, <1>6, <2>5, <3>1
      DEF To, TaskOK, Holding, Reviewing, Heading, Completing, Key, IsReviewed
  <2>6. CASE ~IsReviewed(t)
    <3> HIDE DEF stored
    <3> QED
      BY <1>4, <1>6, <2>1, <2>6, SkipKeeps
  <2> QED
    BY <2>5, <2>6
<1> QED
  BY <1>13, <1>14

LEMMA PublishPendingKeeps ==
  ASSUME IInv, NEW t \in Tasks, PublishPending(t)
  PROVE  IInv'
<1>1. TaskOK(t) /\ task[t].pc = "pending"
  BY StoredRun DEF PublishPending, At
<1>2. UNCHANGED <<runs, logs, crashes, historyVars>>
  BY DEF PublishPending
<1>3. /\ status' \in [Keys -> {"none", "pending", "success", "failure"}]
      /\ faults' \in 0..MaxFaults /\ Shows
  BY <1>2, PublishEffect DEF PublishPending, IInv, historyVars
<1>4. PICK pc \in {"failStatus", "review"} : To(t, pc, task[t].run)
  BY GotoEffect DEF PublishPending, IInv, Active
<1>5. TypeOK'
  BY <1>2, <1>3, <1>4 DEF IInv, TypeOK, historyVars, To, Moves
<1>6. TaskOK(t)'
  BY <1>1, <1>2, <1>4
  DEF To, TaskOK, Holding, Reviewing, Heading, Completing, Key, IsReviewed
<1> QED
  BY <1>1, <1>2, <1>3, <1>4, <1>5, <1>6, QuietStepKeeps DEF To, Heading

LEMMA ReviewKeeps ==
  ASSUME IInv, NEW t \in Tasks, Review(t)
  PROVE  IInv'
<1>1. TaskOK(t) /\ task[t].pc = "review" /\ task[t] \in TaskStates /\ task[t].run \in RunRows
  BY StoredRun, RunOfTask DEF Review, At, IInv
<1>2. UNCHANGED <<runs, logs, status, faults, crashes, historyVars>>
  BY DEF Review
<1>3. /\ Moves(t) /\ task'[t].pc \in {"post", "failStatus"}
      /\ task'[t].run.owner = task[t].run.owner
  <2>1. CASE Goto(t, "failStatus")
    BY <2>1, GotoEffect DEF IInv, Active, To
  <2>2. ASSUME NEW blocking \in BOOLEAN,
               task' = [task EXCEPT ![t].pc = "post", ![t].run.blocking = blocking]
        PROVE  /\ Moves(t) /\ task'[t].pc = "post"
               /\ task'[t].run.owner = task[t].run.owner
    <3> DEFINE run == [task[t].run EXCEPT !.blocking = blocking]
    <3>1. run \in RunRows /\ run.owner = task[t].run.owner
      BY <1>1 DEF RunRows
    <3>2. task' = [task EXCEPT ![t] = [task[t] EXCEPT !.pc = "post", !.run = run]]
      BY <1>1, <2>2 DEF IInv, TypeOK
    <3> HIDE DEF run, RunRows
    <3> QED
      BY <1>1, <3>1, <3>2 DEF Moves, IInv, TypeOK, TaskStates, Active
  <2> QED
    BY <2>1, <2>2 DEF Review
<1>4. TypeOK'
  BY <1>2, <1>3 DEF IInv, TypeOK, historyVars, Moves
<1>5. TaskOK(t)'
  BY <1>1, <1>2, <1>3 DEF TaskOK, Holding, Reviewing, Heading, Completing, Key, IsReviewed
<1>6. Shows
  BY <1>2 DEF Shows
<1> QED
  BY <1>1, <1>2, <1>3, <1>4, <1>5, <1>6, QuietStepKeeps DEF Heading

LEMMA PostKeeps ==
  ASSUME IInv, NEW t \in Tasks, Post(t)
  PROVE  IInv'
<1> DEFINE k == Key(t)
<1>1. /\ TaskOK(t) /\ task[t].pc = "post" /\ task[t] \in TaskStates /\ k \in Keys
      /\ RunOK(clean, k, runs[k]) /\ posted[k] \in Nat /\ takeovers[k] \in Nat
  BY StoredRun, RunOfTask DEF Post, At, IInv, TypeOK
<1>2. UNCHANGED <<runs, logs, status, faults, crashes, takeovers>>
  BY DEF Post, historyVars
<1>3. PICK pc \in {"finalStatus", "failStatus"} : To(t, pc, task[t].run)
  BY GotoEffect DEF Post, IInv, Active
<1>4. /\ posted' = posted \/ posted' = [posted EXCEPT ![k] = @ + 1]
      /\ clean' = clean \/ clean' = clean \cup {k}
  BY DEF Post, historyVars
<1>5. pc = "finalStatus" => task[t].run.blocking \/ k \in clean'
  <2>1. ASSUME Goto(t, "failStatus")
        PROVE  pc = "failStatus"
    BY <1>3, <2>1, GotoEffect DEF IInv, To, Active
  <2> QED
    BY <2>1 DEF Post
<1>6. TypeOK'
  BY <1>1, <1>2, <1>3, <1>4 DEF IInv, TypeOK, To, Moves
<1>7. Respects(t)
  BY <1>2, <1>4 DEF Respects
<1>8. Shows /\ Logs
  BY <1>2 DEF Shows, Logs
<1>9. RunOK(clean', k, runs'[k])
  BY <1>1, <1>2, <1>7, RunOKGrows DEF Respects
<1>10. TaskOK(t)'
  BY <1>1, <1>2, <1>3, <1>5
  DEF To, TaskOK, Holding, Reviewing, Heading, Completing, Key, IsReviewed
<1>11. Counts(t)
  <2>1. posted'[k] <= posted[k] + 1 /\ \A j \in Keys \ {k} : posted'[j] = posted[j]
    BY <1>1, <1>4 DEF IInv, TypeOK
  <2>2. Created(k)' = Created(k) /\ Created(k) \in Nat
    BY <1>2 DEF Created, Key
  <2> QED
    BY <1>1, <1>2, <1>3, <2>1, <2>2 DEF Counts, To, Heading
<1> QED
  BY <1>3, <1>6, <1>7, <1>8, <1>9, <1>10, <1>11, StepKeeps DEF To

\* A task that comes to the end of its review saves a run that is justified.
LEMMA ConcludeKeeps ==
  ASSUME IInv, NEW t \in Tasks, task[t].pc \in Reviewing, NEW run \in RunRows,
         GotoWith(t, "saveRun", run), run.owner = task[t].run.owner,
         run.log # "none", run.status \in {"succeeded", "failed"},
         run.log = "passed" => Key(t) \in clean,
         run.status = "succeeded" /\ ~run.blocking => Key(t) \in clean,
         UNCHANGED <<runs, logs, crashes, historyVars>>,
         status' \in [Keys -> {"none", "pending", "success", "failure"}],
         faults' \in 0..MaxFaults, Shows
  PROVE  IInv'
<1>1. TaskOK(t)
  BY StoredRun
<1>2. To(t, "saveRun", run)
  BY GotoWithEffect DEF IInv, Active
<1>3. run.owner = runs[Key(t)].owner /\ run.owner # NoTask
  BY <1>1 DEF TaskOK, Holding
<1>4. RunOK(clean, Key(t), run)
  BY <1>3 DEF RunOK, NoRun
<1>5. TypeOK'
  BY <1>2 DEF IInv, TypeOK, historyVars, To, Moves
<1>6. TaskOK(t)'
  BY <1>2, <1>3, <1>4 DEF To, TaskOK, Holding, Reviewing, Heading, Completing, Key, historyVars
<1> QED
  BY <1>2, <1>5, <1>6, QuietStepKeeps DEF To, Heading

LEMMA FinalStatusKeeps ==
  ASSUME IInv, NEW t \in Tasks, FinalStatus(t)
  PROVE  IInv'
<1> DEFINE old == task[t].run
<1>1. /\ task[t].pc = "finalStatus" /\ old \in RunRows
      /\ old.blocking \/ Key(t) \in clean
  BY StoredRun, RunOfTask DEF FinalStatus, At, IInv, TaskOK
<1>2. UNCHANGED <<runs, logs, crashes, historyVars>>
  BY DEF FinalStatus
<1>3. PICK ok \in BOOLEAN :
        /\ Publish(t, IF old.blocking THEN "failure" ELSE "success", ok)
        /\ GotoWith(t, "saveRun",
             Finished(old, IF old.blocking \/ ~ok THEN "failed" ELSE "passed",
                           IF ok THEN "succeeded" ELSE "failed"))
  BY DEF FinalStatus
<1>4. /\ status' \in [Keys -> {"none", "pending", "success", "failure"}]
      /\ faults' \in 0..MaxFaults /\ Shows
  BY <1>1, <1>2, <1>3, PublishEffect DEF IInv, historyVars
<1> DEFINE outcome == IF old.blocking \/ ~ok THEN "failed" ELSE "passed"
           s == IF ok THEN "succeeded" ELSE "failed"
           run == Finished(old, outcome, s)
<1>5. /\ run \in RunRows /\ run.owner = old.owner
      /\ run.status = s /\ run.log = outcome /\ run.blocking = old.blocking
  BY <1>1, FinishedRun DEF Outcomes
<1>6. /\ run.log # "none" /\ run.status \in {"succeeded", "failed"}
      /\ run.log = "passed" => Key(t) \in clean
      /\ run.status = "succeeded" /\ ~run.blocking => Key(t) \in clean
  BY <1>1, <1>5
<1>7. GotoWith(t, "saveRun", run)
  BY <1>3
<1> HIDE DEF run, old
<1> QED
  BY <1>1, <1>2, <1>4, <1>5, <1>6, <1>7, ConcludeKeeps DEF Reviewing, old

LEMMA FailStatusKeeps ==
  ASSUME IInv, NEW t \in Tasks, FailStatus(t)
  PROVE  IInv'
<1> DEFINE old == task[t].run
           end == Finished(old, "failed", "failed")
           run == [end EXCEPT !.blocking = FALSE]
<1>1. task[t].pc = "failStatus" /\ old \in RunRows
  BY RunOfTask DEF FailStatus, At, IInv
<1>2. /\ UNCHANGED <<runs, logs, crashes, historyVars>>
      /\ GotoWith(t, "saveRun", run)
  BY DEF FailStatus
<1>3. /\ status' \in [Keys -> {"none", "pending", "success", "failure"}]
      /\ faults' \in 0..MaxFaults /\ Shows
  BY <1>2, PublishEffect DEF FailStatus, IInv, historyVars
<1>4. end \in RunRows /\ end.owner = old.owner /\ end.status = "failed" /\ end.log = "failed"
  BY <1>1, FinishedRun DEF Outcomes
<1>5. run \in RunRows /\ run.owner = old.owner /\ run.status = "failed" /\ run.log = "failed"
  <2> HIDE DEF end
  <2> QED
    BY <1>4 DEF RunRows
<1> HIDE DEF run, old
<1> QED
  BY <1>1, <1>2, <1>3, <1>5, ConcludeKeeps DEF Reviewing, old

LEMMA SaveRunKeeps ==
  ASSUME IInv, NEW t \in Tasks, SaveRun(t)
  PROVE  IInv'
<1> DEFINE k == Key(t)
           run == task[t].run
<1>1. /\ TaskOK(t) /\ task[t].pc = "saveRun" /\ k \in Keys
      /\ run \in RunRows /\ runs[k] \in RunRows
      /\ posted[k] \in Nat /\ takeovers[k] \in Nat
  BY StoredRun, RunOfTask DEF SaveRun, At, IInv, TypeOK
<1>2. /\ run.owner = runs[k].owner /\ run.owner # NoTask /\ run.log # "none"
      /\ RunOK(clean, k, run)
  BY <1>1 DEF TaskOK, Completing, Holding
<1>3. SaveExtensionRun(runs[k], run) = run
  BY <1>2 DEF SaveExtensionRun
<1>4. /\ runs' = [runs EXCEPT ![k] = run]
      /\ Goto(t, "attach")
      /\ UNCHANGED <<logs, status, faults, crashes, historyVars>>
  BY <1>1, <1>3 DEF SaveRun, IInv, TypeOK
<1>5. /\ runs' \in [Keys -> RunRows] /\ runs'[k] = run
      /\ \A j \in Keys \ {k} : runs'[j] = runs[j]
  <2> HIDE DEF run, RunRows
  <2> QED
    BY <1>1, <1>4 DEF IInv, TypeOK
<1>6. To(t, "attach", run)
  BY <1>4, GotoEffect DEF IInv, Active
<1>7. TypeOK'
  BY <1>4, <1>5, <1>6 DEF IInv, TypeOK, historyVars, To, Moves
<1>8. Respects(t)
  BY <1>2, <1>4, <1>5 DEF Respects, historyVars
<1>9. Shows /\ Logs
  BY <1>4 DEF Shows, Logs
<1>10. Counts(t)
  <2>1. Created(k)' = 1 /\ Created(k) \in {0, 1}
    BY <1>2, <1>5 DEF Created, Key, NoRun
  <2>2. UNCHANGED <<posted, takeovers>>
    BY <1>4 DEF historyVars
  <2> QED
    BY <1>1, <1>6, <2>1, <2>2 DEF Counts, To, Heading
<1>11. TaskOK(t)'
  BY <1>1, <1>2, <1>4, <1>5, <1>6
  DEF To, TaskOK, Holding, Reviewing, Heading, Completing, Key, historyVars
<1>12. RunOK(clean', k, runs'[k])
  BY <1>2, <1>4, <1>5 DEF historyVars
<1> QED
  BY <1>6, <1>7, <1>8, <1>9, <1>10, <1>11, <1>12, StepKeeps DEF To

LEMMA AttachLogKeeps ==
  ASSUME IInv, NEW t \in Tasks, AttachLog(t)
  PROVE  IInv'
<1> DEFINE k == Key(t)
           run == task[t].run
<1>1. /\ TaskOK(t) /\ task[t].pc = "attach" /\ k \in Keys /\ BuildOf[t] \in Builds
      /\ run \in RunRows /\ RunOK(clean, k, runs[k])
      /\ posted[k] \in Nat /\ takeovers[k] \in Nat
  BY StoredRun, RunOfTask DEF AttachLog, At, IInv, TypeOK
<1>2. /\ run.owner = runs[k].owner /\ run.owner # NoTask /\ runs[k].log # "none"
      /\ RunOK(clean, k, run)
  BY <1>1 DEF TaskOK, Completing, Holding
<1>3. /\ logs' = [logs EXCEPT ![BuildOf[t]] = run.log]
      /\ UNCHANGED <<runs, status, faults, crashes, historyVars>>
  BY DEF AttachLog
<1>4. /\ Moves(t)
      /\ \/ task'[t].pc = "dedupStatus" /\ task'[t].run = run /\ IsReviewed(t)
         \/ task'[t].pc = "returned"
  BY GotoEffect, ReturnEffect DEF AttachLog, IInv, To, Active
<1>5. run.log \in Outcomes
  BY <1>1 DEF RunRows
<1>6. TypeOK'
  BY <1>1, <1>3, <1>4, <1>5 DEF IInv, TypeOK, historyVars, Moves
<1>7. Respects(t)
  BY <1>3 DEF Respects, historyVars
<1>8. Logs
  <2> SUFFICES ASSUME NEW b \in Builds, logs'[b] # logs[b]
               PROVE  /\ runs'[KeyOf[b]].log # "none"
                      /\ logs'[b] = "passed" => KeyOf[b] \in clean'
    BY DEF Logs
  <2>1. b = BuildOf[t] /\ logs'[b] = run.log /\ KeyOf[b] = k
    BY <1>1, <1>3 DEF IInv, TypeOK, Key
  <2> QED
    BY <1>2, <1>3, <2>1 DEF RunOK, historyVars
<1>9. Shows
  BY <1>3 DEF Shows
<1>10. Counts(t)
  <2>1. Created(k)' = Created(k) /\ Created(k) \in Nat
    BY <1>3 DEF Created, Key
  <2> QED
    BY <1>1, <1>3, <1>4, <2>1 DEF Counts, Heading, historyVars
<1>11. TaskOK(t)'
  BY <1>2, <1>3, <1>4
  DEF TaskOK, Holding, Reviewing, Heading, Completing, Key, IsReviewed, historyVars
<1>12. RunOK(clean', k, runs'[k])
  BY <1>1, <1>3 DEF historyVars
<1> QED
  BY <1>4, <1>6, <1>7, <1>8, <1>9, <1>10, <1>11, <1>12, StepKeeps

\* The status of a previous run is "success" for a clean review only: on a
\* settled key the run a reviewed build finds was not skipped.
LEMMA DedupStatusKeeps ==
  ASSUME IInv, NEW t \in Tasks, DedupStatus(t)
  PROVE  IInv'
<1> DEFINE run == task[t].run
           state == CASE run.status = "running" -> "pending"
                      [] run.status = "failed" \/ run.blocking -> "failure"
                      [] OTHER -> "success"
<1>1. /\ TaskOK(t) /\ task[t].pc = "dedupStatus" /\ run \in RunRows
      /\ BuildOf[t] \in Builds /\ KeyOf[BuildOf[t]] = Key(t)
  BY StoredRun, RunOfTask DEF DedupStatus, At, IInv, Key
<1>2. IsReviewed(t) /\ run.owner # NoTask /\ RunOK(clean, Key(t), run)
  BY <1>1 DEF TaskOK, Holding
<1>3. state \in {"pending", "success", "failure"}
  OBVIOUS
<1>4. state = "success" => run.status \in {"skipped", "succeeded"} /\ ~run.blocking
  <2>1. run.status # "absent"
    BY <1>2 DEF RunOK
  <2>2. run.status \in {"absent", "running", "skipped", "succeeded", "failed"}
    BY <1>1 DEF RunRows
  <2> HIDE DEF run
  <2> QED
    BY <2>1, <2>2
<1>5. state = "success" /\ Key(t) \in SettledKeys => Key(t) \in clean
  <2>1. Key(t) \in SettledKeys => run.status # "skipped"
    BY <1>1, <1>2 DEF RunOK, SettledKeys, IsReviewed
  <2> HIDE DEF state
  <2> QED
    BY <1>2, <1>4, <2>1 DEF RunOK
<1>6. /\ UNCHANGED <<runs, logs, crashes, historyVars>> /\ Return(t)
      /\ \E ok \in BOOLEAN : Publish(t, state, ok)
  BY DEF DedupStatus
<1> HIDE DEF state
<1>7. /\ status' \in [Keys -> {"none", "pending", "success", "failure"}]
      /\ faults' \in 0..MaxFaults /\ Shows
  BY <1>3, <1>5, <1>6, PublishEffect DEF IInv, historyVars
<1>8. Moves(t) /\ task'[t].pc = "returned"
  BY <1>6, ReturnEffect DEF IInv
<1>9. TypeOK'
  BY <1>6, <1>7, <1>8 DEF IInv, TypeOK, historyVars, Moves
<1>10. TaskOK(t)'
  BY <1>2, <1>8 DEF TaskOK, Holding, Reviewing, Heading, Completing, IsReviewed
<1> QED
  BY <1>6, <1>7, <1>8, <1>9, <1>10, QuietStepKeeps DEF Heading

LEMMA RaiseKeeps ==
  ASSUME IInv, NEW t \in Tasks, Raise(t)
  PROVE  IInv'
<1> DEFINE again == [Idle EXCEPT !.pc = "lookup", !.attempt = task[t].attempt + 1]
<1>1. /\ UNCHANGED <<runs, logs, status, crashes, historyVars>>
      /\ faults' \in 0..MaxFaults
  BY ReviewAssumption DEF Raise, IInv, TypeOK
<1>2. task[t].attempt \in 1..Attempts
  BY RunOfTask DEF IInv, TaskStates
<1>3. again.pc = "lookup" /\ (task[t].attempt < Attempts => again \in TaskStates)
  <2>1. NoRun \in RunRows
    BY DEF NoRun, RunRows, Outcomes
  <2>2. task[t].attempt < Attempts => task[t].attempt + 1 \in 1..Attempts
    BY <1>2, ReviewAssumption
  <2> HIDE DEF RunRows, NoRun
  <2> QED
    BY <2>1, <2>2 DEF Idle, TaskStates, Active
<1>4. PICK new \in {again, Over("gaveUp")} :
        task' = [task EXCEPT ![t] = new] /\ new \in TaskStates
  BY <1>3, OverIsState DEF Raise, IInv, TypeOK
<1>5. new.pc \in {"lookup", "gaveUp"}
  BY <1>3, OverIsState
<1> HIDE DEF again
<1>6. Moves(t) /\ task'[t].pc \in {"lookup", "gaveUp"}
  BY <1>4, <1>5 DEF Moves, IInv, TypeOK
<1>7. TypeOK'
  BY <1>1, <1>6 DEF IInv, TypeOK, historyVars, Moves
<1>8. TaskOK(t)'
  BY <1>6 DEF TaskOK, Holding, Reviewing, Heading, Completing
<1>9. Shows
  BY <1>1 DEF Shows
<1> QED
  BY <1>1, <1>6, <1>7, <1>8, <1>9, QuietStepKeeps DEF Heading

LEMMA CrashKeeps ==
  ASSUME IInv, Crash
  PROVE  IInv'
<1>1. /\ UNCHANGED <<runs, logs, status, faults, historyVars>>
      /\ crashes' \in 0..MaxCrashes
  BY ReviewAssumption DEF Crash, IInv, TypeOK
<1>2. /\ task' \in [Tasks -> TaskStates]
      /\ \A t \in Tasks : \/ task'[t].pc = "dead"
                          \/ task'[t] = task[t] /\ task[t].pc \notin Active
  BY OverIsState DEF Crash, IInv, TypeOK
<1>3. TypeOK'
  BY <1>1, <1>2 DEF IInv, TypeOK, historyVars
<1>4. TasksOK'
  <2> SUFFICES ASSUME NEW t \in Tasks PROVE TaskOK(t)'
    BY DEF TasksOK
  <2>1. CASE task'[t].pc = "dead"
    BY <2>1 DEF TaskOK, Holding, Reviewing, Heading, Completing
  <2>2. CASE task'[t] = task[t]
    BY <1>1, <2>2 DEF IInv, TasksOK, TaskOK, historyVars, Key
  <2> QED
    BY <1>2, <2>1, <2>2
<1>5. RunsOK' /\ LogsOK' /\ SuccessMeansCleanReview'
  BY <1>1 DEF IInv, RunsOK, LogsOK, SuccessMeansCleanReview, SettledKeys, historyVars
<1>6. CountsOK'
  <2> SUFFICES ASSUME NEW k \in Keys PROVE CountOK(k)'
    BY DEF CountsOK
  <2>1. ToPost(k)' = {}
    BY <1>2 DEF ToPost, Active, Heading
  <2>2. CountOK(k) /\ Cardinality(ToPost(k)) \in Nat
    BY FS_CardinalityType DEF IInv, CountsOK, CountOK
  <2>3. posted[k] \in Nat /\ takeovers[k] \in Nat /\ Created(k) \in Nat
    BY DEF IInv, TypeOK, Created
  <2>4. posted'[k] = posted[k] /\ takeovers'[k] = takeovers[k] /\ Created(k)' = Created(k)
    BY <1>1 DEF historyVars, Created
  <2> QED
    BY <2>1, <2>2, <2>3, <2>4, FS_EmptySet DEF CountOK
<1> QED
  BY <1>3, <1>4, <1>5, <1>6 DEF IInv

-----------------------------------------------------------------------------
LEMMA InitIInv == Init => IInv
<1> SUFFICES ASSUME Init PROVE IInv
  OBVIOUS
<1>1. NoRun \in RunRows
  BY DEF NoRun, RunRows, Outcomes
<1>2. Idle \in TaskStates /\ Idle.pc = "idle"
  <2>1. 1 \in 1..Attempts
    BY ReviewAssumption
  <2> HIDE DEF RunRows, NoRun
  <2> QED
    BY <1>1, <2>1 DEF Idle, TaskStates
<1>3. TypeOK
  <2> HIDE DEF RunRows, NoRun, Idle, TaskStates
  <2> QED
    BY <1>1, <1>2, ReviewAssumption DEF Init, TypeOK, Outcomes
<1>4. RunsOK
  BY DEF Init, RunsOK, RunOK, NoRun
<1>5. TasksOK
  BY <1>2 DEF Init, TasksOK, TaskOK, Holding, Reviewing, Heading, Completing
<1>6. LogsOK /\ SuccessMeansCleanReview
  BY DEF Init, LogsOK, SuccessMeansCleanReview, SettledKeys
<1>7. CountsOK
  <2> SUFFICES ASSUME NEW k \in Keys PROVE CountOK(k)
    BY DEF CountsOK
  <2>1. ToPost(k) = {}
    BY <1>2 DEF Init, ToPost, Heading
  <2>2. posted[k] = 0 /\ takeovers[k] = 0 /\ Created(k) = 0
    BY DEF Init, Created
  <2> QED
    BY <2>1, <2>2, FS_EmptySet DEF CountOK
<1> QED
  BY <1>3, <1>4, <1>5, <1>6, <1>7 DEF IInv

LEMMA NextIInv == IInv /\ [Next]_vars => IInv'
<1> SUFFICES ASSUME IInv, [Next]_vars PROVE IInv'
  OBVIOUS
<1>1. CASE UNCHANGED vars
  <2>1. \A t \in Tasks : TaskOK(t) => TaskOK(t)'
    BY <1>1 DEF vars, historyVars, TaskOK, Key
  <2>2. \A k \in Keys : CountOK(k) => CountOK(k)'
    BY <1>1 DEF vars, historyVars, CountOK, ToPost, Created, Key
  <2> QED
    BY <1>1, <2>1, <2>2
    DEF vars, historyVars, IInv, TypeOK, RunsOK, TasksOK, LogsOK, CountsOK,
        SuccessMeansCleanReview, SettledKeys
<1>2. ASSUME NEW t \in Tasks, Begin(t) \/ Step(t) \/ Raise(t)
      PROVE  IInv'
  BY <1>2, BeginKeeps, LookupKeeps, CreateKeeps, PublishPendingKeeps, ReviewKeeps, PostKeeps,
     FinalStatusKeeps, FailStatusKeeps, SaveRunKeeps, AttachLogKeeps, DedupStatusKeeps,
     RaiseKeeps
  DEF Step
<1> QED
  BY <1>1, <1>2, CrashKeeps DEF Next

\* The inductive invariant holds in every reachable state.
THEOREM Invariant == Spec => []IInv
  BY InitIInv, NextIInv, PTL DEF Spec

\* Rows, builds, statuses and tasks stay within their types.
THEOREM TypeCorrect == Spec => []TypeOK
<1>1. IInv => TypeOK
  BY DEF IInv
<1> QED
  BY <1>1, Invariant, PTL

\* Whatever tasks race, retry, die or take over each other's run, a commit
\* whose builds agree on the policy shows ai-review "success" only after a
\* review without critical finding was posted for it.
THEOREM SuccessIsEarned == Spec => []SuccessMeansCleanReview
<1>1. IInv => SuccessMeansCleanReview
  BY DEF IInv
<1> QED
  BY <1>1, Invariant, PTL

\* A build that carries a review log belongs to a run that is final, and a
\* log that says "passed" to a posted review without critical finding.
THEOREM LogsAreJustified == Spec => []BuildLogJustified
<1>1. IInv => BuildLogJustified
  BY ReviewAssumption DEF IInv, LogsOK, RunsOK, RunOK, BuildLogJustified
<1> QED
  BY <1>1, Invariant, PTL

\* When the task of a build without review has returned, the run of its key
\* has its log, whichever task created or completed it.
THEOREM ReturnIsLogged == Spec => []ReturnedMeansLogged
<1>1. IInv => ReturnedMeansLogged
  BY DEF IInv, TasksOK, TaskOK, ReturnedMeansLogged
<1> QED
  BY <1>1, Invariant, PTL

\* Retries, failed requests and restarts alone post no second review: reviews of a
\* key beyond the first come only from tasks that took its running run over after
\* losing the insert in save_extension_run (there the documentation's one review
\* per key, OneReviewPerKey, does not hold).
THEOREM ReviewsAreBounded == Spec => []ReviewsBounded
<1>1. IInv => ReviewsBounded
  <2> SUFFICES ASSUME IInv, NEW k \in Keys PROVE posted[k] <= 1 + takeovers[k]
    BY DEF ReviewsBounded
  <2>1. CountOK(k) /\ Cardinality(ToPost(k)) \in Nat
    BY FS_CardinalityType DEF IInv, CountsOK, CountOK
  <2>2. posted[k] \in Nat /\ takeovers[k] \in Nat /\ Created(k) \in {0, 1}
    BY DEF IInv, TypeOK, Created
  <2> QED
    BY <2>1, <2>2 DEF CountOK
<1> QED
  BY <1>1, Invariant, PTL

LogStays == \A k \in Keys : runs[k].log # "none" => runs'[k].log # "none"

\* A task takes a run to the row only with a log, or where there is no row.
LEMMA StepKeepsLogs ==
  ASSUME IInv, NEW t \in Tasks, Begin(t) \/ Step(t) \/ Raise(t)
  PROVE  LogStays
<1>1. CASE Create(t)
  <2>1. runs[Key(t)].owner # t
    BY <1>1, StoredRun DEF TaskOK, Create, At
  <2>2. runs' = runs \/ (runs[Key(t)] = NoRun /\ \A j \in Keys \ {Key(t)} : runs'[j] = runs[j])
    BY <1>1, <2>1 DEF Create, SaveExtensionRun, NewRun, NoRun, IInv, TypeOK
  <2> QED
    BY <2>2 DEF LogStays, NoRun
<1>2. CASE SaveRun(t)
  <2> DEFINE run == task[t].run
  <2>1. run.log # "none" /\ run.owner = runs[Key(t)].owner
    BY <1>2, StoredRun DEF TaskOK, SaveRun, At, Completing, Holding
  <2>2. \A j \in Keys : runs'[j] \in {runs[j], run}
    BY <1>2, <2>1 DEF SaveRun, SaveExtensionRun, IInv, TypeOK
  <2> QED
    BY <2>1, <2>2 DEF LogStays
<1>3. CASE runs' = runs
  BY <1>3 DEF LogStays
<1> QED
  BY <1>1, <1>2, <1>3
  DEF Begin, Step, Raise, Lookup, PublishPending, Review, Post, FinalStatus, FailStatus,
      AttachLog, DedupStatus

\* A run that has its log is never taken back to a run without one, also by
\* a task that saves an older copy of it.
THEOREM FinalRunsStay == Spec => FinalRunStays
<1>1. ASSUME IInv, [Next]_vars PROVE [LogStays]_vars
  <2>1. CASE Crash
    BY <2>1 DEF Crash, LogStays
  <2> QED
    BY <1>1, <2>1, StepKeepsLogs DEF Next
<1>2. FinalRunStays <=> [][LogStays]_vars
  BY PTL DEF FinalRunStays, LogStays
<1> QED
  BY <1>1, <1>2, Invariant, PTL DEF Spec
=============================================================================
