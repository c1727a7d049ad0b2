------------------------------ MODULE AIReview ------------------------------
(***************************************************************************)
(* process_ai_review and its retry loop: what the completion endpoint runs *)
(* for a build (at once for a branch build, in the background for a pull   *)
(* request) and what a reused build runs.  Tasks race on the extension_runs*)
(* row of their idempotency key, on the build row, and on GitHub.  Every   *)
(* await that touches one of them is a step; `run` is a task's own copy of *)
(* the run.                                                                *)
(***************************************************************************)
EXTENDS Naturals

CONSTANTS
  Tasks,        \* calls of process_ai_review_with_retry
  Builds, BuildOf,   \* builds, and the one each task is for
  Keys, KeyOf,       \* idempotency keys, and the one of each build
  Reviewed,     \* builds of a pull request whose policy enables the review
  NoDiff,       \* tasks without a base SHA, a diff or a broker
  Attempts,     \* times process_ai_review is tried
  NoTask,       \* the owner of an absent run
  MaxFaults,    \* bound: awaits that raise
  MaxCrashes    \* bound: gateway restarts

ASSUME ReviewAssumption ==
  /\ BuildOf \in [Tasks -> Builds]
  /\ KeyOf \in [Builds -> Keys]
  /\ Reviewed \subseteq Builds
  /\ NoDiff \subseteq Tasks
  /\ NoTask \notin Tasks
  /\ Attempts \in Nat \ {0} /\ MaxFaults \in Nat /\ MaxCrashes \in Nat

VARIABLES
  runs,       \* table extension_runs, by idempotency key
  logs,       \* table builds: outcome of the review log of each build
  status,     \* external: the ai-review status GitHub shows for each key's commit
  task,       \* what each task is doing
  faults, crashes,   \* how much of each bound is used
  posted,     \* history: GitHub reviews created for each key
  clean,      \* history: keys with a posted review without critical finding
  takeovers   \* history: tasks that took over a run another one had created

historyVars == <<posted, clean, takeovers>>
vars == <<runs, logs, status, task, faults, crashes, historyVars>>

Outcomes == {"none", "passed", "failed", "skipped"}

\* An extension run: who created it, its status, the outcome in its review
\* log, and whether it requested changes.
RunRows == [owner : Tasks \cup {NoTask},
            status : {"absent", "running", "skipped", "succeeded", "failed"},
            log : Outcomes, blocking : BOOLEAN]
NoRun == [owner |-> NoTask, status |-> "absent", log |-> "none", blocking |-> FALSE]
NewRun(t) == [NoRun EXCEPT !.owner = t, !.status = "running"]

Active == {"lookup", "create", "pending", "review", "post", "finalStatus", "failStatus",
           "saveRun", "attach", "dedupStatus"}
TaskStates == [pc : {"idle", "returned", "gaveUp", "dead"} \cup Active,
               attempt : 1..Attempts, run : RunRows, dedup : BOOLEAN]
Idle == [pc |-> "idle", attempt |-> 1, run |-> NoRun, dedup |-> FALSE]

TypeOK ==
  /\ runs \in [Keys -> RunRows]
  /\ logs \in [Builds -> Outcomes]
  /\ status \in [Keys -> {"none", "pending", "success", "failure"}]
  /\ task \in [Tasks -> TaskStates]
  /\ faults \in 0..MaxFaults /\ crashes \in 0..MaxCrashes
  /\ posted \in [Keys -> Nat]
  /\ clean \in SUBSET Keys
  /\ takeovers \in [Keys -> Nat]

Init ==
  /\ runs = [k \in Keys |-> NoRun]
  /\ logs = [b \in Builds |-> "none"]
  /\ status = [k \in Keys |-> "none"]
  /\ task = [t \in Tasks |-> Idle]
  /\ faults = 0 /\ crashes = 0
  /\ posted = [k \in Keys |-> 0]
  /\ clean = {}
  /\ takeovers = [k \in Keys |-> 0]

-----------------------------------------------------------------------------
Key(t) == KeyOf[BuildOf[t]]
IsReviewed(t) == BuildOf[t] \in Reviewed

At(t, pc) == task[t].pc = pc
Goto(t, pc) == task' = [task EXCEPT ![t].pc = pc]
GotoWith(t, pc, run) == task' = [task EXCEPT ![t].pc = pc, ![t].run = run]

\* A process_ai_review that returned, and one whose error ended the task,
\* keep nothing but that.
Over(pc) == [Idle EXCEPT !.pc = pc]
Return(t) == task' = [task EXCEPT ![t] = Over("returned")]

SaveLastWriterWins(stored, run) == run

\* save_extension_run: only the run that owns the row replaces it.
SaveExtensionRun(stored, run) ==
  IF stored = NoRun \/ stored.owner = run.owner THEN run ELSE stored

\* _publish_ci_status: TRUE, or FALSE when the bounded retries are used up,
\* which does not mean that GitHub has not taken one of them.
Publish(t, state, ok) ==
  LET shown == [status EXCEPT ![Key(t)] = state] IN
  IF ok THEN status' = shown /\ UNCHANGED faults
        ELSE /\ faults < MaxFaults /\ faults' = faults + 1
             /\ status' \in {status, shown}

\* The run a task takes to its end.
Finished(run, outcome, s) == [run EXCEPT !.status = s, !.log = outcome]

\* Where a task goes with the run it is to complete: the review of a pull
\* request, or the log of a skipped review.
Proceed(t, run) ==
  IF IsReviewed(t) THEN GotoWith(t, "pending", run)
                   ELSE GotoWith(t, "saveRun", Finished(run, "skipped", "skipped"))

-----------------------------------------------------------------------------
Begin(t) ==
  /\ At(t, "idle")
  /\ Goto(t, "lookup")
  /\ UNCHANGED <<runs, logs, status, faults, crashes, historyVars>>

LookupNeverResumes(t) ==
  LET previous == runs[Key(t)] IN
  /\ At(t, "lookup")
  /\ \/ /\ previous = NoRun
        /\ Goto(t, "create")
     \/ /\ previous # NoRun
        /\ Return(t)
  /\ UNCHANGED <<runs, logs, status, faults, crashes, historyVars>>

\* get_extension_run_by_key and the handling of a previous run.
Lookup(t) ==
  LET previous == runs[Key(t)] IN
  /\ At(t, "lookup")
  /\ \/ /\ previous = NoRun
        /\ Goto(t, "create")
     \/ /\ previous.log # "none"
        /\ task' = [task EXCEPT ![t].pc = "saveRun", ![t].run = previous, ![t].dedup = TRUE]
     \/ /\ previous # NoRun /\ previous.log = "none" /\ IsReviewed(t)
        /\ task' = [task EXCEPT ![t].pc = "dedupStatus", ![t].run = previous, ![t].dedup = TRUE]
     \/ /\ previous # NoRun /\ previous.log = "none" /\ ~IsReviewed(t)
        /\ IF previous.status = "running" THEN Proceed(t, previous) ELSE Return(t)
  /\ UNCHANGED <<runs, logs, status, faults, crashes, historyVars>>

\* The new run is saved; a task that finds another's takes it over if it is
\* still running, and otherwise leaves it alone.
Create(t) ==
  LET stored == SaveExtensionRun(runs[Key(t)], NewRun(t)) IN
  /\ At(t, "create")
  /\ runs' = [runs EXCEPT ![Key(t)] = stored]
  /\ IF stored.owner # t /\ (stored.status # "running" \/ stored.log # "none")
     THEN Return(t) /\ UNCHANGED takeovers
     ELSE /\ Proceed(t, stored)
          /\ takeovers' = [takeovers EXCEPT ![Key(t)] = IF stored.owner # t THEN @ + 1 ELSE @]
  /\ UNCHANGED <<logs, status, faults, crashes, posted, clean>>

\* The pending status is best effort; then the prerequisites are looked at.
PublishPending(t) ==
  /\ At(t, "pending")
  /\ \E ok \in BOOLEAN : Publish(t, "pending", ok)
  /\ Goto(t, IF t \in NoDiff THEN "failStatus" ELSE "review")
  /\ UNCHANGED <<runs, logs, crashes, historyVars>>

\* The diff is bounded and parsed, the broker asked, its answer validated:
\* a blocking review, one that is not, or an error.
Review(t) ==
  /\ At(t, "review")
  /\ \/ \E blocking \in BOOLEAN :
          task' = [task EXCEPT ![t].pc = "post", ![t].run.blocking = blocking]
     \/ Goto(t, "failStatus")
  /\ UNCHANGED <<runs, logs, status, faults, crashes, historyVars>>

\* github.create_review: created; or an error status, with or without a
\* review behind it, which is caught.
Post(t) ==
  /\ At(t, "post")
  /\ \/ /\ posted' = [posted EXCEPT ![Key(t)] = @ + 1]
        /\ clean' = IF task[t].run.blocking THEN clean ELSE clean \cup {Key(t)}
        /\ Goto(t, "finalStatus") \/ Goto(t, "failStatus")
     \/ Goto(t, "failStatus") /\ UNCHANGED <<historyVars>>
  /\ UNCHANGED <<runs, logs, status, faults, crashes, takeovers>>

FinalStatusPassesBlocking(t) ==
  LET run == task[t].run IN
  /\ At(t, "finalStatus")
  /\ \E ok \in BOOLEAN :
       /\ Publish(t, IF run.blocking THEN "failure" ELSE "success", ok)
       /\ GotoWith(t, "saveRun", Finished(run, IF ok THEN "passed" ELSE "failed",
                                               IF ok THEN "succeeded" ELSE "failed"))
  /\ UNCHANGED <<runs, logs, crashes, historyVars>>

\* The final status; a run whose status could not be published has failed.
FinalStatus(t) ==
  LET run == task[t].run IN
  /\ At(t, "finalStatus")
  /\ \E ok \in BOOLEAN :
       /\ Publish(t, IF run.blocking THEN "failure" ELSE "success", ok)
       /\ GotoWith(t, "saveRun",
            Finished(run, IF run.blocking \/ ~ok THEN "failed" ELSE "passed",
                          IF ok THEN "succeeded" ELSE "failed"))
  /\ UNCHANGED <<runs, logs, crashes, historyVars>>

\* record_failure.
FailStatus(t) ==
  /\ At(t, "failStatus")
  /\ \E ok \in BOOLEAN : Publish(t, "failure", ok)
  /\ GotoWith(t, "saveRun", [Finished(task[t].run, "failed", "failed") EXCEPT !.blocking = FALSE])
  /\ UNCHANGED <<runs, logs, crashes, historyVars>>

\* _attach_review_log: the run with its log, then the build row (whose other
\* fields, and the races on them, are BuildLifecycle's).
SaveRun(t) ==
  /\ At(t, "saveRun")
  /\ runs' = [runs EXCEPT ![Key(t)] = SaveExtensionRun(@, task[t].run)]
  /\ Goto(t, "attach")
  /\ UNCHANGED <<logs, status, faults, crashes, historyVars>>

AttachLog(t) ==
  /\ At(t, "attach")
  /\ logs' = [logs EXCEPT ![BuildOf[t]] = task[t].run.log]
  /\ IF task[t].dedup /\ IsReviewed(t) THEN Goto(t, "dedupStatus") ELSE Return(t)
  /\ UNCHANGED <<runs, status, faults, crashes, historyVars>>

DedupStatusForgetsFailure(t) ==
  /\ At(t, "dedupStatus")
  /\ \E ok \in BOOLEAN :
       Publish(t, IF task[t].run.status = "running" THEN "pending" ELSE "success", ok)
  /\ Return(t)
  /\ UNCHANGED <<runs, logs, crashes, historyVars>>

\* "Deduplicated critical-only AI review": the status of the previous run.
DedupStatus(t) ==
  LET run == task[t].run IN
  /\ At(t, "dedupStatus")
  /\ \E ok \in BOOLEAN :
       Publish(t, CASE run.status = "running" -> "pending"
                    [] run.status = "failed" \/ run.blocking -> "failure"
                    [] OTHER -> "success", ok)
  /\ Return(t)
  /\ UNCHANGED <<runs, logs, crashes, historyVars>>

\* An await raises something process_ai_review does not catch (the database,
\* a transport error of a GitHub POST): the retry loop starts over, and after
\* the last attempt the task reports failure.
Raise(t) ==
  /\ task[t].pc \in Active
  /\ faults < MaxFaults /\ faults' = faults + 1
  /\ task' = [task EXCEPT ![t] =
               IF @.attempt < Attempts
               THEN [Idle EXCEPT !.pc = "lookup", !.attempt = task[t].attempt + 1]
               ELSE Over("gaveUp")]
  /\ UNCHANGED <<runs, logs, status, crashes, historyVars>>

Crash ==
  /\ crashes < MaxCrashes /\ crashes' = crashes + 1
  /\ task' = [t \in Tasks |-> IF task[t].pc \in Active THEN Over("dead") ELSE task[t]]
  /\ UNCHANGED <<runs, logs, status, faults, historyVars>>

Step(t) ==
  \/ Lookup(t) \/ Create(t) \/ PublishPending(t) \/ Review(t) \/ Post(t)
  \/ FinalStatus(t) \/ FailStatus(t) \/ SaveRun(t) \/ AttachLog(t) \/ DedupStatus(t)

Next == (\E t \in Tasks : Begin(t) \/ Step(t) \/ Raise(t)) \/ Crash

\* Every await of a task has a timeout, and the event loop resumes it.
Fairness == \A t \in Tasks : WF_vars(Step(t))

Spec == Init /\ [][Next]_vars
FairSpec == Spec /\ Fairness

-----------------------------------------------------------------------------
\* The keys whose builds agree on whether the review is enabled.  The key of
\* a run does not contain the policy, which the pipeline reads from the trusted
\* branch when it runs: a build that is retried after a change of the policy
\* has the key of the first one.
SettledKeys ==
  {k \in Keys : \A b, c \in Builds :
     KeyOf[b] = k /\ KeyOf[c] = k => (b \in Reviewed <=> c \in Reviewed)}

\* A commit shows ai-review "success" only after a review without a critical
\* finding was posted for it, also when a retry, a duplicate or a crash left
\* the run to another task (final status and deduplicated status); of a key
\* with a changed policy this is not so, see SkippedIsNotSuccess.
SuccessMeansCleanReview == \A k \in SettledKeys : status[k] = "success" => k \in clean

\* When the task of a build that needs no review returns (and the pipeline is
\* answered 202) the skipped run of its key is final and has its log, no
\* matter which task created it.
ReturnedMeansLogged ==
  \A t \in Tasks :
    task[t].pc = "returned" /\ ~IsReviewed(t) => runs[Key(t)].log # "none"

\* A review log on a build and the log of its key's run come together: no
\* build claims an outcome of a run that is absent or still running, and a
\* "passed" one only when a clean review was posted.
BuildLogJustified ==
  \A b \in Builds : logs[b] # "none" =>
    /\ runs[KeyOf[b]].status \notin {"absent", "running"}
    /\ logs[b] = "passed" => KeyOf[b] \in clean

\* A final run is never taken back to "running" or forgotten by a task that
\* still holds an older copy of it (save_extension_run by the same owner).
FinalRunStays ==
  [][\A k \in Keys : runs[k].log # "none" => runs'[k].log # "none"]_vars

\* A run of a key without reviewed builds does not stay running, whichever of the
\* racing tasks created it, unless one of them died in a restart or failed in
\* every attempt.
SkippedRunsAreFinished ==
  \A k \in Keys : (\A b \in Builds : KeyOf[b] = k => b \notin Reviewed) =>
    (runs[k].status = "running" ~>
       \/ runs[k].status # "running"
       \/ \E t \in Tasks : Key(t) = k /\ task[t].pc \in {"dead", "gaveUp"})

\* However often the POST of a review fails with or without effect, and
\* whatever is retried or dies, reviews beyond the first come only from tasks
\* that took over a running run in save_extension_run (see OneReviewPerKey).
ReviewsBounded == \A k \in Keys : posted[k] <= 1 + takeovers[k]

-----------------------------------------------------------------------------
(* What the documentation says and the code does not keep.                 *)

\* docs/server-deployment.md: "retrying delivery or review processing for the
\* same repository, PR, head SHA, model, and prompt version does not create a
\* duplicate review".  A task that loses the insert of the run takes the
\* running run over, reviews and posts again.
OneReviewPerKey == \A k \in Keys : posted[k] <= 1

\* service.py, the log of a skipped review: "A skipped review is not
\* represented as a successful commit status."
SkippedIsNotSuccess ==
  \A k \in Keys : status[k] = "success" => runs[k].status # "skipped"

\* docs/architecture.md: the review "uses bounded retries, and can resume an
\* idempotent run that was persisted before its final log".
RunsAreFinished ==
  \A k \in Keys : runs[k].status = "running" ~> runs[k].status # "running"
=============================================================================
