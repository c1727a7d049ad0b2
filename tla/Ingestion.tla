------------------------------ MODULE Ingestion ------------------------------
(***************************************************************************)
(* How events reach trigger_pipeline and what they find there: the GitHub  *)
(* webhook endpoint with its background dispatch, the operations on        *)
(* registered repositories, and the Jenkins hierarchy (external) that both *)
(* reconcile through ensure_job.  All are tasks of one event loop; every   *)
(* await that touches the database or Jenkins is a step.                   *)
(*                                                                         *)
(* Deliveries are authenticated and well formed (anything else is refused  *)
(* before the first await).  _ensure_repository_folder is one step: a lock *)
(* keeps its callers apart.  A dispatch that reuses a native result leaves *)
(* this module after "get"; BuildLifecycle models it.                      *)
(***************************************************************************)
EXTENDS Naturals

CONSTANTS
  Deliveries, RepoOf, JobOf,  \* GitHub delivery ids; repository and job of each
  Relevant,           \* pushes to a branch, and pull requests opened or updated
  Hooks, DeliveryOf,  \* requests to /webhooks/github, redeliveries included
  Ids, NameOf,        \* ids of registrations, and the repository of each
  Names, Allowed,     \* repositories, and those in the allowlist
  Jobs, DefaultJob,   \* child jobs (branches, pull requests) of a folder
  Operators, Requests,  \* calls of repository operations, and what they call
  NoId,
  MaxFaults,          \* bound: awaits that raise or are cancelled
  MaxCrashes          \* bound: gateway restarts

\* RepositoryUpdate with enabled true, false or left out.  The default branch
\* is abstracted to its child job.
Updates == {"enable", "disable", "touch"}

ASSUME IngestionAssumption ==
  /\ RepoOf \in [Deliveries -> Names] /\ JobOf \in [Deliveries -> Jobs]
  /\ Relevant \subseteq Deliveries
  /\ DeliveryOf \in [Hooks -> Deliveries]
  /\ NameOf \in [Ids -> Names] /\ Allowed \subseteq Names
  /\ DefaultJob \in Jobs
  /\ Requests \subseteq Updates \cup {"register", "scan", "unregister"}
  /\ Hooks \cap Operators = {} /\ NoId \notin Ids
  /\ MaxFaults \in Nat /\ MaxCrashes \in Nat

VARIABLES
  repos,      \* table repositories: the row of each id
  folders,    \* external: repositories with a Jenkins folder
  jobs,       \* external: the child jobs of each folder
  recorded,   \* table webhook_deliveries
  builds,     \* table builds: the repository id of each delivery's build
  audited,    \* table audit_records: deliveries with a failed dispatch
  work,       \* what each request or background task is doing
  faults, crashes,   \* how much of each bound is used
  started,    \* history: Jenkins runs each delivery started
  outcome,    \* history: how far the dispatch of each delivery came
  phase       \* history: how far the registration of each id came ("stuck": it
              \* ended early and its row was not taken back)

tables == <<repos, recorded, builds, audited>>
hierarchy == <<folders, jobs>>
budgetVars == <<faults, crashes>>
historyVars == <<started, outcome, phase>>
vars == <<tables, hierarchy, work, budgetVars, historyVars>>

Workers == Hooks \cup Operators
RowStates == {"absent", "enabled", "disabled"}
Active == {"list", "get", "folder", "readJob", "writeJob", "rebind", "trigger",
           "saveQueue", "saveBuild", "publish", "audit", "rollback", "readRow", "writeRow",
           "readFolder", "deleteFolder", "deleteRow"}

\* id: the repository the task works on; seen: whether Jenkins answered that
\* the item exists; row: the task's copy of the repository's row.
Tasks == [pc : {"idle", "over"} \cup Active, op : Requests \cup {"hook"},
          id : Ids \cup {NoId}, seen : BOOLEAN, row : RowStates]
NoWork == [pc |-> "idle", op |-> "hook", id |-> NoId, seen |-> FALSE, row |-> "absent"]
Over == [NoWork EXCEPT !.pc = "over"]

TypeOK ==
  /\ repos \in [Ids -> RowStates]
  /\ folders \in SUBSET Names
  /\ jobs \in [Names -> SUBSET Jobs]
  /\ recorded \in SUBSET Deliveries
  /\ builds \in [Deliveries -> Ids \cup {NoId}]
  /\ audited \in SUBSET Deliveries
  /\ work \in [Workers -> Tasks]
  /\ faults \in 0..MaxFaults /\ crashes \in 0..MaxCrashes
  /\ started \in [Deliveries -> Nat]
  /\ outcome \in [Deliveries -> {"none", "accepted", "ignored", "saved", "lost"}]
  /\ phase \in [Ids -> {"fresh", "new", "ready", "stuck"}]

Init ==
  /\ repos = [id \in Ids |-> "absent"]
  /\ folders = {} /\ jobs = [n \in Names |-> {}]
  /\ recorded = {} /\ audited = {}
  /\ builds = [d \in Deliveries |-> NoId]
  /\ work = [w \in Workers |-> NoWork]
  /\ faults = 0 /\ crashes = 0
  /\ started = [d \in Deliveries |-> 0]
  /\ outcome = [d \in Deliveries |-> "none"]
  /\ phase = [id \in Ids |-> "fresh"]

-----------------------------------------------------------------------------
(* Helpers.                                                                *)

Name(w) == NameOf[work[w].id]
Job(w) == IF w \in Hooks THEN JobOf[DeliveryOf[w]] ELSE DefaultJob

At(w, pc) == work[w].pc = pc
Goto(w, pc) == work' = [work EXCEPT ![w].pc = pc]
Ends(w) == work' = [work EXCEPT ![w] = Over]

\* Mutants: nobody notices a failed dispatch; a failed registration stays.
FailsSilently(w) ==
  IF w \in Operators /\ work[w].op = "register" THEN Goto(w, "rollback") ELSE Ends(w)
FailsWithoutRollback(w) == IF w \in Hooks THEN Goto(w, "audit") ELSE Ends(w)

\* An exception: a dispatch is audited, a registration rolled back, any other
\* request is answered with an error.
Fails(w) ==
  CASE w \in Hooks -> Goto(w, "audit")
    [] work[w].op = "register" -> Goto(w, "rollback")
    [] OTHER -> Ends(w)

\* A row another one refers to (NOT NULL REFERENCES repositories).
RowExists(w) == repos[work[w].id] # "absent"

\* DELETE FROM repositories, which cascades to the builds.
DeleteRepository(id) ==
  /\ repos' = [repos EXCEPT ![id] = "absent"]
  /\ builds' = [d \in Deliveries |-> IF builds[d] = id THEN NoId ELSE builds[d]]

-----------------------------------------------------------------------------
(* The webhook endpoint and the dispatch it leaves in the background.      *)

\* Mutant: the result of record_webhook_once is not looked at.
HookRecordIgnoringDuplicates(h) ==
  LET d == DeliveryOf[h]
  IN  /\ At(h, "idle")
      /\ recorded' = recorded \cup {d}
      /\ IF RepoOf[d] \in Allowed
         THEN Goto(h, "list") /\ outcome' = [outcome EXCEPT ![d] = "accepted"]
         ELSE Ends(h) /\ UNCHANGED outcome
      /\ UNCHANGED <<repos, builds, audited, hierarchy, budgetVars, started, phase>>

\* A request arrives and process_github_webhook records its delivery, accepted
\* or not; only the first request of an allowed repository goes on.
HookRecord(h) ==
  LET d == DeliveryOf[h]
  IN  /\ At(h, "idle")
      /\ recorded' = recorded \cup {d}
      /\ IF d \notin recorded /\ RepoOf[d] \in Allowed
         THEN Goto(h, "list") /\ outcome' = [outcome EXCEPT ![d] = "accepted"]
         ELSE Ends(h) /\ UNCHANGED outcome
      /\ UNCHANGED <<repos, builds, audited, hierarchy, budgetVars, started, phase>>

\* dispatch_github_webhook: the enabled row of the repository, if any.
HookList(h) ==
  LET d == DeliveryOf[h]
      found == {id \in Ids : NameOf[id] = RepoOf[d] /\ repos[id] = "enabled"}
  IN  /\ At(h, "list")
      /\ \/ /\ d \in Relevant
            /\ \E id \in found : work' = [work EXCEPT ![h].pc = "get", ![h].id = id]
            /\ UNCHANGED outcome
         \/ /\ d \notin Relevant \/ found = {}
            /\ Ends(h)
            /\ outcome' = [outcome EXCEPT ![d] = "ignored"]
      /\ UNCHANGED <<tables, hierarchy, budgetVars, started, phase>>

\* buildWithParameters of the child job.
HookTrigger(h) ==
  LET d == DeliveryOf[h]
  IN  /\ At(h, "trigger")
      /\ IF Job(h) \in jobs[Name(h)]
         THEN /\ started' = [started EXCEPT ![d] = @ + 1]
              /\ Goto(h, "saveQueue")
         ELSE Fails(h) /\ UNCHANGED started
      /\ UNCHANGED <<tables, hierarchy, budgetVars, outcome, phase>>

HookSaveQueue(h) ==
  /\ At(h, "saveQueue")
  /\ IF RowExists(h) THEN Goto(h, "saveBuild") ELSE Fails(h)
  /\ UNCHANGED <<tables, hierarchy, budgetVars, historyVars>>

HookSaveBuild(h) ==
  LET d == DeliveryOf[h]
  IN  /\ At(h, "saveBuild")
      /\ IF RowExists(h)
         THEN /\ builds' = [builds EXCEPT ![d] = work[h].id]
              /\ outcome' = [outcome EXCEPT ![d] = "saved"]
              /\ Goto(h, "publish")
         ELSE Fails(h) /\ UNCHANGED <<builds, outcome>>
      /\ UNCHANGED <<repos, recorded, audited, hierarchy, budgetVars, started, phase>>

\* _publish_ci_status and _audit.
HookPublish(h) ==
  /\ At(h, "publish")
  /\ Ends(h)
  /\ UNCHANGED <<tables, hierarchy, budgetVars, historyVars>>

\* record_background_failure.
HookAudit(h) ==
  /\ At(h, "audit")
  /\ audited' = audited \cup {DeliveryOf[h]}
  /\ Ends(h)
  /\ UNCHANGED <<repos, recorded, builds, hierarchy, budgetVars, historyVars>>

HookStep(h) ==
  \/ HookRecord(h) \/ HookList(h) \/ HookTrigger(h)
  \/ HookSaveQueue(h) \/ HookSaveBuild(h) \/ HookPublish(h) \/ HookAudit(h)

-----------------------------------------------------------------------------
(* What dispatches and operators share: get_repository, ensure_job and     *)
(* _rebind_legacy_job.                                                     *)

GetRepository(w) ==
  /\ At(w, "get")
  /\ IF ~RowExists(w) THEN Fails(w)
     ELSE Goto(w, IF work[w].op = "unregister" THEN "readFolder" ELSE "folder")
  /\ UNCHANGED <<tables, hierarchy, budgetVars, historyVars>>

EnsureFolder(w) ==
  /\ At(w, "folder")
  /\ folders' = folders \cup {Name(w)}
  /\ Goto(w, "readJob")
  /\ UNCHANGED <<tables, jobs, budgetVars, historyVars>>

\* The lock is released: what Jenkins answers may be stale when it is used.
ReadJob(w) ==
  /\ At(w, "readJob")
  /\ work' = [work EXCEPT ![w].pc = "writeJob", ![w].seen = Job(w) \in jobs[Name(w)]]
  /\ UNCHANGED <<tables, hierarchy, budgetVars, historyVars>>

\* Creates the child job, which must not exist, or rewrites the configuration
\* of one, which must.
WriteJob(w) ==
  LET exists == Job(w) \in jobs[Name(w)]
  IN  /\ At(w, "writeJob")
      /\ IF Name(w) \in folders /\ exists = work[w].seen
         THEN /\ jobs' = [jobs EXCEPT ![Name(w)] = @ \cup {Job(w)}]
              /\ Goto(w, "rebind")
         ELSE Fails(w) /\ UNCHANGED jobs
      /\ UNCHANGED <<tables, folders, budgetVars, historyVars>>

Rebind(w) ==
  /\ At(w, "rebind")
  /\ CASE w \in Hooks -> Goto(w, "trigger")
       [] work[w].op \in Updates -> Goto(w, "readRow")
       [] OTHER -> Ends(w)
  /\ phase' = IF work[w].op = "register" THEN [phase EXCEPT ![work[w].id] = "ready"] ELSE phase
  /\ UNCHANGED <<tables, hierarchy, budgetVars, started, outcome>>

ReconcileStep(w) ==
  GetRepository(w) \/ EnsureFolder(w) \/ ReadJob(w) \/ WriteJob(w) \/ Rebind(w)

-----------------------------------------------------------------------------
(* register, update, unregister and scan.                                  *)

\* The INSERT of create_repository: full_name is UNIQUE, a second registration
\* conflicts.
CreateRepository(o, id) ==
  /\ At(o, "idle")
  /\ "register" \in Requests /\ phase[id] = "fresh" /\ NameOf[id] \in Allowed
  /\ \A other \in Ids : NameOf[other] = NameOf[id] => repos[other] = "absent"
  /\ \E row \in {"enabled", "disabled"} : repos' = [repos EXCEPT ![id] = row]

\* register_repository goes on to ensure_job when the INSERT is answered;
\* AnswerLost has the other case.
Register(o, id) ==
  /\ CreateRepository(o, id)
  /\ phase' = [phase EXCEPT ![id] = "new"]
  /\ work' = [work EXCEPT ![o] = [NoWork EXCEPT !.pc = "folder", !.op = "register", !.id = id]]
  /\ UNCHANGED <<recorded, builds, audited, hierarchy, budgetVars, started, outcome>>

\* update_repository, unregister_repository or scan_repository with a known id.
Request(o, op, id) ==
  /\ At(o, "idle")
  /\ op # "register" /\ phase[id] # "fresh"
  /\ work' = [work EXCEPT ![o] = [NoWork EXCEPT !.pc = "get", !.op = op, !.id = id]]
  /\ UNCHANGED <<tables, hierarchy, budgetVars, historyVars>>

\* The except branch of register_repository.
Rollback(o) ==
  /\ At(o, "rollback")
  /\ DeleteRepository(work[o].id)
  /\ Ends(o)
  /\ UNCHANGED <<recorded, audited, hierarchy, budgetVars, historyVars>>

\* PostgresStore.update_repository reads the row, then replaces it.
ReadRow(o) ==
  /\ At(o, "readRow")
  /\ IF RowExists(o)
     THEN work' = [work EXCEPT ![o].pc = "writeRow", ![o].row = repos[work[o].id]]
     ELSE Fails(o)
  /\ UNCHANGED <<tables, hierarchy, budgetVars, historyVars>>

\* Mutant: the row is inserted when it is not there.
WriteRowUpserts(o) ==
  /\ At(o, "writeRow")
  /\ repos' = [repos EXCEPT ![work[o].id] = work[o].row]
  /\ Ends(o)
  /\ UNCHANGED <<recorded, builds, audited, hierarchy, budgetVars, historyVars>>

WriteRow(o) ==
  LET new == CASE work[o].op = "enable" -> "enabled"
               [] work[o].op = "disable" -> "disabled"
               [] OTHER -> work[o].row
  IN  /\ At(o, "writeRow")
      /\ repos' = IF RowExists(o) THEN [repos EXCEPT ![work[o].id] = new] ELSE repos
      /\ Ends(o)
      /\ UNCHANGED <<recorded, builds, audited, hierarchy, budgetVars, historyVars>>

\* delete_job: asks whether the folder is there, and deletes it if it was.
ReadFolder(o) ==
  /\ At(o, "readFolder")
  /\ Goto(o, IF Name(o) \in folders THEN "deleteFolder" ELSE "deleteRow")
  /\ UNCHANGED <<tables, hierarchy, budgetVars, historyVars>>

DeleteFolder(o) ==
  /\ At(o, "deleteFolder")
  /\ IF Name(o) \in folders THEN Goto(o, "deleteRow") ELSE Fails(o)
  /\ folders' = folders \ {Name(o)}
  /\ jobs' = [jobs EXCEPT ![Name(o)] = {}]
  /\ UNCHANGED <<tables, budgetVars, historyVars>>

DeleteRow(o) ==
  /\ At(o, "deleteRow")
  /\ DeleteRepository(work[o].id)
  /\ Ends(o)
  /\ UNCHANGED <<recorded, audited, hierarchy, budgetVars, historyVars>>

OperatorStep(o) ==
  \/ \E id \in Ids : Register(o, id)
  \/ \E op \in Requests, id \in Ids : Request(o, op, id)
  \/ Rollback(o) \/ ReadRow(o) \/ WriteRow(o)
  \/ ReadFolder(o) \/ DeleteFolder(o) \/ DeleteRow(o)

-----------------------------------------------------------------------------
(* Faults.                                                                 *)

Spend == faults < MaxFaults /\ faults' = faults + 1

\* The await of a step raises and nothing happened.
Raise(w) ==
  /\ work[w].pc \in Active \/ (w \in Hooks /\ At(w, "idle"))
  /\ Spend
  /\ IF work[w].pc \in {"idle", "audit", "rollback"} THEN Ends(w) ELSE Fails(w)
  /\ outcome' = IF At(w, "audit") THEN [outcome EXCEPT ![DeliveryOf[w]] = "lost"] ELSE outcome
  /\ phase' = IF At(w, "rollback") THEN [phase EXCEPT ![work[w].id] = "stuck"] ELSE phase
  /\ UNCHANGED <<tables, hierarchy, crashes, started>>

\* The answer is lost: the delivery was recorded, the repository inserted, the job
\* written or the run queued, and the await raises all the same.  The INSERT is
\* outside the try of register_repository: its row is not rolled back.
AnswerLost(w) ==
  /\ Spend
  /\ \/ /\ w \in Hooks /\ At(w, "idle") /\ Ends(w)
        /\ recorded' = recorded \cup {DeliveryOf[w]}
        /\ UNCHANGED <<repos, jobs, started, phase>>
     \/ /\ w \in Operators /\ Ends(w)
        /\ \E id \in Ids : CreateRepository(w, id) /\ phase' = [phase EXCEPT ![id] = "stuck"]
        /\ UNCHANGED <<recorded, jobs, started>>
     \/ /\ At(w, "writeJob") /\ Name(w) \in folders /\ Fails(w)
        /\ jobs' = [jobs EXCEPT ![Name(w)] = @ \cup {Job(w)}]
        /\ UNCHANGED <<repos, recorded, started, phase>>
     \/ /\ At(w, "trigger") /\ Job(w) \in jobs[Name(w)] /\ Fails(w)
        /\ started' = [started EXCEPT ![DeliveryOf[w]] = @ + 1]
        /\ UNCHANGED <<repos, recorded, jobs, phase>>
  /\ UNCHANGED <<builds, audited, folders, crashes, outcome>>

\* The task of a repository operation is cancelled: CancelledError is not an
\* Exception, no except branch runs, and a registration is not rolled back.  (A
\* dispatch runs after its response; only a shutdown cancels it, see Crash.)
Cancelled(o) ==
  /\ work[o].pc \in Active
  /\ Spend
  /\ Ends(o)
  /\ phase' = IF work[o].op = "register" THEN [phase EXCEPT ![work[o].id] = "stuck"] ELSE phase
  /\ UNCHANGED <<tables, hierarchy, crashes, started, outcome>>

\* The gateway restarts: every request and background task is gone.
Crash ==
  /\ crashes < MaxCrashes
  /\ crashes' = crashes + 1
  /\ work' = [w \in Workers |-> IF work[w].pc \in Active THEN Over ELSE work[w]]
  /\ UNCHANGED <<tables, hierarchy, faults, historyVars>>

Next ==
  \/ \E h \in Hooks : HookStep(h)
  \/ \E o \in Operators : OperatorStep(o) \/ Cancelled(o)
  \/ \E w \in Workers : ReconcileStep(w) \/ Raise(w) \/ AnswerLost(w)
  \/ Crash

Spec == Init /\ [][Next]_vars

-----------------------------------------------------------------------------
(* Properties.                                                             *)

\* However often GitHub sends or repeats a delivery, and whatever fails on the
\* way, it starts at most one Jenkins run (docs/server-deployment.md: a
\* redelivery "must be accepted without triggering duplicate work").
AtMostOneTrigger == \A d \in Deliveries : started[d] <= 1

\* An accepted delivery does not disappear (CHANGELOG.md): once its dispatch is
\* over it was ignored, its build row was saved, or its failure is in the audit
\* records; only a restart or a failing audit (outcome "lost") loses it.
NoSilentLoss ==
  crashes = 0 =>
    \A d \in Deliveries :
      outcome[d] = "accepted" /\ (\A h \in Hooks : DeliveryOf[h] = d => ~(work[h].pc \in Active))
        => d \in audited

\* When reconciliation fails, register_repository takes its row back: a row whose
\* registration is no longer under way had its hierarchy reconciled, except where
\* no rollback runs or finishes (phase "stuck": it failed itself, the task was
\* cancelled, or the INSERT was committed and its answer lost) or the gateway
\* restarted.
NoHalfRegistration ==
  crashes = 0 =>
    \A id \in Ids :
      repos[id] # "absent" /\ phase[id] = "new"
        => \E o \in Operators : work[o].op = "register" /\ work[o].id = id

\* No update, scan, dispatch or rollback that read an older row brings an
\* unregistered repository back.
NoResurrection ==
  [][\A id \in Ids : phase[id] # "fresh" /\ repos[id] = "absent" => repos'[id] = "absent"]_vars

\* docs/runbook.md: to recover from an audited dispatch failure, "redeliver the
\* GitHub event".  The redelivered request would have to be dispatched.
RedeliveryDispatches ==
  [][\A h \in Hooks : DeliveryOf[h] \in audited /\ HookRecord(h) => work'[h].pc = "list"]_vars
=============================================================================
