--------------------------- MODULE BuildLifecycle ---------------------------
(***************************************************************************)
(* The life of a build: trigger_pipeline (with exact-SHA reuse), Jenkins   *)
(* (external) and the completion callback its pipeline posts, the callback *)
(* handler, and the clients that read or cancel a build.  The gateway is   *)
(* asyncio over PostgreSQL: every handler works on a COPY of the build row *)
(* and writes the whole row back, so each await that touches the database, *)
(* Jenkins or GitHub is a step of its own and `row` is the handler's copy. *)
(*                                                                         *)
(* What process_ai_review decides is modelled in AIReview; here it shows   *)
(* only through what _attach_review_log does to the build row.             *)
(***************************************************************************)
EXTENDS Naturals, FiniteSets

CONSTANTS
  Builds,         \* build ids, one per trigger
  Shas, ShaOf,    \* commits, and the one each build tests
  PullRequests,   \* the builds triggered for a pull request
  Reusing,        \* those whose base SHA is the trusted SHA of branch builds
  Clients,        \* concurrent callers of build, builds, build_log, cancel
  Attempts,       \* times the pipeline posts its callback
  MaxFaults,      \* bound: awaits that raise, requests that are lost
  MaxCrashes,     \* bound: gateway restarts
  MaxCancels,     \* bound: cancel_pipeline calls
  NoBuild,        \* the reused_from_build_id of a build that reuses nothing
  JenkinsForgets, \* whether Jenkins may drop left queue items and old builds
  ListsTruncated  \* whether newer rows may fill the 500 that a listing returns

ASSUME LifecycleAssumption ==
  /\ Builds # {}
  /\ ShaOf \in [Builds -> Shas]
  /\ PullRequests \subseteq Builds
  /\ Reusing \subseteq PullRequests
  /\ Attempts \in Nat \ {0}
  /\ MaxFaults \in Nat /\ MaxCrashes \in Nat /\ MaxCancels \in Nat
  /\ NoBuild \notin Builds
  /\ JenkinsForgets \in BOOLEAN /\ ListsTruncated \in BOOLEAN

VARIABLES
  jenkins,    \* external: each build's queue item and pipeline run
  db,         \* table builds
  queue,      \* table queue_items, the state of each build's item
  recorded,   \* table webhook_deliveries, the build-completion rows
  native,     \* external: the native-ci status of each commit
  trig,       \* the trigger_pipeline call of each build
  call,       \* the handlers of each build's callback attempts
  client,     \* what each client's request is doing
  faults, crashes, cancels,   \* how much of each bound is used
  published,  \* history: builds whose verdict, their own or reused, reached GitHub
  accepted,   \* history: builds whose pipeline got a 2xx answer
  attached,   \* history: builds that had ai-review.json attached
  asked,      \* history: builds somebody asked to cancel
  blank       \* history: executed builds whose final log read was empty

gatewayVars == <<trig, call, client>>
budgetVars == <<faults, crashes, cancels>>
historyVars == <<published, accepted, attached, asked, blank>>
vars == <<jenkins, db, queue, recorded, native, gatewayVars, budgetVars, historyVars>>

Terminal == {"passed", "failed", "cancelled"}

\* A build row: result.status, whether jenkins_build_number is set,
\* reused_from_build_id (such a row has no jenkins_queue_id, and its job and
\* number are those of its source), and whether it carries ai_review_log and
\* the ai-review.json artifact.
Rows == [status : {"absent", "queued", "running"} \cup Terminal,
         number : BOOLEAN, source : Builds \cup {NoBuild}, log : BOOLEAN]
NoRow == [status |-> "absent", number |-> FALSE, source |-> NoBuild, log |-> FALSE]
NewRow == [NoRow EXCEPT !.status = "queued"]
IsReuse(row) == row.source # NoBuild

\* phase: where the run is; file: status in the workspace's
\* pipeline-result.json; archived: status in the archived copy; result: the
\* Jenkins build result; stop: /stop was posted; attempt, waiting: the
\* callback loop.
Runs == [phase : {"none", "queued", "dropped", "running", "finishing", "callback", "done"},
         file : {"none", "passed", "failed"},
         archived : {"none", "passed", "failed"},
         result : {"none", "SUCCESS", "FAILURE", "ABORTED"},
         stop : BOOLEAN, attempt : 0..Attempts, waiting : BOOLEAN]
NoJenkinsRun ==
  [phase |-> "none", file |-> "none", archived |-> "none", result |-> "none",
   stop |-> FALSE, attempt |-> 0, waiting |-> FALSE]

TriggerActive == {"trigger", "saveQueue", "saveBuild", "publish", "attachGet", "attachSave"}
Triggers == [pc : {"idle", "done"} \cup TriggerActive, row : Rows]

CallActive == {"get", "dup", "save", "publish", "record", "queue", "attachGet", "attachSave"}
Calls == [pc : {"unsent", "done"} \cup CallActive,
          reply : {"none", "ok", "error"}, row : Rows]
Unsent == [pc |-> "unsent", reply |-> "none", row |-> NoRow]

ClientActive == {"get", "queueRead", "saveNumber", "queueStarted", "statusRead",
                 "saveRunning", "resultRead", "saveFinal", "queueFinal", "stop"}
\* _refresh_build between its read of a row that is not terminal and its last save.
Refreshing == {"queueRead", "saveNumber", "queueStarted", "statusRead", "saveRunning",
               "resultRead"}
Requests == [pc : {"idle"} \cup ClientActive, op : {"read", "cancel", "stopping"},
             build : Builds, row : Rows]
IdleRequest ==
  [pc |-> "idle", op |-> "read", build |-> CHOOSE b \in Builds : TRUE, row |-> NoRow]

TypeOK ==
  /\ jenkins \in [Builds -> Runs]
  /\ db \in [Builds -> Rows]
  /\ queue \in [Builds -> {"absent", "queued", "started", "reused", "cancelled", "failed"}]
  /\ recorded \in SUBSET Builds
  /\ native \in [Shas -> {"none", "pending", "success", "failure"}]
  /\ trig \in [Builds -> Triggers]
  /\ call \in [Builds -> [1..Attempts -> Calls]]
  /\ client \in [Clients -> Requests]
  /\ faults \in 0..MaxFaults /\ crashes \in 0..MaxCrashes /\ cancels \in 0..MaxCancels
  /\ published \in SUBSET Builds
  /\ accepted \in SUBSET Builds
  /\ attached \in SUBSET Builds
  /\ asked \in SUBSET Builds
  /\ blank \in SUBSET Builds

Init ==
  /\ jenkins = [b \in Builds |-> NoJenkinsRun]
  /\ db = [b \in Builds |-> NoRow]
  /\ queue = [b \in Builds |-> "absent"]
  /\ recorded = {}
  /\ native = [s \in Shas |-> "none"]
  /\ trig = [b \in Builds |-> [pc |-> "idle", row |-> NoRow]]
  /\ call = [b \in Builds |-> [i \in 1..Attempts |-> Unsent]]
  /\ client = [c \in Clients |-> IdleRequest]
  /\ faults = 0 /\ crashes = 0 /\ cancels = 0
  /\ published = {} /\ accepted = {} /\ attached = {} /\ asked = {} /\ blank = {}

-----------------------------------------------------------------------------
(* Helpers shared by the handlers.                                         *)

\* The queue state complete_build and _refresh_build store for a result.
QueueStateFor(status) ==
  CASE status = "cancelled" -> "cancelled"
    [] status = "failed" -> "failed"
    [] OTHER -> "started"

\* What _attach_review_log makes of the row it read: the log, and a failed
\* result when a required review failed.
Attached(row, required, outcome) ==
  [row EXCEPT !.log = TRUE,
              !.status = IF required /\ outcome = "failed" THEN "failed" ELSE @]

ReviewOutcomes(b) == IF b \in PullRequests THEN {"passed", "failed"} ELSE {"skipped"}

StoreRow(b, row) == db' = [db EXCEPT ![b] = row]
SetQueue(b, state) == queue' = [queue EXCEPT ![b] = state]
SetCall(b, i, handler) == call' = [call EXCEPT ![b][i] = handler]
SetRun(b, run) == jenkins' = [jenkins EXCEPT ![b] = run]
SetNative(b, state) == native' = [native EXCEPT ![ShaOf[b]] = state]
Spend == faults < MaxFaults /\ faults' = faults + 1 /\ UNCHANGED <<crashes, cancels>>

-----------------------------------------------------------------------------
(* trigger_pipeline and _reuse_native_result.                              *)

SetTrigger(b, pc, row) == trig' = [trig EXCEPT ![b] = [pc |-> pc, row |-> row]]
TriggerGoto(b, pc) == SetTrigger(b, pc, trig[b].row)
TriggerEnds(b) == SetTrigger(b, "done", NoRow)

ReusableWhateverItsStatus(b, source) ==
  /\ ShaOf[source] = ShaOf[b]
  /\ source \notin PullRequests
  /\ db[source].status \in Terminal
  /\ ~IsReuse(db[source])

\* _reusable_native_build: a passed branch build of the same commit that is
\* not itself a reuse.
Reusable(b, source) ==
  /\ ShaOf[source] = ShaOf[b]
  /\ source \notin PullRequests
  /\ db[source].status = "passed"
  /\ ~IsReuse(db[source])

ReusedRow(source) ==
  [status |-> "passed", number |-> db[source].number, source |-> source, log |-> FALSE]

\* A source that newer rows push out of list_builds is not seen.
TriggerLookup(b) ==
  /\ trig[b].pc = "idle"
  /\ \/ \E source \in Builds :
          /\ b \in Reusing /\ Reusable(b, source)
          /\ SetTrigger(b, "saveQueue", ReusedRow(source))
     \/ /\ b \in Reusing /\ ~ListsTruncated => \A source \in Builds : ~Reusable(b, source)
        /\ SetTrigger(b, "trigger", NewRow)
  /\ UNCHANGED <<jenkins, db, queue, recorded, native, call, client, budgetVars, historyVars>>

\* jenkins.trigger: Jenkins has the build before the gateway has a row.
TriggerJenkins(b) ==
  /\ trig[b].pc = "trigger"
  /\ SetRun(b, [jenkins[b] EXCEPT !.phase = "queued"])
  /\ TriggerGoto(b, "saveQueue")
  /\ UNCHANGED <<db, queue, recorded, native, call, client, budgetVars, historyVars>>

TriggerSaveQueue(b) ==
  /\ trig[b].pc = "saveQueue"
  /\ SetQueue(b, IF IsReuse(trig[b].row) THEN "reused" ELSE "queued")
  /\ TriggerGoto(b, "saveBuild")
  /\ UNCHANGED <<jenkins, db, recorded, native, call, client, budgetVars, historyVars>>

TriggerSaveBuild(b) ==
  /\ trig[b].pc = "saveBuild"
  /\ StoreRow(b, trig[b].row)
  /\ TriggerGoto(b, "publish")
  /\ UNCHANGED <<jenkins, queue, recorded, native, call, client, budgetVars, historyVars>>

TriggerPublishSavesAgain(b) ==
  /\ trig[b].pc = "publish"
  /\ SetNative(b, IF IsReuse(trig[b].row) THEN "success" ELSE "pending")
  /\ StoreRow(b, trig[b].row)
  /\ IF IsReuse(trig[b].row) THEN TriggerGoto(b, "attachGet") ELSE TriggerEnds(b)
  /\ UNCHANGED <<jenkins, queue, recorded, call, client, budgetVars, historyVars>>

TriggerPublishGoesOn(b) ==
  /\ trig[b].pc = "publish"
  /\ \/ /\ SetNative(b, IF IsReuse(trig[b].row) THEN "success" ELSE "pending")
        /\ published' = IF IsReuse(trig[b].row) THEN published \cup {b} ELSE published
        /\ UNCHANGED budgetVars
     \/ Spend /\ UNCHANGED <<native, published>>
  /\ IF IsReuse(trig[b].row) THEN TriggerGoto(b, "attachGet") ELSE TriggerEnds(b)
  /\ UNCHANGED <<jenkins, db, queue, recorded, call, client, accepted, attached, asked, blank>>

\* A new build publishes "pending" whether or not that succeeds; a reused one
\* publishes "success", and goes on to its review only if that succeeds.
TriggerPublish(b) ==
  /\ trig[b].pc = "publish"
  /\ \/ /\ SetNative(b, IF IsReuse(trig[b].row) THEN "success" ELSE "pending")
        /\ published' = IF IsReuse(trig[b].row) THEN published \cup {b} ELSE published
        /\ IF IsReuse(trig[b].row) THEN TriggerGoto(b, "attachGet") ELSE TriggerEnds(b)
        /\ UNCHANGED budgetVars
     \/ Spend /\ TriggerEnds(b) /\ UNCHANGED <<native, published>>
  /\ UNCHANGED <<jenkins, db, queue, recorded, call, client, accepted, attached, asked, blank>>

\* process_ai_review of a reused build; a deduplicated review that is still
\* running attaches nothing.
TriggerAttachGet(b) ==
  /\ trig[b].pc = "attachGet"
  /\ SetTrigger(b, "attachSave", db[b]) \/ TriggerEnds(b)
  /\ UNCHANGED <<jenkins, db, queue, recorded, native, call, client, budgetVars, historyVars>>

TriggerAttachSave(b) ==
  /\ trig[b].pc = "attachSave"
  /\ \E outcome \in ReviewOutcomes(b) : StoreRow(b, Attached(trig[b].row, TRUE, outcome))
  /\ attached' = attached \cup {b}
  /\ TriggerEnds(b)
  /\ UNCHANGED <<jenkins, queue, recorded, native, call, client, budgetVars,
                 published, accepted, asked, blank>>

\* Any await of the call raises: what it has done so far stays done.
TriggerRaises(b) ==
  /\ trig[b].pc \in TriggerActive
  /\ Spend
  /\ TriggerEnds(b)
  /\ UNCHANGED <<jenkins, db, queue, recorded, native, call, client, historyVars>>

TriggerStep(b) ==
  \/ TriggerLookup(b) \/ TriggerJenkins(b) \/ TriggerSaveQueue(b)
  \/ TriggerSaveBuild(b) \/ TriggerPublish(b)
  \/ TriggerAttachGet(b) \/ TriggerAttachSave(b)

-----------------------------------------------------------------------------
(* Jenkins and the pipeline it runs (jenkinsServicePipeline.groovy).       *)

JenkinsOnly == UNCHANGED <<db, queue, recorded, native, gatewayVars, budgetVars, historyVars>>

JenkinsStart(b) ==
  /\ jenkins[b].phase = "queued"
  /\ SetRun(b, [jenkins[b] EXCEPT !.phase = "running"])
  /\ JenkinsOnly

\* The checks end and pipeline-result.json is written.
PipelineChecks(b) ==
  /\ jenkins[b].phase = "running"
  /\ \E status \in {"passed", "failed"} :
       SetRun(b, [jenkins[b] EXCEPT !.phase = "finishing", !.file = status])
  /\ JenkinsOnly

\* Contract validation or a checkout fails, or the timeout expires, before
\* there is a result file; the finally block still posts the callback.
PipelineFails(b) ==
  /\ jenkins[b].phase = "running"
  /\ \E result \in {"FAILURE", "ABORTED"} :
       SetRun(b, [jenkins[b] EXCEPT !.phase = "callback", !.result = result])
  /\ JenkinsOnly

\* The artifacts are archived, and the run fails if a required check did.
PipelinePublishes(b) ==
  /\ jenkins[b].phase = "finishing"
  /\ LET file == jenkins[b].file IN
     SetRun(b, [jenkins[b] EXCEPT !.phase = "callback", !.archived = file,
                                  !.result = IF file = "passed" THEN "SUCCESS" ELSE "FAILURE"])
  /\ JenkinsOnly

\* A step of results publication fails, before or after archiveArtifacts.
PipelinePublicationFails(b) ==
  /\ jenkins[b].phase = "finishing"
  /\ \E archived \in {"none", jenkins[b].file} :
       SetRun(b, [jenkins[b] EXCEPT !.phase = "callback", !.archived = archived,
                                    !.result = "FAILURE"])
  /\ JenkinsOnly

\* /stop takes effect: the body is interrupted and the finally block runs; a
\* finally block that is interrupted itself abandons its callback.
JenkinsAborts(b) ==
  /\ jenkins[b].stop /\ jenkins[b].phase \in {"running", "finishing", "callback"}
  /\ LET phase == IF jenkins[b].phase = "callback" THEN "done" ELSE "callback" IN
     SetRun(b, [jenkins[b] EXCEPT !.phase = phase, !.result = "ABORTED",
                                  !.stop = FALSE, !.waiting = FALSE])
  /\ JenkinsOnly

CallbackSendOnceMore(b) ==
  /\ jenkins[b].phase = "callback" /\ ~jenkins[b].waiting /\ jenkins[b].attempt <= Attempts
  /\ LET attempt == jenkins[b].attempt + 1 IN
     /\ SetRun(b, [jenkins[b] EXCEPT !.attempt = attempt, !.waiting = TRUE])
     /\ SetCall(b, attempt, [call[b][attempt] EXCEPT !.pc = "get"])
  /\ UNCHANGED <<db, queue, recorded, native, trig, client, budgetVars, historyVars>>

\* notifyBuildCompletion: one attempt reaches the gateway, and its handler
\* starts; or the request is lost (the gateway is down).
CallbackSend(b) ==
  /\ jenkins[b].phase = "callback" /\ ~jenkins[b].waiting /\ jenkins[b].attempt < Attempts
  /\ LET attempt == jenkins[b].attempt + 1 IN
     /\ SetRun(b, [jenkins[b] EXCEPT !.attempt = attempt, !.waiting = TRUE])
     /\ SetCall(b, attempt, [call[b][attempt] EXCEPT !.pc = "get"])
  /\ UNCHANGED <<db, queue, recorded, native, trig, client, budgetVars, historyVars>>

CallbackLost(b) ==
  /\ jenkins[b].phase = "callback" /\ ~jenkins[b].waiting /\ jenkins[b].attempt < Attempts
  /\ Spend
  /\ SetRun(b, [jenkins[b] EXCEPT !.attempt = @ + 1])
  /\ UNCHANGED <<db, queue, recorded, native, gatewayVars, historyVars>>

\* The 15 s timeout of the request; its handler goes on.
CallbackTimeout(b) ==
  /\ jenkins[b].waiting /\ call[b][jenkins[b].attempt].reply = "none"
  /\ SetRun(b, [jenkins[b] EXCEPT !.waiting = FALSE])
  /\ JenkinsOnly

CallbackAccepted(b) ==
  /\ jenkins[b].waiting /\ call[b][jenkins[b].attempt].reply = "ok"
  /\ SetRun(b, [jenkins[b] EXCEPT !.phase = "done", !.waiting = FALSE])
  /\ accepted' = accepted \cup {b}
  /\ UNCHANGED <<db, queue, recorded, native, gatewayVars, budgetVars,
                 published, attached, asked, blank>>

CallbackRefused(b) ==
  /\ jenkins[b].waiting /\ call[b][jenkins[b].attempt].reply = "error"
  /\ SetRun(b, [jenkins[b] EXCEPT !.waiting = FALSE])
  /\ JenkinsOnly

\* All attempts failed: error(...) fails the run whatever its checks said.
CallbackGivesUp(b) ==
  /\ jenkins[b].phase = "callback" /\ ~jenkins[b].waiting /\ jenkins[b].attempt = Attempts
  /\ SetRun(b, [jenkins[b] EXCEPT !.phase = "done", !.result = "FAILURE"])
  /\ JenkinsOnly

JenkinsStep(b) ==
  \/ JenkinsStart(b) \/ PipelineChecks(b) \/ PipelineFails(b)
  \/ PipelinePublishes(b) \/ PipelinePublicationFails(b)
  \/ CallbackSend(b) \/ CallbackTimeout(b) \/ CallbackAccepted(b)
  \/ CallbackRefused(b) \/ CallbackGivesUp(b)

-----------------------------------------------------------------------------
(* The build-completions endpoint and complete_build.                      *)

CallStep(b, i, from, to) ==
  call[b][i].pc = from /\ SetCall(b, i, [call[b][i] EXCEPT !.pc = to])

\* After complete_build: a pull request is answered at once and reviewed in
\* the background, any other build is answered when its log is recorded.
ToReview(b, i, from) ==
  /\ call[b][i].pc = from
  /\ SetCall(b, i, [call[b][i] EXCEPT !.pc = "attachGet",
                                      !.reply = IF b \in PullRequests THEN "ok" ELSE @])

\* A handler that is over keeps its answer and drops its copy of the row; the
\* exception handlers answer with an error unless an answer was given.
Ended(reply) == [pc |-> "done", reply |-> reply, row |-> NoRow]
Failed(handler) == Ended(IF handler.reply = "ok" THEN "ok" ELSE "error")

\* The result in the payload: the workspace's result file, or "failed".
CallbackStatus(b) == IF jenkins[b].file = "none" THEN "failed" ELSE jenkins[b].file

CallGet(b, i) ==
  /\ call[b][i].pc = "get"
  /\ SetCall(b, i, IF db[b] = NoRow THEN Failed(call[b][i])
                                    ELSE [call[b][i] EXCEPT !.pc = "dup", !.row = db[b]])
  /\ UNCHANGED <<jenkins, db, queue, recorded, native, trig, client, budgetVars, historyVars>>

\* A delivery that newer rows push out of list_webhooks is handled once more.
CallCheckDuplicate(b, i) ==
  /\ \/ b \in recorded /\ ToReview(b, i, "dup")
     \/ (b \notin recorded \/ ListsTruncated) /\ CallStep(b, i, "dup", "save")
  /\ UNCHANGED <<jenkins, db, queue, recorded, native, trig, client, budgetVars, historyVars>>

CallSaveThenRecord(b, i) ==
  /\ call[b][i].pc = "save"
  /\ StoreRow(b, [call[b][i].row EXCEPT !.status = CallbackStatus(b)])
  /\ SetCall(b, i, [call[b][i] EXCEPT !.pc = "record", !.row = NoRow])
  /\ UNCHANGED <<jenkins, queue, recorded, native, trig, client, budgetVars, historyVars>>

CallSave(b, i) ==
  /\ call[b][i].pc = "save"
  /\ StoreRow(b, [call[b][i].row EXCEPT !.status = CallbackStatus(b)])
  /\ SetCall(b, i, [call[b][i] EXCEPT !.pc = "publish", !.row = NoRow])
  /\ UNCHANGED <<jenkins, queue, recorded, native, trig, client, budgetVars, historyVars>>

CallPublishSuccessUnlessCancelled(b, i) ==
  /\ SetNative(b, IF CallbackStatus(b) = "cancelled" THEN "failure" ELSE "success")
  /\ published' = published \cup {b}
  /\ CallStep(b, i, "publish", "record")
  /\ UNCHANGED <<jenkins, db, queue, recorded, trig, client, budgetVars,
                 accepted, attached, asked, blank>>

\* _publish_ci_status after its bounded retries, or the raise that makes the
\* pipeline try again.
CallPublish(b, i) ==
  /\ SetNative(b, IF CallbackStatus(b) = "passed" THEN "success" ELSE "failure")
  /\ published' = published \cup {b}
  /\ CallStep(b, i, "publish", "record")
  /\ UNCHANGED <<jenkins, db, queue, recorded, trig, client, budgetVars,
                 accepted, attached, asked, blank>>

\* record_webhook_once: the handler that inserts the row updates the queue.
CallRecord(b, i) ==
  /\ IF b \in recorded THEN ToReview(b, i, "record") ELSE CallStep(b, i, "record", "queue")
  /\ recorded' = recorded \cup {b}
  /\ UNCHANGED <<jenkins, db, queue, native, trig, client, budgetVars, historyVars>>

CallQueue(b, i) ==
  /\ ToReview(b, i, "queue")
  /\ SetQueue(b, QueueStateFor(CallbackStatus(b)))
  /\ UNCHANGED <<jenkins, db, recorded, native, trig, client, budgetVars, historyVars>>

\* process_ai_review reaches _attach_review_log and reads the row, or ends
\* without it (AIReview models when: a concurrent run of the same key).
CallAttachGet(b, i) ==
  /\ call[b][i].pc = "attachGet"
  /\ \/ SetCall(b, i, [call[b][i] EXCEPT !.pc = "attachSave", !.row = db[b]])
     \/ SetCall(b, i, Ended("ok"))
  /\ UNCHANGED <<jenkins, db, queue, recorded, native, trig, client, budgetVars, historyVars>>

CallAttachSave(b, i) ==
  /\ call[b][i].pc = "attachSave"
  /\ \E outcome \in ReviewOutcomes(b) :
       StoreRow(b, Attached(call[b][i].row, b \in PullRequests, outcome))
  /\ attached' = attached \cup {b}
  /\ SetCall(b, i, Ended("ok"))
  /\ UNCHANGED <<jenkins, queue, recorded, native, trig, client, budgetVars,
                 published, accepted, asked, blank>>

\* Any await raises, the third status publication fails, or a non-PR review
\* could not be recorded: 4xx/5xx, and what was done so far stays done.
CallRaises(b, i) ==
  /\ call[b][i].pc \in CallActive
  /\ Spend
  /\ SetCall(b, i, Failed(call[b][i]))
  /\ UNCHANGED <<jenkins, db, queue, recorded, native, trig, client, historyVars>>

CallHandlerStep(b, i) ==
  \/ CallGet(b, i) \/ CallCheckDuplicate(b, i) \/ CallSave(b, i) \/ CallPublish(b, i)
  \/ CallRecord(b, i) \/ CallQueue(b, i) \/ CallAttachGet(b, i) \/ CallAttachSave(b, i)

-----------------------------------------------------------------------------
(* build, builds and build_log read through _refresh_build; cancel_pipeline *)
(* refreshes first and then cancels.                                       *)

Executed(b) == jenkins[b].phase \notin {"none", "queued", "dropped"}

SetClient(c, request) == client' = [client EXCEPT ![c] = request]
ClientGoto(c, pc, row) == SetClient(c, [client[c] EXCEPT !.pc = pc, !.row = row])

\* _refresh_build returns `row`: a read is answered, a cancellation goes on.
Refreshed(c, row) ==
  LET r == client[c] IN
  /\ SetClient(c, IF r.op = "cancel" THEN [r EXCEPT !.pc = "stop", !.row = row] ELSE IdleRequest)
  /\ blank' = IF r.op = "read" /\ row.status \in Terminal /\ ~row.number /\ Executed(r.build)
              THEN blank \cup {r.build} ELSE blank

ClientLocal == UNCHANGED <<jenkins, db, queue, recorded, native, trig, call, budgetVars,
                           published, accepted, attached, asked>>

ClientBegins(c, b, op) ==
  /\ client[c].pc = "idle"
  /\ op = "cancel" => cancels < MaxCancels
  /\ cancels' = IF op = "cancel" THEN cancels + 1 ELSE cancels
  /\ asked' = IF op = "cancel" THEN asked \cup {b} ELSE asked
  /\ SetClient(c, [pc |-> "get", op |-> op, build |-> b, row |-> NoRow])
  /\ UNCHANGED <<jenkins, db, queue, recorded, native, trig, call, faults, crashes,
                 published, accepted, attached, blank>>

ClientGetRefreshesOnlyQueued(c) ==
  LET row == db[client[c].build] IN
  /\ client[c].pc = "get"
  /\ IF row = NoRow
     THEN SetClient(c, IdleRequest) /\ UNCHANGED blank
     ELSE IF row.status # "queued"
     THEN Refreshed(c, row)
     ELSE ClientGoto(c, "queueRead", row) /\ UNCHANGED blank
  /\ ClientLocal

\* get_build and the first tests of _refresh_build.
ClientGet(c) ==
  LET row == db[client[c].build] IN
  /\ client[c].pc = "get"
  /\ IF row = NoRow
     THEN SetClient(c, IdleRequest) /\ UNCHANGED blank
     ELSE IF row.status \in Terminal
     THEN Refreshed(c, row)
     ELSE ClientGoto(c, IF row.number THEN "statusRead" ELSE "queueRead", row) /\ UNCHANGED blank
  /\ ClientLocal

\* jenkins.queue_status: cancelled, started, still waiting, or forgotten.
ClientQueueRead(c) ==
  LET b == client[c].build
      row == client[c].row
  IN
  /\ client[c].pc = "queueRead"
  /\ \/ /\ jenkins[b].phase = "dropped"
        /\ ClientGoto(c, "saveFinal", [row EXCEPT !.status = "cancelled"])
        /\ UNCHANGED blank
     \/ /\ Executed(b)
        /\ ClientGoto(c, "saveNumber", [row EXCEPT !.number = TRUE, !.status = "running"])
        /\ UNCHANGED blank
     \/ /\ jenkins[b].phase = "queued" \/ (JenkinsForgets /\ jenkins[b].phase # "queued")
        /\ Refreshed(c, row)
  /\ ClientLocal

ClientSaveNumber(c) ==
  /\ client[c].pc = "saveNumber"
  /\ StoreRow(client[c].build, client[c].row)
  /\ ClientGoto(c, "queueStarted", client[c].row)
  /\ UNCHANGED <<jenkins, queue, recorded, native, trig, call, budgetVars, historyVars>>

ClientQueueStarted(c) ==
  /\ client[c].pc = "queueStarted"
  /\ SetQueue(client[c].build, "started")
  /\ ClientGoto(c, "statusRead", client[c].row)
  /\ UNCHANGED <<jenkins, db, recorded, native, trig, call, budgetVars, historyVars>>

\* jenkins.build_status: building, finished, or forgotten.
ClientStatusRead(c) ==
  LET b == client[c].build
      row == client[c].row
  IN
  /\ client[c].pc = "statusRead"
  /\ \/ /\ jenkins[b].phase # "done"
        /\ ClientGoto(c, "saveRunning", [row EXCEPT !.status = "running"])
        /\ UNCHANGED blank
     \/ /\ jenkins[b].phase = "done"
        /\ ClientGoto(c, "resultRead", row)
        /\ UNCHANGED blank
     \/ JenkinsForgets /\ Refreshed(c, row)
  /\ ClientLocal

ClientSaveRunning(c) ==
  /\ client[c].pc = "saveRunning"
  /\ StoreRow(client[c].build, client[c].row)
  /\ Refreshed(c, client[c].row)
  /\ UNCHANGED <<jenkins, queue, recorded, native, trig, call, budgetVars,
                 published, accepted, attached, asked>>

ResultStatusUnlessFailure(b) ==
  IF jenkins[b].archived # "none" THEN jenkins[b].archived
  ELSE IF jenkins[b].result = "FAILURE" THEN "failed" ELSE "passed"

\* jenkins.pipeline_result: the archived result, or one derived from the
\* Jenkins build result when nothing was archived.
ResultStatus(b) ==
  IF jenkins[b].archived # "none" THEN jenkins[b].archived
  ELSE CASE jenkins[b].result = "SUCCESS" -> "passed"
         [] jenkins[b].result = "ABORTED" -> "cancelled"
         [] OTHER -> "failed"

ClientResultRead(c) ==
  /\ client[c].pc = "resultRead"
  /\ ClientGoto(c, "saveFinal", [client[c].row EXCEPT !.status = ResultStatus(client[c].build)])
  /\ UNCHANGED blank
  /\ ClientLocal

ClientSaveFinal(c) ==
  /\ client[c].pc = "saveFinal"
  /\ StoreRow(client[c].build, client[c].row)
  /\ ClientGoto(c, "queueFinal", client[c].row)
  /\ UNCHANGED <<jenkins, queue, recorded, native, trig, call, budgetVars, historyVars>>

ClientQueueFinal(c) ==
  /\ client[c].pc = "queueFinal"
  /\ SetQueue(client[c].build, QueueStateFor(client[c].row.status))
  /\ Refreshed(c, client[c].row)
  /\ UNCHANGED <<jenkins, db, recorded, native, trig, call, budgetVars,
                 published, accepted, attached, asked>>

\* cancel_pipeline after its refresh: /stop for a build with a number (which
\* for a reused build is its source's run), cancelItem for a queue item
\* (without effect once it left the queue), an error for a reused build
\* without a number.  Whatever the refresh found, the copy is marked cancelled
\* and saved.
ClientStop(c) ==
  LET b == client[c].build
      row == client[c].row
      run == IF IsReuse(row) THEN row.source ELSE b
  IN
  /\ client[c].pc = "stop"
  /\ \/ /\ ~row.number /\ IsReuse(row)
        /\ SetClient(c, IdleRequest)
        /\ UNCHANGED jenkins
     \/ /\ row.number \/ ~IsReuse(row)
        /\ SetClient(c, [pc |-> "saveFinal", op |-> "stopping", build |-> b,
                         row |-> [row EXCEPT !.status = "cancelled"]])
        /\ IF row.number
           THEN SetRun(run, [jenkins[run] EXCEPT !.stop =
                              @ \/ jenkins[run].phase \in {"running", "finishing", "callback"}])
           ELSE SetRun(b, [jenkins[b] EXCEPT !.phase = IF @ = "queued" THEN "dropped" ELSE @])
  /\ UNCHANGED <<db, queue, recorded, native, trig, call, budgetVars, historyVars>>

\* An await of the request raises: UpstreamError, or the database is away.
ClientRaises(c) ==
  /\ client[c].pc \in ClientActive
  /\ Spend
  /\ SetClient(c, IdleRequest)
  /\ UNCHANGED <<jenkins, db, queue, recorded, native, trig, call, historyVars>>

ClientStep(c) ==
  \/ ClientGet(c) \/ ClientQueueRead(c) \/ ClientSaveNumber(c) \/ ClientQueueStarted(c)
  \/ ClientStatusRead(c) \/ ClientSaveRunning(c) \/ ClientResultRead(c)
  \/ ClientSaveFinal(c) \/ ClientQueueFinal(c) \/ ClientStop(c)

-----------------------------------------------------------------------------
\* The gateway stops and is restarted: its tasks are gone, the pipeline sees
\* its connection reset, the tables stay.
Crash ==
  /\ crashes < MaxCrashes
  /\ crashes' = crashes + 1
  /\ trig' = [b \in Builds |-> IF trig[b].pc \in TriggerActive
                                THEN [pc |-> "done", row |-> NoRow] ELSE trig[b]]
  /\ call' = [b \in Builds |-> [i \in 1..Attempts |->
                IF call[b][i].pc \in CallActive
                THEN Failed(call[b][i]) ELSE call[b][i]]]
  /\ client' = [c \in Clients |-> IdleRequest]
  /\ UNCHANGED <<jenkins, db, queue, recorded, native, faults, cancels, historyVars>>

Next ==
  \/ \E b \in Builds :
       \/ TriggerStep(b) \/ TriggerRaises(b)
       \/ JenkinsStep(b) \/ JenkinsAborts(b) \/ CallbackLost(b)
       \/ \E i \in 1..Attempts : CallHandlerStep(b, i) \/ CallRaises(b, i)
  \/ \E c \in Clients :
       \/ \E b \in Builds, op \in {"read", "cancel"} : ClientBegins(c, b, op)
       \/ ClientStep(c) \/ ClientRaises(c)
  \/ Crash

\* The event loop resumes every task, the executors run every queued build
\* (its timeout bounds it), and somebody keeps reading each build.
Fairness ==
  /\ \A b \in Builds :
       /\ WF_vars(TriggerStep(b)) /\ WF_vars(JenkinsStep(b))
       /\ \A i \in 1..Attempts : WF_vars(CallHandlerStep(b, i))
  /\ \A c \in Clients :
       /\ WF_vars(ClientStep(c))
       /\ \A b \in Builds : WF_vars(ClientBegins(c, b, "read"))

Spec == Init /\ [][Next]_vars
FairSpec == Spec /\ Fairness

-----------------------------------------------------------------------------
\* A commit shows native-ci "success" only if the pipeline of some build of
\* that commit wrote a passed result, whatever callbacks, retries, reuse,
\* reads and crashes did (complete_build, _reuse_native_result).
NativeSuccessJustified ==
  \A s \in Shas : native[s] = "success" =>
    \E b \in Builds : ShaOf[b] = s /\ jenkins[b].file = "passed"

\* A stored "passed" comes from the pipeline's own result file, or for a
\* reused row from that of its source, a branch build of the same commit; a
\* stored "cancelled" from a cancellation or from an aborted run.  Stale copies
\* written back by _refresh_build, cancel_pipeline and complete_build never
\* invent one.
StatusJustified ==
  \A b \in Builds :
    /\ db[b].status = "passed" =>
         IF IsReuse(db[b])
         THEN LET s == db[b].source IN
              s \notin PullRequests /\ ShaOf[s] = ShaOf[b] /\ jenkins[s].file = "passed"
         ELSE jenkins[b].file = "passed"
    /\ db[b].status = "cancelled" => b \in asked \/ jenkins[b].result = "ABORTED"

\* The pipeline is told 2xx only when its verdict was published and its
\* delivery recorded, also when the answer came from a duplicate of an
\* attempt that timed out or failed half-way; and never recorded before it
\* was published (complete_build, record_webhook_once).
AcceptedMeansDone == accepted \subseteq recorded /\ recorded \subseteq published

\* A build is reviewed only after its native verdict reached GitHub: a callback
\* that a retry repeats, or a reused build whose status could not be published,
\* is not reviewed under a status nobody sees.
ReviewAfterVerdict == attached \subseteq published

\* Callback handlers alone, however many attempts overlap, fail or die, never
\* take a finished build back: a terminal row stays terminal.
TerminalStays ==
  [][\A b \in Builds : db[b].status \in Terminal => db'[b].status \in Terminal]_vars

\* The build is finished, and nothing in flight holds a copy of its row that was
\* read before and will be written back: no refresh, no review to attach.
Settled(b) ==
  /\ db[b].status \in Terminal
  /\ trig[b].pc = "attachSave" => trig[b].row.status \in Terminal
  /\ \A i \in 1..Attempts :
       call[b][i].pc = "attachSave" => call[b][i].row.status \in Terminal
  /\ \A c \in Clients : client[c].build = b => client[c].pc \notin Refreshing

\* Only such a copy can take a finished build back: every trigger, callback,
\* review, read and cancellation that begins once there is none, every crash and
\* every run of Jenkins leaves a finished build finished, for good.
FinishedForGood == [][\A b \in Builds : Settled(b) => Settled(b)']_vars

verdictOf ==
  [b \in Builds |-> IF jenkins[b].phase \in {"callback", "done"} THEN CallbackStatus(b)
                                                               ELSE "none"]

Gate == INSTANCE StatusGate WITH verdict <- verdictOf, gate <- native

\* The gateway implements the promise of the native-ci status: only verdicts
\* are published, reuse republishes a passed one, recording comes last.
ImplementsStatusGate == Gate!Spec

\* Once its row is saved a build's status becomes terminal and stays so, as
\* long as the build is read now and then: _refresh_build undoes what stale
\* writes, failed callbacks and a crash left behind.
Settles ==
  \A b \in Builds : db[b].status # "absent" ~> [](db[b].status \in Terminal)

-----------------------------------------------------------------------------
(* What the documentation says and the code does not keep.                 *)

\* docs/server-deployment.md: "`jenkinsservice/native-ci` transitions from
\* pending to its final state".  trigger_pipeline publishes "pending" after
\* the row is saved and Jenkins already runs.
NoPendingAfterFinal ==
  [][\A s \in Shas : native[s] \in {"success", "failure"} => native'[s] # "pending"]_vars

\* docs/architecture.md: persisted identifiers "are lazily reconciled on
\* resource reads", which lets the gateway "recover build numbers" and "serve
\* progressive logs".  _refresh_build returns early for a terminal row.
FinishedBuildsServeLogs == blank = {}

\* README.md: "Every completed build exposes a structured `ai-review.json`
\* artifact".  A copy read before the callback and saved after it drops it.
AttachedLogKept ==
  \A b \in attached :
    (\A c \in Clients : client[c].pc = "idle") /\ jenkins[b].phase = "done" => db[b].log
=============================================================================
