# A TLA+ model of JenkinsService

JenkinsService is a gateway between GitHub, an isolated Jenkins and MCP/HTTP
clients.  It triggers pipelines, receives their signed completion callbacks,
publishes two commit statuses (`jenkinsservice/native-ci` and
`jenkinsservice/ai-review`), runs an AI review of pull requests and executes
allowlisted extensions.  This directory models the parts of it in which several
actors race on shared state, model-checks them with TLC on small instances and
proves the results that matter for every instance with TLAPS.

## The system

One gateway process (asyncio, `src/jenkins_service`) works over PostgreSQL.  It
has no transactions that span two statements and one lock, around the creation of
a repository's Jenkins folder: a handler reads a row, awaits Jenkins or GitHub,
and writes the whole row back.  All concurrency
comes from that, from retries, and from restarts.

| Component | State | Operations | Talks to |
|---|---|---|---|
| `service.py`, builds | tables `builds`, `queue_items` | `trigger_pipeline`, `retry_pipeline`, `complete_build`, `_refresh_build` (behind `build`, `builds`, `build_log`), `cancel_pipeline` | Jenkins, GitHub, store |
| `service.py`, AI review | table `extension_runs`, the log on the build row | `process_ai_review`, `process_ai_review_with_retry`, `_attach_review_log` | review broker, GitHub, store |
| `service.py`, extension actions | table `extension_runs` | `run_extension_action` | extension runner, GitHub, store |
| `service.py`, repositories | table `repositories`, Jenkins folders | `register`, `update`, `unregister`, `scan` | Jenkins, store |
| `webhook.py`, `app.py` | table `webhook_deliveries` | webhook ingestion, background dispatch, build-completions endpoint | service |
| `store.py`, migrations | PostgreSQL | insert-or-update with a conflict rule for each table | |
| `clients.py` | none (Jenkins and GitHub keep it) | job reconciliation, trigger, stop, queue and build status, statuses, reviews, diffs | Jenkins, GitHub, broker |
| shared library (Groovy) | a workspace and its result file | contract, checks, publication, callback with three attempts | gateway |
| `review.py`, `review_broker.py` | none | diff parser, finding validation, OpenAI call with retries | OpenAI |
| `extension_runner.py`, `extensions.py` | a process and three pipes for each request | run one container with bounded input, output and time | Docker |
| `security.py`, `app.py`, `registry.py`, `mcp_server.py` | rate-limiter windows, the principal in each request's context | authentication, limit, authorisation, dispatch | service |
| `contract.py`, `config.py`, `models.py` | none | validation, declarations | |

What is hard here: callbacks that are retried after a 15 s timeout while the
first handler is still running; a callback that arrives before the row exists
(Jenkins is triggered first); whole-row writes of stale copies; idempotency keys
shared by several builds of a commit; calls that fail after they took effect;
a Jenkins that shows renamed and created items late; a pull request that moves
while its diff is downloaded; a process that blocks on its pipes or hangs;
restarts anywhere.  `PROJECT.json` lists each of these hazards at its line.

## Modules

| Module | Models | Role |
|---|---|---|
| `BuildLifecycle` | `trigger_pipeline`, `_reuse_native_result`, the Jenkins run and its callback loop, `complete_build`, `_refresh_build`, `cancel_pipeline`, restarts | detailed specification |
| `StatusGate` | what `native-ci` promises a branch-protection rule | abstract specification of `BuildLifecycle` |
| `AIReview` | `process_ai_review` and its retry loop, `record_failure`, `_attach_review_log` | detailed specification |
| `ExtensionActions` | `run_extension_action` | detailed specification |
| `ExtensionRunner` | the runner's request handler, its process and pipes, the gateway's client | extends `ExtensionActions`: the step that executes becomes a request to the runner |
| `IdempotentRuns` | what the `extension_runs` table promises | abstract specification of `ExtensionActions` |
| `Ingestion` | the webhook endpoint and its background dispatch, `register`, `update`, `unregister` and `scan` of repositories, `ensure_job` and `delete_job` | detailed specification |
| `FolderReconcile` | `_ensure_repository_folder` request by request, `_rebind_legacy_job` and the refresh that races it | detailed specification; the one step `EnsureFolder` of `Ingestion` in full |
| `UnifiedDiff` | `parse_unified_diff`, `validate_result`, and what a diff means | algorithm and reference definition |
| `ReviewRequest` | `pull_request_diff`, the review request, the broker and its OpenAI retry loop, `create_review` | extends `UnifiedDiff`; the steps between a diff and its review that `AIReview` takes as choices |
| `RequestAdmission` | the security middleware, `SlidingWindowLimiter`, REST endpoint, MCP resource and tool | detailed specification |
| `RateLimit` | what `SlidingWindowLimiter.allow` promises a token: only admissions within the window count | abstract specification of `RequestAdmission` |
| `BuildLifecycleProofs`, `AIReviewProofs`, `ExtensionActionsProofs`, `ExtensionRunnerProofs`, `IngestionProofs`, `FolderReconcileProofs`, `ReviewRequestProofs`, `RequestAdmissionProofs` | | theorems and proofs, one module for each detailed specification |
| `MC*` | | instances for TLC |

**State and steps.**  Each handler has a program counter and, where the code
keeps one, its own copy of the row (`trig[b].row`, `call[b][i].row`,
`client[c].row`, `task[t].run`).  A step is one await on the database, Jenkins
or GitHub together with the assignments that follow it; anything between two
awaits is atomic, as it is on the event loop.  `Raises`/`Raise` actions let any
await fail; what was done before stays done.  A call that fails after it took
effect is the step followed by the failure of the next one (or, for a status or
a review, a choice in the step itself).

**`BuildLifecycle`.**  `db` is the table `builds`, a row being its status,
whether `jenkins_build_number` is set, `reused_from_build_id` and whether the
AI-review log is attached.  `jenkins` is external: the queue item, the run, the
status in the workspace's `pipeline-result.json` (`file`), in its archived copy,
and the Jenkins result.  `call[b][i]` is the handler of the i-th callback
attempt, which goes on when the pipeline's request has timed out.  `client[c]`
is a request that refreshes a build and, for a cancellation, stops it.
`published`, `accepted`, `attached`, `asked` and `blank` are histories that only
properties read; a build is `published` when its own verdict, or the one it reuses,
reached GitHub.  The listings that `complete_build` and `_reusable_native_build` search
return the newest 500 rows; with `ListsTruncated` a row may be missing from them, so
a recorded delivery is handled again and a reusable build is not found.  Statuses of one commit are one cell of `native`, as on GitHub.
What the AI review decides is a choice here (`ReviewOutcomes`).

**`AIReview`.**  `runs` is the row of each idempotency key; its conflict rule
(`SaveExtensionRun`: only the run that owns a row replaces it) is that of the
`ON CONFLICT` clause.  A task is one `process_ai_review_with_retry`.  What the
broker finds is a choice; whether a diff exists is a constant of the task, and
whether a build is reviewed (`Reviewed`: a pull request with an enabled policy) one
of the build.  The key of a run does not contain the policy, so builds of one key
may differ in it; `SettledKeys` are the keys whose builds do not.

**`ExtensionActions`.**  A run's UUID is represented by the call that created
it.  Which action fails, and whether it was performed nevertheless, is a choice.

**`Ingestion`.**  A worker is a request to `/webhooks/github` with the background
task it leaves, or one call of a repository operation.  `repos` is the table
`repositories` (a row counts by its `enabled` flag), `recorded` the table
`webhook_deliveries`, `builds` the repository a delivery's build refers to,
`audited` the failed dispatches in `audit_records`; other audit records are left
out.  `folders` and `jobs` are Jenkins (external).  `Fails` is where an exception
goes: the audit of a dispatch, the rollback of a registration, or the error
answer.  The `INSERT` of a registration is outside its `try`: when it commits and its
answer is lost (`AnswerLost`), or the call is cancelled (`Cancelled`; `CancelledError`
passes every `except Exception`), no rollback runs and the row stays (`phase`
"stuck").  The repository and child job of an event are constants of its delivery,
the default branch is one child job; a dispatch is followed until its build row
is saved, where `BuildLifecycle` goes on.  `started`, `outcome` and `phase` are
histories.

**`ExtensionRunner`.**  `job[c]` is the runner's handler of a call's request with
the process it started: chunks of input not yet written, what each pipe holds (one
chunk), what was read.  The process wants to read, write, exit, fail or hang, and
can do what its pipes allow; the handler's three coroutines (`WriteInput`,
`ReadOutput`, `ReadNoise`) interleave with it, with the timeout and with the
gateway, which may stop waiting at any time.  When a pipe lets each of the four move
is a guard of its own (`ProcessReady`, `InputReady`, `OutputReady`, `NoiseReady`), so
`NoPipeDeadlock` is stated without `ENABLED`.

**`FolderReconcile`.**  `item` is what Jenkins has at the repository's path and at
the legacy path, `shown` what a read returns; `Settle` brings the second to the
first at any later time.  A call (`call[c]`) has the program counter of the
function, its attempt and the class it read first in a round of the first loop;
`lock` is the repository's `asyncio.Lock`.  `row` is the path in a stored build of
the legacy job, `copy` the one in the row a refresh read.  `excuse` records which
calls met a stale read, a fault or a foreign item.

**`UnifiedDiff`, `ReviewRequest`.**  The diff is not an input that is built first:
`ReadLine` takes any next line, so the runs cover every sequence of lines.  A line
is what its first characters make it; a `+++` line inside a hunk is an added line.
The second half of `UnifiedDiff` defines from the sequence of lines alone which
lines belong to which hunk and file and what their right-side numbers are; the
properties compare the parser's counters with it.  `WellFormed` is git's format, in
which a file may be `/dev/null` or have a quoted name (`Unsupported`); `Supported` says
that no file is one of these, which the parser refuses.  `str.splitlines` also cuts at
a form feed, a lone carriage return and other boundaries that git leaves inside a line:
`ReadPiece` hands the parser a piece that is no line of the text, `cuts` counts them,
and what is said of the parser is said of texts with none.  In `ReviewRequest`, `revision`
is the pull request on GitHub, which a push takes to any other revision, an earlier
one included (a force push back to the same SHA), `fetched` the revision whose diff
was downloaded, `returned` whether the expected revision came back after the download,
`broker` and `attempt` the broker's loop, `why` the causes outside this code.  The
broker parses the diff with the gateway's own function, so the parse is not
repeated in the model.

**`RequestAdmission`.**  `bucket` is the limiter's deque for each token, `now` the
monotonic clock in ticks, `request[s]` a request in flight, `context[s]` the value
of `current_principal` in its task.  The middleware up to `call_next` is one step
because it awaits nothing.  `admitted` and `refused` are histories; they are also the
state of `RateLimit`, which has no deque.

## Runs

| Run | Instance | Shows |
|---|---|---|
| `extension_actions` | 2 calls on one key, up to 2 actions, a process with up to 2 chunks of input | at most one execution per key; succeeded means performed; no extra actions; accepted output is complete; no circular wait on the pipes; every call and process ends; refinement of `IdempotentRuns` |
| `callbacks` | 1 build, 3 attempts, 1 fault, 1 restart, truncated listings | 2xx only for a published and recorded verdict; a finished row stays finished; refinement of `StatusGate` |
| `clients` | branch build and a pull request of the same commit; where it reuses the branch build, also 1 client, 1 cancellation, 1 fault; truncated listings, Jenkins forgets | no invented `passed`, `cancelled` or `success`; success only for a commit that passed; a review only after the status was published |
| `settles` | 1 build, 1 reader, 1 restart, 1 cancellation, fair | a finished build of which nobody holds an older copy is finished for good; every saved build ends terminal and stays so |
| `review_races` | 2 reviews on one key, 2 skipped reviews on another, 1 without a diff, 2 faults, 1 restart, fair | `ai-review` success only after a clean review; build logs agree with their run; a returned task leaves a logged run; final runs stay; no skipped run stays running |
| `ingestion` | a push delivered twice, 3 calls on a repository that is registered up to twice, 1 raising, ambiguous or cancelled await or 1 restart | at most one Jenkins run per delivery; an accepted event ends ignored, saved or audited; a registration that fails is taken back wherever its rollback runs; a stale update does not bring a repository back |
| `review_request` | diffs of up to 7 lines, 2 files, short ones also with a cut line, 3 revisions, 3 attempts | of texts without a cut line the parser refuses exactly the unreadable ones and finds exactly the added lines; a review is of the build's revision unless that came back, with comments only on added lines; a failure has an outside cause or used every attempt; every review ends |
| `admission` | 2 requests in flight, 2 tokens, limit 2 in a window of 2 ticks, 5 instants | at most the limit in any window; refusals of a waiting token lie within one window; refinement of `RateLimit`; an operation acts for its request's token |
| `folders` | 2 calls, 6 polls, 2 faults, 1 restart, 2 refreshes | the legacy job is kept; a call returns only with the folder there; it raises only with an excuse; what the migration reached is not lost; migration and stored paths converge |
| `pending_last` (violated) | 1 build | `pending` may overwrite the final status |
| `review_twice` (violated) | 2 reviews on one key | both may post: the loser of the insert takes the running run over |
| `git_diffs` (violated) | diffs of up to 4 lines | a git diff that deletes a file is refused |

The three violated properties quote the documentation or a docstring; `findings` in
`PROJECT.json` says what the code does instead.  Seven configurations beside the
runs show seven more, each violated within a minute: `MCReview_resume.cfg`
(`RunsAreFinished`: a pull-request review whose first attempt failed after its run
was saved is deduplicated by the next one and stays `running`, while
docs/architecture.md:60-61 says it "can resume an idempotent run that was persisted
before its final log"), `MCReviewRequest_cut.cfg` (`CommentsAreOnAddedLines`: where
`splitlines` cuts a line of a complete diff, a comment can be accepted for a line the
diff does not add, while docs/architecture.md:22-23 says the gateway "independently
validates every proposed path and added line"), `MCReviewRequest_back.cfg`
(`ReviewedIsExpected`: the pull request moves, is downloaded and moves back, and both
identity checks of docs/architecture.md:27-28 pass with another revision's diff),
`MCLifecycle_logs.cfg`
(`FinishedBuildsServeLogs`: a build finished by its callback never learns its
number and serves an empty log, while docs/architecture.md:31-33 has identifiers
"lazily reconciled on resource reads"), `MCLifecycle_erased.cfg`
(`AttachedLogKept`: a refresh that read the row before the callback drops the
`ai-review.json` that README.md:96 promises for "every completed build"),
`MCReview_policy.cfg` (`SkippedIsNotSuccess`: of two builds of one key the first ran
under a disabled policy, and its skipped run is republished as `ai-review` success
for the second, while service.py:772 says "A skipped review is not represented as a
successful commit status.") and `MCIngestion_redelivery.cfg` (`RedeliveryDispatches`: a redelivered event whose
dispatch failed is a duplicate, while docs/runbook.md:19-22 says to "redeliver the
GitHub event").

While modelling, more disagreements turned up that no configuration keeps: of two
branch builds of one commit
whose callbacks overlap, one can be accepted without an `ai-review.json`
(`save_extension_run` hands it the other's finished run); two events of a branch
or pull request seen for the first time both find no child job, and the second
`createItem` is refused although "reconciliation is serialized" (the lock covers
the folder only); a failing `archiveArtifacts` leaves
`native-ci` success (the callback posts the workspace file); `cancel_pipeline`
stores a finished build as cancelled, and for a reused build posts `/stop` for
its source's run; the gateway waits 90 s for a broker that may need three attempts of 60 s, so the
"bounded OpenAI retries" of docs/server-deployment.md:455-457 can outlive the
review they are for; and a process that exits without
reading its input breaks the write in the runner, which nothing catches (500
instead of its own error).

**Bounds.**  `MaxFaults`, `MaxCrashes`, `MaxCancels` bound how often an await
raises, the gateway restarts and a client cancels; `Attempts` is the code's own
3 where callbacks overlap.  Two handlers are enough for every race on one row,
three for a duplicate of a duplicate.  `clients` has a state constraint
(`QuietUnlessReused`): the client acts and an await raises only where the pull
request reuses the branch build; where it runs itself, the two builds interleave
alone, with an archived copy and a Jenkins result (which only clients read) that say
what the result file says.  In `ingestion`, three calls are enough to register, to race two operations
on the row and to register again, and one delivery is enough because the calls
reconcile the same child job; a fault and a restart are explored apart
(`OneMishap`; a fault is a raising, an ambiguous or a cancelled await), `enable` is left out (it differs from `disable` only in what it
writes), and hooks, ids and calls are interchangeable, so the run uses
symmetry (it checks safety only).  In `extension_actions`, two chunks of input and a limit
of one chunk of output are the least that can block a writer on each side and go
over the limit.  `review_request` has a state constraint: between hunks at most one
line the parser skips, no empty section, and OpenAI is asked only about short diffs
and those that add two lines; seven lines hold two files with a hunk each, or two
hunks of one file; a line is cut, and a revision comes back, only where the diff has at
most three lines.  `review_races` has a state constraint (`OneKeyAtATime`): only tasks
of one key begin, since tasks of different keys share nothing but the bounds on faults
and restarts.  `ReviewEnds` is therefore shown for the diffs the constraint
admits; the parse is a loop over the lines in any case.  In `folders`, `Attempts`
is the code's own 6; `MaxRefreshes` bounds the refreshes of a legacy build, which
write only until they find it finished.  In `admission`, a window of two ticks has
instants before, at and after its boundary.  `ListsTruncated` is set where the
questions are about duplicates and reuse (`callbacks`, `clients`); it stands for any
500 newer rows, so the instances need none of them.  Deadlock is not checked where everything may really
end: all builds done and no client left.

**Fairness.**  Weak fairness of a handler's steps: every await has a timeout and
the event loop resumes tasks.  Weak fairness of the Jenkins run: the pipeline is
under `timeout`, and its callback loop is bounded.  `Settles` also assumes that
somebody keeps reading the build (`_refresh_build` runs only on reads), that
Jenkins does not forget the queue item or build, and, beyond the one restart, no
faults.  `MigrationCompletes` assumes that Jenkins' view settles, that the repository keeps
having events, and strong fairness of a call's steps, because `asyncio.Lock`
serves its waiters in order.  `CallsAndProcessesEnd` assumes that time passes
(weak fairness of `Timeout`) and nothing about the process; `ReviewEnds` assumes
nothing about the broker.  No fairness is assumed of faults, restarts,
cancellations or aborts.

## Proofs

`ExtensionActionsProofs` proves, for any sets of calls and keys and any number
of actions, `TypeOK`, `AtMostOneExecution`, `SucceededMeansPerformed`,
`NoExtraActions` and the refinement of `IdempotentRuns`, from the assumption
that keys and calls are what the constants say (`CallAssumption`).  None of the
properties is inductive alone.  `IInv` adds who may be past the claim
(`OwnerOnly`: only the call that owns the stored run), that an absent run has no
history (`AbsentIsFresh`), and how the key's history relates to the location of
its owner (`OwnerProgress`: while it acts, performed + pending = requested).
Each action has a lemma; two calls of one key cannot both be owners, so a step
of one leaves the progress of all others alone.

`BuildLifecycleProofs` proves, for any sets of builds, commits and clients and any
`Attempts`, faults, restarts and cancellations that `LifecycleAssumption` allows,
`TypeOK`, `AcceptedMeansDone`, `NativeSuccessJustified`, `StatusJustified`,
`ReviewAfterVerdict`, `FinishedForGood`, the refinement of `StatusGate` and, for an
instance without clients, `TerminalStays`.
What makes them true is not in the tables but in the
copies of rows that handlers hold across awaits, so the invariant `IInv` speaks of
every copy wherever it is (`RowOK`: in `db`, in a trigger, in a callback handler,
in a client's request): a reused copy belongs to a build that Jenkins never gets
and names a passed branch build of its commit, a passed copy has a finished
passed run, a cancelled one was asked for or aborted.  `RunOK` says what the
fields of a run imply for each other, `QueueOK` that a build not yet triggered has
no run, `HandlerOK` what the location of a callback handler says about
`published` and `recorded`, `RequestOK` that a refresh never holds a reused row.
The argument has two halves.  `Grows` lists what no step takes back (a run that is
over, its result file, the result of a finished run, `asked`, `published`,
`recorded`); under it every copy that nobody touches stays right (`RowKept`,
`HandlerKept`, `RequestKept`), so a step answers only for what it changes
(`Good`, `GoodKeepsIInv`).  Then one lemma per action shows that it is `Good`.
The refinement reads the verdict off the run (`verdictOf`): `TriggerPublish` is
`Queue` or `Reuse`, `CallPublish` is `Publish`, `CallRecord` is `Record`, a run
that ends its body is `Decide`, and every other step stutters.
`TerminalStays` needs the hypothesis `Clients = {}`, because a refresh does write a
stale copy over a final row (`Settles` says that it is repaired).  Its invariant
(`FinalOK`) follows the row of one build: until the trigger saves it no callback
gets past its lookup, whoever is past the save of a result sees a final row, and so
does whoever finds the delivery recorded.
With clients, `FinishedForGood` says what is left of it: call a build `Settled` when
its row is terminal, no refresh of it is under way and no review is about to write
back a copy that is not terminal; then it stays `Settled` for good.  Its invariant
(`SettleInv`) adds that nobody holds a row of a build whose trigger has not saved it
(`NobodyEarly`) and that the last save of a refresh is final (`LastSaveIsFinal`);
`TriggerMoves`, `CallMoves` and `ClientMoves` reduce the actions of each actor to the
few ways in which they read and write the row.  `ReviewAfterVerdict` follows from
`HandlerOK` for callbacks and, for a reused build, from `ReviewInv`: its trigger reaches
the review only over the publication that succeeded.

`FolderReconcileProofs` proves, for any set of calls and any number of polls,
faults, restarts and refreshes, `LegacyJobKept`, `ReturnMeansFolder`,
`NoSpuriousFailure` and `MigrationStays`, from `ReconcileAssumption`.  Reads may be stale, so `IInv`
first says which of them still tell the truth (`Namespace`: a folder that is shown
is there, since nothing removes one, and only a workflow job is ever renamed);
then that whoever is inside the lock holds it (`Exclusion`), that stored paths and
a refresh's copy lag behind the job but never run ahead of it (`StoredPaths`),
that only a repository with a legacy job is migrated (`Progress`), and, for a call
that has met neither a stale read nor a fault, what its location says about
Jenkins (`Honest`); there the lock matters: no other call of the gateway moves the
job meanwhile, and an outsider can only create the folder.  Each action has one
lemma with one step per conjunct.  `MigrationStays` follows because a call that still
wants to rename works for a repository with a legacy job (`Progress`), and where the
folder is there that job is already at the legacy path (`Namespace`): the rename is
refused.

`IngestionProofs` proves, for any sets of deliveries, requests, repositories and
calls, `TypeOK`, `AtMostOneTrigger`, `NoSilentLoss`, `NoHalfRegistration` and
`NoResurrection`, from `IngestionAssumption`.  `WorkOK` says where a task of each
kind can be; `OneDispatch` that of all requests with one delivery at most one is
past the insertion of its row, and that it has not asked Jenkins for a run as long
as it is before the trigger; `Accounted` that a dispatch at its status has saved its
build.  The three properties join the invariant: each says of a task that is over
what the others say of one under way.  A row that no rollback reaches is "stuck" by the
step that leaves it, so `NoHalfRegistration` names all the ways there are.  `Triggers`, `Accounts` and `Registers` are
what a step owes each of them, so each action is looked at once.

`RequestAdmissionProofs` proves, for any tokens, scopes, requests in flight, limit
and window, `TypeOK`, `RateBounded`, `RetryAfterHonest`, `ActsForItsCaller` and the
refinement of `RateLimit`, from `AdmissionAssumption`.  The limiter forgets what expired, so the invariant relates
its deque to the whole history (`BucketIsSuffix`: the deque is the end of the
admissions, and whatever is not in it is a window old) and a refusal to the entry
that caused it (`RefusedByOldest`: the deque is full and its oldest entry less than
a window older than the last refusal).  A request that is admitted finds fewer than
`Limit` entries, so the admission `Limit` places earlier is not among them and is a
window old.  For the refinement the history is in order (`HistoryInOrder`), so what
remains of the deque after its expired head was dropped is exactly the set of
admissions within the window, with as many members (`AllowIsNotFull`).  For the caller, `CallerInv` says that the context of a request being
handled is that of its token.

`AIReviewProofs` proves, for any tasks, builds, keys, attempts, faults and restarts,
`TypeOK`, `SuccessMeansCleanReview`, `BuildLogJustified`, `ReturnedMeansLogged`,
`ReviewsBounded` and `FinalRunStays`, from `ReviewAssumption`.  Several tasks can
work on the row of one key, so the invariant says what each may believe of it
(`TasksOK`): a copy has the owner of the stored row, which is why the conflict rule
lets it through; a task that completes holds a final copy; one that attaches or has
returned knows the stored row to have its log.  `RunsOK` ties the fields of a row to
the history of clean reviews; a row is skipped only where some build of its key is
not reviewed, which is where `SettledKeys` enters.  `ReviewsBounded` (a review beyond
the first is due to a takeover; that there are none is `OneReviewPerKey`, which the code
does not keep) needs a count:
reviews posted and tasks heading for one (`ToPost`) are at most the run created and
the takeovers (`CountsOK`).

`ExtensionRunnerProofs` carries the results of `ExtensionActionsProofs` over to the
composition with the runner, for any input, output and noise limits
(`RunnerAssumption`): every step of the composition is a step of `ExtensionActions`
or leaves its variables alone (`ImplementsExtensionActions`), so one execution,
succeeded means performed, no extra actions and the refinement of `IdempotentRuns`
hold there too.  Of the runner itself it proves `RunnerTypeOK`, which bounds pipes
and buffers, and `OutputIsComplete`, from `ReadSoFar`: while the coroutines read,
what the process wrote is what was read and what the pipe still holds, and nothing
is over its limit.  `NoPipeDeadlock` needs the types only: whatever the process is
blocked on, the coroutine at the other end of that pipe can move (`PipesMove`).

`ReviewRequestProofs` proves, for diffs of any length and content, any pushes and
any number of attempts, `AddedLinesAreTrue`, `RefusesExactlyUnreadable`,
`ReviewIsOfTheBuild`, `FailureHasCause` and `TypeOK`, from `DiffAssumption` and
`RequestAssumption`.  The reference definition is a statement about the whole text
and not a recursion over it, so no induction over data is needed: one more line
changes nothing about the hunk, file and position of the lines before it
(`OwnerKept`, `FileOfKept`, `NextCounts`, `NextTrueAdded`), and it keeps a
well-formed text well formed exactly if it fits the section it is in
(`NextWellFormed`).  `ParserOK` says what the parser's variables mean in terms of
the text read so far: `in_hunk` and `current_path` are those of the header that
governs the next line, and the counters are that header's numbers less (or plus)
the lines counted in its hunk.  Then the parser's guards are the condition of
`NextWellFormed`, line kind by line kind, together with the names it supports
(`Readable`).  Both properties, and `ParserOK`, are about texts without a cut line; of
the others only the types are kept.  `StageOK`, `RevisionOK` and `BrokerOK`
say what the location of the gateway and the broker implies for the verdict, the
revision that was downloaded (or that it came back) and the attempts.

Model-checked only: liveness under fairness (`CallsAndProcessesEnd`, `Settles`,
`SkippedRunsAreFinished`, `MigrationCompletes`, `ReviewEnds`), which is out of the prover's
reach.  Of `Settles` and `MigrationCompletes` the safety half is proved
(`FinishedForGood`, `MigrationStays`: what was reached stays); that it is reached is
left to TLC.  Every other property of the passing runs is stated by a theorem.

## Not modelled, and the plan

Next, in this order:

1. The composition of the trigger with `AIReview`: `ReviewAfterVerdict` says when a
   review may begin, `AIReview` what it does, but nothing yet speaks of a reused build
   that was never reviewed because its status could not be published.
2. The pipeline's single checks and `requiredFailure`.

Not modelled: `contract.py`, whose rules are local tests on strings, evaluated
one after the other and conjoined, so that a model could only repeat its regular
expressions; signatures, digests and redaction (library calls without state); the
table of operations, the MCP signatures, configuration and the field declarations
of `models.py`; job XML and names, progressive logs and what the listings return
to a client; images, compose files,
scripts and the reference extension.  Of the type invariants only that of
`BuildLifecycle` is among the properties of the runs; those of the other modules,
`FolderReconcile`'s as part of its `IInv`, are proved.
