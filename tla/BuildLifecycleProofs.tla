------------------------ MODULE BuildLifecycleProofs ------------------------
(***************************************************************************)
(* The safety of the completion protocol for any builds, commits, clients, *)
(* attempts, faults, restarts and cancellations: what a 2xx answer means,  *)
(* what a stored or published result rests on, the refinement of           *)
(* StatusGate, that reviews follow the verdict, and when a finished build  *)
(* stays finished.                                                         *)
(* The inductive invariant describes the runs (RunOK), every copy of a     *)
(* build row wherever it is held (RowOK), and the handlers.                *)
(***************************************************************************)
EXTENDS BuildLifecycle, TLAPS

USE LifecycleAssumption

-----------------------------------------------------------------------------
(* Runs of the pipeline.                                                   *)

OverPhases == {"callback", "done"}
EarlyPhases == {"none", "queued", "dropped", "running"}

\* A run that waits for an answer has sent an attempt; what is archived is the
\* result file; only a passed result file makes a successful run; and a run
\* that has not ended its checks has no result.
RunOK(r) ==
  /\ r.waiting => r.attempt \in 1..Attempts /\ r.phase = "callback"
  /\ r.archived \in {"none", r.file}
  /\ r.result = "SUCCESS" => r.file = "passed"
  /\ r.phase \in EarlyPhases => r.file = "none" /\ r.archived = "none" /\ r.result = "none"

\* How a run may change: a verdict and the result of a finished run stay, and
\* only the gateway puts a run into the queue or drops it.
Follows(r, q) ==
  /\ r.phase \in OverPhases => q.phase \in OverPhases /\ q.file = r.file
  /\ r.phase = "done" => q.phase = "done" /\ q.result = r.result
  /\ r.phase = "none" <=> q.phase = "none"
  /\ q.phase = "dropped" => r.phase = "dropped"

\* Each step of the pipeline respects RunOK and Follows.
LEMMA RunSteps ==
  ASSUME NEW r \in Runs, RunOK(r)
  PROVE  /\ r.phase = "queued" =>
              LET q == [r EXCEPT !.phase = "running"] IN
              q \in Runs /\ RunOK(q) /\ Follows(r, q)
         /\ \A status \in {"passed", "failed"} : r.phase = "running" =>
              LET q == [r EXCEPT !.phase = "finishing", !.file = status] IN
              q \in Runs /\ RunOK(q) /\ Follows(r, q)
         /\ \A result \in {"FAILURE", "ABORTED"} : r.phase = "running" =>
              LET q == [r EXCEPT !.phase = "callback", !.result = result] IN
              q \in Runs /\ RunOK(q) /\ Follows(r, q)
         /\ r.phase = "finishing" =>
              LET q == [r EXCEPT !.phase = "callback", !.archived = r.file,
                          !.result = IF r.file = "passed" THEN "SUCCESS" ELSE "FAILURE"] IN
              q \in Runs /\ RunOK(q) /\ Follows(r, q)
         /\ \A archived \in {"none", r.file} : r.phase = "finishing" =>
              LET q == [r EXCEPT !.phase = "callback", !.archived = archived,
                                 !.result = "FAILURE"] IN
              q \in Runs /\ RunOK(q) /\ Follows(r, q)
BY DEF Runs, RunOK, Follows, OverPhases, EarlyPhases

\* So do a stop and an abort.
LEMMA AbortSteps ==
  ASSUME NEW r \in Runs, RunOK(r)
  PROVE  /\ r.phase \in {"running", "finishing", "callback"} =>
              LET q == [r EXCEPT !.phase = IF r.phase = "callback" THEN "done" ELSE "callback",
                                 !.result = "ABORTED", !.stop = FALSE, !.waiting = FALSE] IN
              q \in Runs /\ RunOK(q) /\ Follows(r, q)
         /\ \A stop \in BOOLEAN : LET q == [r EXCEPT !.stop = stop] IN
              q \in Runs /\ RunOK(q) /\ Follows(r, q)
BY DEF Runs, RunOK, Follows, OverPhases, EarlyPhases

\* So does sending an attempt.
LEMMA SendSteps ==
  ASSUME NEW r \in Runs, RunOK(r), r.phase = "callback", r.attempt < Attempts, ~r.waiting
  PROVE  /\ r.attempt + 1 \in 1..Attempts
         /\ LET q == [r EXCEPT !.attempt = r.attempt + 1, !.waiting = TRUE] IN
              q \in Runs /\ RunOK(q) /\ Follows(r, q)
         /\ LET q == [r EXCEPT !.attempt = r.attempt + 1] IN
              q \in Runs /\ RunOK(q) /\ Follows(r, q)
<1>1. r.attempt \in 0..Attempts
  BY DEF Runs
<1>2. r.attempt + 1 \in 0..Attempts /\ r.attempt + 1 \in 1..Attempts
  BY <1>1
<1> DEFINE n == r.attempt + 1
<1>3. n \in 0..Attempts /\ n \in 1..Attempts
  BY <1>2
<1> HIDE DEF n
<1>4. LET q == [r EXCEPT !.attempt = n, !.waiting = TRUE] IN
        q \in Runs /\ RunOK(q) /\ Follows(r, q)
  BY <1>3 DEF Runs, RunOK, Follows, OverPhases, EarlyPhases
<1>5. LET q == [r EXCEPT !.attempt = n] IN
        q \in Runs /\ RunOK(q) /\ Follows(r, q)
  BY <1>3 DEF Runs, RunOK, Follows, OverPhases, EarlyPhases
<1> QED BY <1>2, <1>4, <1>5 DEF n

\* So does the end of an attempt and of the loop.
LEMMA AnswerSteps ==
  ASSUME NEW r \in Runs, RunOK(r)
  PROVE  /\ LET q == [r EXCEPT !.waiting = FALSE] IN
              q \in Runs /\ RunOK(q) /\ Follows(r, q)
         /\ r.waiting =>
              LET q == [r EXCEPT !.phase = "done", !.waiting = FALSE] IN
              q \in Runs /\ RunOK(q) /\ Follows(r, q)
         /\ r.phase = "callback" /\ ~r.waiting =>
              LET q == [r EXCEPT !.phase = "done", !.result = "FAILURE"] IN
              q \in Runs /\ RunOK(q) /\ Follows(r, q)
BY DEF Runs, RunOK, Follows, OverPhases, EarlyPhases

JenkinsMoves(b) ==
  \E q \in Runs : SetRun(b, q) /\ RunOK(q) /\ Follows(jenkins[b], q)

\* Every step of Jenkins changes one run, and in such a way.
LEMMA JenkinsMovesOneRun ==
  ASSUME TypeOK, NEW b \in Builds, RunOK(jenkins[b]),
         JenkinsStep(b) \/ JenkinsAborts(b) \/ CallbackLost(b)
  PROVE  JenkinsMoves(b)
<1>r. jenkins[b] \in Runs
  BY DEF TypeOK
<1>1. CASE JenkinsStart(b)
  BY <1>1, <1>r, RunSteps DEF JenkinsStart, JenkinsMoves
<1>2. CASE PipelineChecks(b)
  BY <1>2, <1>r, RunSteps DEF PipelineChecks, JenkinsMoves
<1>3. CASE PipelineFails(b)
  BY <1>3, <1>r, RunSteps DEF PipelineFails, JenkinsMoves
<1>4. CASE PipelinePublishes(b)
  BY <1>4, <1>r, RunSteps DEF PipelinePublishes, JenkinsMoves
<1>5. CASE PipelinePublicationFails(b)
  BY <1>5, <1>r, RunSteps DEF PipelinePublicationFails, JenkinsMoves
<1>6. CASE JenkinsAborts(b)
  BY <1>6, <1>r, AbortSteps DEF JenkinsAborts, JenkinsMoves
<1>7. CASE CallbackSend(b)
  BY <1>7, <1>r, SendSteps DEF CallbackSend, JenkinsMoves
<1>8. CASE CallbackLost(b)
  BY <1>8, <1>r, SendSteps DEF CallbackLost, JenkinsMoves
<1>9. CASE CallbackTimeout(b) \/ CallbackRefused(b)
  BY <1>9, <1>r, AnswerSteps DEF CallbackTimeout, CallbackRefused, JenkinsMoves
<1>10. CASE CallbackAccepted(b)
  BY <1>10, <1>r, AnswerSteps DEF CallbackAccepted, JenkinsMoves
<1>11. CASE CallbackGivesUp(b)
  BY <1>11, <1>r, AnswerSteps DEF CallbackGivesUp, JenkinsMoves
<1> QED BY <1>1, <1>2, <1>3, <1>4, <1>5, <1>6, <1>7, <1>8, <1>9, <1>10, <1>11 DEF JenkinsStep

-----------------------------------------------------------------------------
(* The inductive invariant.                                                *)

Over(b) == jenkins[b].phase \in OverPhases
Passed(b) == Over(b) /\ jenkins[b].file = "passed"
Aborted(b) == jenkins[b].phase = "done" /\ jenkins[b].result = "ABORTED"

\* A build that reuses another one was never given to Jenkins and never will.
Untriggered(b) == jenkins[b].phase = "none" /\ trig[b].pc \notin {"idle", "trigger"}

\* What every copy of a build's row satisfies, stored or held by a handler.
RowOK(b, row) ==
  /\ IsReuse(row) =>
       /\ row.status \in Terminal
       /\ Untriggered(b)
       /\ row.source \in Builds \ PullRequests
       /\ ShaOf[row.source] = ShaOf[b]
       /\ Passed(row.source)
  /\ row.status = "passed" /\ ~IsReuse(row) => Passed(b)
  /\ row.status = "cancelled" => b \in asked \/ Aborted(b)

\* A build whose trigger has not reached Jenkins has no run, and only a
\* cancelled queue item is dropped.
QueueOK(b) ==
  /\ trig[b].pc \in {"idle", "trigger"} => jenkins[b].phase = "none"
  /\ jenkins[b].phase = "dropped" => b \in asked

\* Where a callback handler is tells what has been published and recorded.
HandlerOK(b, handler) ==
  /\ handler.pc # "unsent" => Over(b)
  /\ handler.pc = "record" => b \in published
  /\ handler.pc \in {"queue", "attachGet", "attachSave"} \/ handler.reply = "ok" =>
       b \in recorded
  /\ RowOK(b, handler.row)

\* A client refreshes only rows that are not reused, reads a result only of a
\* finished run, and cancels only what it was asked to.
RequestOK(request) ==
  /\ RowOK(request.build, request.row)
  /\ request.pc # "idle" /\ request.op \in {"cancel", "stopping"} => request.build \in asked
  /\ request.pc = "stop" => request.op = "cancel"
  /\ request.pc \in Refreshing => ~IsReuse(request.row)
  /\ request.pc = "resultRead" => jenkins[request.build].phase = "done"

NativeOK(s) == native[s] = "success" => \E b \in Builds : ShaOf[b] = s /\ Passed(b)

IInv ==
  /\ TypeOK
  /\ \A b \in Builds : /\ RunOK(jenkins[b]) /\ QueueOK(b)
                       /\ RowOK(b, db[b]) /\ RowOK(b, trig[b].row)
                       /\ \A i \in 1..Attempts : HandlerOK(b, call[b][i])
  /\ \A c \in Clients : RequestOK(client[c])
  /\ \A s \in Shas : NativeOK(s)
  /\ AcceptedMeansDone

-----------------------------------------------------------------------------
(* What a step must respect.                                               *)

\* What a step may not take back.
Grows ==
  /\ \A b \in Builds :
       /\ Over(b) => Over(b)' /\ jenkins'[b].file = jenkins[b].file
       /\ jenkins[b].phase = "done" => /\ jenkins'[b].phase = "done"
                                       /\ jenkins'[b].result = jenkins[b].result
       /\ Untriggered(b) => Untriggered(b)'
  /\ asked \subseteq asked' /\ published \subseteq published' /\ recorded \subseteq recorded'

\* What a step has to establish about the parts it changes.
Good ==
  /\ TypeOK'
  /\ Grows
  /\ \A b \in Builds :
       /\ RunOK(jenkins[b])' /\ QueueOK(b)'
       /\ db'[b] = db[b] \/ RowOK(b, db[b])'
       /\ trig'[b].row = trig[b].row \/ RowOK(b, trig[b].row)'
       /\ \A i \in 1..Attempts : call'[b][i] = call[b][i] \/ HandlerOK(b, call[b][i])'
  /\ \A c \in Clients : client'[c] = client[c] \/ RequestOK(client[c])'
  /\ \A s \in Shas : native'[s] \in {native[s], "pending", "failure"} \/ NativeOK(s)'
  /\ AcceptedMeansDone'

\* Every copy of a row that was right stays right.
LEMMA RowKept ==
  ASSUME Grows, NEW b \in Builds, NEW row, RowOK(b, row)
  PROVE  RowOK(b, row)'
<1>1. \A d \in Builds : Passed(d) => Passed(d)'
  BY DEF Grows, Passed
<1>2. \A d \in Builds : Aborted(d) => Aborted(d)'
  BY DEF Grows, Aborted
<1>3. Untriggered(b) => Untriggered(b)'
  BY DEF Grows
<1>4. b \in asked => b \in asked'
  BY DEF Grows
<1> QED BY <1>1, <1>2, <1>3, <1>4 DEF RowOK

\* Handlers that do not move stay right.
LEMMA HandlerKept ==
  ASSUME Grows, NEW b \in Builds, NEW handler, HandlerOK(b, handler)
  PROVE  HandlerOK(b, handler)'
<1>1. RowOK(b, handler.row)'
  BY RowKept DEF HandlerOK
<1>2. Over(b) => Over(b)'
  BY DEF Grows
<1>3. (b \in published => b \in published') /\ (b \in recorded => b \in recorded')
  BY DEF Grows
<1> QED BY <1>1, <1>2, <1>3 DEF HandlerOK

\* Requests that do not move stay right.
LEMMA RequestKept ==
  ASSUME Grows, NEW request \in Requests, RequestOK(request)
  PROVE  RequestOK(request)'
<1>0. request.build \in Builds
  BY DEF Requests
<1>1. RowOK(request.build, request.row)'
  BY <1>0, RowKept DEF RequestOK
<1>2. request.build \in asked => request.build \in asked'
  BY DEF Grows
<1>3. jenkins[request.build].phase = "done" => jenkins'[request.build].phase = "done"
  BY <1>0 DEF Grows
<1> QED BY <1>1, <1>2, <1>3 DEF RequestOK

\* A step that respects Good keeps the invariant.
LEMMA GoodKeepsIInv == IInv /\ Good => IInv'
<1> SUFFICES ASSUME IInv, Good PROVE IInv'
  OBVIOUS
<1>1. TypeOK' /\ AcceptedMeansDone' /\ Grows /\ TypeOK
  BY DEF Good, IInv
<1>2. ASSUME NEW b \in Builds
      PROVE  /\ RunOK(jenkins[b])' /\ QueueOK(b)'
             /\ RowOK(b, db[b])' /\ RowOK(b, trig[b].row)'
             /\ \A i \in 1..Attempts : HandlerOK(b, call[b][i])'
  <2>1. RunOK(jenkins[b])' /\ QueueOK(b)'
    BY DEF Good
  <2>2. RowOK(b, db[b])'
    <3>1. CASE db'[b] = db[b]
      <4>1. PICK row : row = db[b]
        OBVIOUS
      <4>2. RowOK(b, row)
        BY <4>1 DEF IInv
      <4>3. RowOK(b, row)'
        BY <1>1, <4>2, RowKept
      <4> QED BY <3>1, <4>1, <4>3 DEF RowOK
    <3> QED BY <3>1 DEF Good
  <2>3. RowOK(b, trig[b].row)'
    <3>1. CASE trig'[b].row = trig[b].row
      <4>1. PICK row : row = trig[b].row
        OBVIOUS
      <4>2. RowOK(b, row)
        BY <4>1 DEF IInv
      <4>3. RowOK(b, row)'
        BY <1>1, <4>2, RowKept
      <4> QED BY <3>1, <4>1, <4>3 DEF RowOK
    <3> QED BY <3>1 DEF Good
  <2>4. ASSUME NEW i \in 1..Attempts PROVE HandlerOK(b, call[b][i])'
    <3>1. CASE call'[b][i] = call[b][i]
      <4>1. PICK handler : handler = call[b][i]
        OBVIOUS
      <4>2. HandlerOK(b, handler)
        BY <4>1 DEF IInv
      <4>3. HandlerOK(b, handler)'
        BY <1>1, <4>2, HandlerKept
      <4> QED BY <3>1, <4>1, <4>3 DEF HandlerOK, RowOK
    <3> QED BY <3>1 DEF Good
  <2> QED BY <2>1, <2>2, <2>3, <2>4
<1>3. ASSUME NEW c \in Clients PROVE RequestOK(client[c])'
  <2>1. CASE client'[c] = client[c]
    <3>1. PICK request \in Requests : request = client[c]
      BY <1>1 DEF TypeOK
    <3>2. RequestOK(request)
      BY <3>1 DEF IInv
    <3>3. RequestOK(request)'
      BY <1>1, <3>2, RequestKept
    <3> QED BY <2>1, <3>1, <3>3 DEF RequestOK, RowOK, Untriggered, Passed, Over, Aborted
  <2> QED BY <2>1 DEF Good
<1>4. ASSUME NEW s \in Shas PROVE NativeOK(s)'
  <2>1. CASE native'[s] \in {native[s], "pending", "failure"}
    <3>1. \A d \in Builds : Passed(d) => Passed(d)'
      BY <1>1 DEF Grows, Passed
    <3>2. NativeOK(s)
      BY DEF IInv
    <3> QED BY <2>1, <3>1, <3>2 DEF NativeOK
  <2> QED BY <2>1 DEF Good
<1> QED BY <1>1, <1>2, <1>3, <1>4 DEF IInv

-----------------------------------------------------------------------------
(* The initial states, and the frame of each kind of step.                 *)

\* The invariant holds at the start: no rows, runs or handlers.
LEMMA InitIInv == Init => IInv
<1> SUFFICES ASSUME Init PROVE IInv
  OBVIOUS
<1>1. TypeOK
  BY DEF Init, TypeOK, Runs, NoJenkinsRun, Rows, NoRow, Terminal, Triggers, TriggerActive,
         Calls, CallActive, Unsent, Requests, ClientActive, IdleRequest
<1>2. \A b \in Builds : RowOK(b, NoRow)
  BY DEF RowOK, NoRow, IsReuse
<1>3. ASSUME NEW b \in Builds
      PROVE  /\ RunOK(jenkins[b]) /\ QueueOK(b)
             /\ RowOK(b, db[b]) /\ RowOK(b, trig[b].row)
             /\ \A i \in 1..Attempts : HandlerOK(b, call[b][i])
  <2>1. RunOK(jenkins[b]) /\ QueueOK(b)
    BY DEF Init, RunOK, QueueOK, NoJenkinsRun
  <2>2. RowOK(b, db[b]) /\ RowOK(b, trig[b].row)
    BY <1>2 DEF Init
  <2>3. \A i \in 1..Attempts : HandlerOK(b, call[b][i])
    BY <1>2 DEF Init, HandlerOK, Unsent
  <2> QED BY <2>1, <2>2, <2>3
<1>4. \A c \in Clients : RequestOK(client[c])
  <2>1. IdleRequest.build \in Builds /\ IdleRequest.row = NoRow /\ IdleRequest.pc = "idle"
    BY DEF IdleRequest
  <2> QED BY <1>2, <2>1 DEF Init, RequestOK, Refreshing
<1>5. \A s \in Shas : NativeOK(s)
  BY DEF Init, NativeOK
<1> QED BY <1>1, <1>3, <1>4, <1>5 DEF IInv, Init, AcceptedMeansDone

\* What the assignments to one element of a table or of a handler do.
LEMMA SetRunEffect ==
  ASSUME TypeOK, NEW b \in Builds, NEW q \in Runs, SetRun(b, q)
  PROVE  /\ jenkins' \in [Builds -> Runs]
         /\ jenkins'[b] = q /\ \A d \in Builds \ {b} : jenkins'[d] = jenkins[d]
BY DEF TypeOK, SetRun

\* save_build writes the whole row of one build.
LEMMA StoreRowEffect ==
  ASSUME TypeOK, NEW b \in Builds, NEW row \in Rows, StoreRow(b, row)
  PROVE  /\ db' \in [Builds -> Rows]
         /\ db'[b] = row /\ \A d \in Builds \ {b} : db'[d] = db[d]
BY DEF TypeOK, StoreRow

\* One trigger moves.
LEMMA SetTriggerEffect ==
  ASSUME TypeOK, NEW b \in Builds, NEW pc \in {"idle", "done"} \cup TriggerActive,
         NEW row \in Rows, SetTrigger(b, pc, row)
  PROVE  /\ trig' \in [Builds -> Triggers]
         /\ trig'[b].pc = pc /\ trig'[b].row = row
         /\ \A d \in Builds \ {b} : trig'[d] = trig[d]
BY DEF TypeOK, SetTrigger, Triggers

\* One attempt's handler moves, those of other attempts do not.
LEMMA SetCallEffect ==
  ASSUME TypeOK, NEW b \in Builds, NEW i \in 1..Attempts, NEW handler \in Calls,
         SetCall(b, i, handler)
  PROVE  /\ call' \in [Builds -> [1..Attempts -> Calls]]
         /\ call'[b][i] = handler
         /\ \A d \in Builds, j \in 1..Attempts : d # b \/ j # i => call'[d][j] = call[d][j]
<1>1. call[b] \in [1..Attempts -> Calls]
  BY DEF TypeOK
<1>2. call' = [call EXCEPT ![b] = [call[b] EXCEPT ![i] = handler]]
  BY DEF SetCall
<1>3. [call[b] EXCEPT ![i] = handler] \in [1..Attempts -> Calls]
  BY <1>1
<1> QED BY <1>1, <1>2, <1>3 DEF TypeOK

\* One client's request moves.
LEMMA SetClientEffect ==
  ASSUME TypeOK, NEW c \in Clients, NEW request \in Requests, SetClient(c, request)
  PROVE  /\ client' \in [Clients -> Requests]
         /\ client'[c] = request /\ \A d \in Clients \ {c} : client'[d] = client[d]
BY DEF TypeOK, SetClient

\* One commit's status is published.
LEMMA SetNativeEffect ==
  ASSUME TypeOK, NEW b \in Builds, NEW state \in {"pending", "success", "failure"},
         SetNative(b, state)
  PROVE  /\ native' \in [Shas -> {"none", "pending", "success", "failure"}]
         /\ native'[ShaOf[b]] = state /\ \A s \in Shas \ {ShaOf[b]} : native'[s] = native[s]
BY DEF TypeOK, SetNative

\* One queue item is stored.
LEMMA SetQueueEffect ==
  ASSUME TypeOK, NEW b \in Builds,
         NEW state \in {"queued", "started", "reused", "cancelled", "failed"}, SetQueue(b, state)
  PROVE  queue' \in [Builds -> {"absent", "queued", "started", "reused", "cancelled", "failed"}]
BY DEF TypeOK, SetQueue

\* A fault stays within its bound.
LEMMA SpendEffect ==
  ASSUME TypeOK, Spend
  PROVE  faults' \in 0..MaxFaults /\ crashes' \in 0..MaxCrashes /\ cancels' \in 0..MaxCancels
<1>1. faults' \in 0..MaxFaults
  BY DEF TypeOK, Spend
<1> QED BY <1>1 DEF TypeOK, Spend

-----------------------------------------------------------------------------
(* Rows.                                                                   *)

\* The rows a handler starts with.
LEMMA FreshRows == NoRow \in Rows /\ NewRow \in Rows
BY DEF Rows, NoRow, NewRow

\* The updates the handlers make to their copy of a row keep its type.
LEMMA RowTypes ==
  ASSUME NEW row \in Rows
  PROVE  /\ \A status \in {"queued", "running"} \cup Terminal :
              /\ [row EXCEPT !.status = status] \in Rows
              /\ [row EXCEPT !.number = TRUE, !.status = status] \in Rows
         /\ \A required \in BOOLEAN : \A outcome : Attached(row, required, outcome) \in Rows
BY DEF Rows, Terminal, Attached

\* The copy of no row, and that of a row just queued, claim nothing.
LEMMA FreshRowsOK ==
  ASSUME NEW b \in Builds
  PROVE  RowOK(b, NoRow) /\ RowOK(b, NewRow)
BY DEF RowOK, IsReuse, NoRow, NewRow

\* Once the pipeline is over, its verdict may be stored: a run that is over
\* was triggered, so the row is not a reused one.
LEMMA VerdictRowOK ==
  ASSUME TypeOK, NEW b \in Builds, NEW row \in Rows, RowOK(b, row), Over(b)
  PROVE  /\ CallbackStatus(b) \in {"passed", "failed"}
         /\ RowOK(b, [row EXCEPT !.status = CallbackStatus(b)])
<1>1. jenkins[b] \in Runs
  BY DEF TypeOK
<1> QED BY <1>1 DEF RowOK, IsReuse, Rows, Over, OverPhases, Untriggered, CallbackStatus, Passed,
                    Runs

\* Attaching the review log never makes a row passed or cancelled.
LEMMA AttachedRowOK ==
  ASSUME NEW b \in Builds, NEW row \in Rows, RowOK(b, row), NEW required \in BOOLEAN, NEW outcome
  PROVE  RowOK(b, Attached(row, required, outcome))
BY DEF RowOK, IsReuse, Rows, Attached, Terminal

\* What a refresh makes of a row that is not reused.
LEMMA RefreshedRowOK ==
  ASSUME TypeOK, NEW b \in Builds, RunOK(jenkins[b]),
         NEW row \in Rows, RowOK(b, row), ~IsReuse(row)
  PROVE  /\ ~IsReuse([row EXCEPT !.status = "running"])
         /\ ~IsReuse([row EXCEPT !.number = TRUE, !.status = "running"])
         /\ RowOK(b, [row EXCEPT !.status = "running"])
         /\ RowOK(b, [row EXCEPT !.number = TRUE, !.status = "running"])
         /\ jenkins[b].phase = "done" => RowOK(b, [row EXCEPT !.status = ResultStatus(b)])
<1>1. jenkins[b] \in Runs
  BY DEF TypeOK
<1>2. jenkins[b].phase = "done" => RowOK(b, [row EXCEPT !.status = ResultStatus(b)])
  BY <1>1 DEF RowOK, IsReuse, Rows, ResultStatus, Runs, RunOK, Passed, Over, OverPhases, Aborted
<1> QED BY <1>2 DEF RowOK, IsReuse, Rows

\* A row of a build somebody asked to cancel may be marked cancelled.
LEMMA CancelledRowOK ==
  ASSUME NEW b \in Builds, NEW row \in Rows, RowOK(b, row), b \in asked
  PROVE  RowOK(b, [row EXCEPT !.status = "cancelled"])
BY DEF RowOK, IsReuse, Rows, Terminal

-----------------------------------------------------------------------------
(* The callback handler.                                                   *)

\* A step that leaves Jenkins and the triggers alone only has to answer for
\* what it does change.
LEMMA QuietGrows ==
  ASSUME IInv, UNCHANGED <<jenkins, trig>>,
         asked \subseteq asked', published \subseteq published', recorded \subseteq recorded'
  PROVE  /\ Grows
         /\ \A b \in Builds : /\ RunOK(jenkins[b])' /\ QueueOK(b)'
                              /\ trig'[b].row = trig[b].row
<1>1. Grows
  BY DEF Grows, Over, Untriggered
<1>2. ASSUME NEW b \in Builds
      PROVE  RunOK(jenkins[b])' /\ QueueOK(b)' /\ trig'[b].row = trig[b].row
  <2>1. RunOK(jenkins[b]) /\ QueueOK(b)
    BY DEF IInv
  <2> QED BY <2>1 DEF RunOK, QueueOK
<1> QED BY <1>1, <1>2

\* So a step of one handler is good if the handler, the row it stores and the
\* status it publishes are.
LEMMA CallGood ==
  ASSUME IInv, NEW b \in Builds, NEW i \in 1..Attempts, NEW handler \in Calls,
         SetCall(b, i, handler), HandlerOK(b, handler)', TypeOK',
         UNCHANGED <<jenkins, trig, client, asked>>,
         published \subseteq published', recorded \subseteq recorded', AcceptedMeansDone',
         \A d \in Builds : db'[d] = db[d] \/ RowOK(d, db[d])',
         \A s \in Shas : native'[s] \in {native[s], "pending", "failure"} \/ NativeOK(s)'
  PROVE  Good
<1>1. Grows /\ \A d \in Builds : /\ RunOK(jenkins[d])' /\ QueueOK(d)'
                                 /\ trig'[d].row = trig[d].row
  BY QuietGrows
<1>2. ASSUME NEW d \in Builds, NEW j \in 1..Attempts
      PROVE  call'[d][j] = call[d][j] \/ HandlerOK(d, call[d][j])'
  <2>1. CASE d = b /\ j = i
    <3>1. call'[d][j] = handler
      BY <2>1, SetCallEffect DEF IInv
    <3> QED BY <2>1, <3>1 DEF HandlerOK, RowOK
  <2>2. CASE d # b \/ j # i
    BY <2>2, SetCallEffect DEF IInv
  <2> QED BY <2>1, <2>2
<1> QED BY <1>1, <1>2 DEF Good

\* The end of a handler: an answer that was given stays.
LEMMA HandlerEnds ==
  ASSUME NEW h \in Calls, NEW reply \in {"ok", "error"}
  PROVE  /\ LET q == Ended(reply) IN
              q \in Calls /\ q.pc = "done" /\ q.row = NoRow /\ q.reply = reply
         /\ LET q == Failed(h) IN
              q \in Calls /\ q.pc = "done" /\ q.row = NoRow /\ (q.reply = "ok" => h.reply = "ok")
BY FreshRows DEF Calls, Ended, Failed

\* What is known of the handler that moves, and of the row it may read.
LEMMA HandlerBefore ==
  ASSUME IInv, Grows, NEW b \in Builds, NEW i \in 1..Attempts
  PROVE  /\ \E h \in Calls : h = call[b][i] /\ HandlerOK(b, h) /\ HandlerOK(b, h)'
         /\ \E row \in Rows : row = db[b] /\ RowOK(b, row) /\ RowOK(b, row)'
         /\ RowOK(b, NoRow)'
<1>0. TypeOK /\ HandlerOK(b, call[b][i]) /\ RowOK(b, db[b])
  BY DEF IInv
<1>1. PICK h \in Calls : h = call[b][i]
  BY <1>0 DEF TypeOK
<1>2. PICK row \in Rows : row = db[b]
  BY <1>0 DEF TypeOK
<1>3. HandlerOK(b, h) /\ RowOK(b, row)
  BY <1>0, <1>1, <1>2
<1>4. HandlerOK(b, h)' /\ RowOK(b, row)' /\ RowOK(b, NoRow)'
  BY <1>3, HandlerKept, RowKept, FreshRowsOK
<1> QED BY <1>1, <1>2, <1>3, <1>4

\* Reading the row, or answering 404.
LEMMA CallGetGood ==
  ASSUME IInv, NEW b \in Builds, NEW i \in 1..Attempts, CallGet(b, i)
  PROVE  Good
<1>0. TypeOK /\ AcceptedMeansDone /\ NoRow \in Rows
  BY FreshRows DEF IInv
<1>1. Grows
  BY QuietGrows DEF CallGet, historyVars
<1>2. RowOK(b, NoRow)'
  BY <1>1, HandlerBefore
<1>3. PICK h \in Calls : h = call[b][i] /\ HandlerOK(b, h)'
  BY <1>1, HandlerBefore
<1>4. PICK row \in Rows : row = db[b] /\ RowOK(b, row)'
  BY <1>1, HandlerBefore
<1>5. PICK handler \in Calls :
        /\ SetCall(b, i, handler)
        /\ \/ /\ handler.pc = "done" /\ handler.row = NoRow
              /\ handler.reply = "ok" => h.reply = "ok"
           \/ handler.pc = "dup" /\ handler.row = row /\ handler.reply = h.reply
  <2> DEFINE q == [h EXCEPT !.pc = "dup", !.row = row]
  <2>1. q \in Calls /\ q.pc = "dup" /\ q.row = row /\ q.reply = h.reply
    BY DEF Calls, CallActive
  <2>2. SetCall(b, i, q) \/ SetCall(b, i, Failed(h))
    BY <1>3, <1>4 DEF CallGet
  <2> QED BY <2>1, <2>2, HandlerEnds
<1>6. h.pc = "get"
  BY <1>3 DEF CallGet
<1>7. HandlerOK(b, handler)'
  BY <1>2, <1>3, <1>4, <1>5, <1>6 DEF HandlerOK, RowOK
<1>8. TypeOK'
  BY <1>0, <1>5, SetCallEffect DEF TypeOK, CallGet, budgetVars, historyVars
<1> QED BY <1>0, <1>5, <1>7, <1>8, CallGood DEF CallGet, historyVars, AcceptedMeansDone

\* A handler may go on to the review once its build is recorded.
LEMMA ToReviewOK ==
  ASSUME NEW b \in Builds, NEW i \in 1..Attempts, NEW from, ToReview(b, i, from),
         NEW h \in Calls, h = call[b][i], HandlerOK(b, h)', from # "unsent", b \in recorded'
  PROVE  \E handler \in Calls : SetCall(b, i, handler) /\ HandlerOK(b, handler)'
<1> DEFINE answer == IF b \in PullRequests THEN "ok" ELSE h.reply
           q == [h EXCEPT !.pc = "attachGet", !.reply = answer]
<1>1. SetCall(b, i, q) /\ h.pc = from
  BY DEF ToReview
<1>2. answer \in {"none", "ok", "error"}
  BY DEF Calls
<1> HIDE DEF answer
<1>3. q \in Calls /\ q.pc = "attachGet" /\ q.row = h.row
  BY <1>2 DEF Calls, CallActive
<1> HIDE DEF q
<1>4. HandlerOK(b, q)'
  BY <1>1, <1>3 DEF HandlerOK, RowOK
<1> QED BY <1>1, <1>3, <1>4

\* The test for a delivery that is recorded already.
LEMMA CallCheckDuplicateGood ==
  ASSUME IInv, NEW b \in Builds, NEW i \in 1..Attempts, CallCheckDuplicate(b, i)
  PROVE  Good
<1>0. TypeOK /\ AcceptedMeansDone
  BY DEF IInv
<1>1. Grows
  BY QuietGrows DEF CallCheckDuplicate, historyVars
<1>2. PICK h \in Calls : h = call[b][i] /\ HandlerOK(b, h)'
  BY <1>1, HandlerBefore
<1>3. PICK handler \in Calls : SetCall(b, i, handler) /\ HandlerOK(b, handler)'
  <2>1. CASE b \in recorded /\ ToReview(b, i, "dup")
    <3>1. ToReview(b, i, "dup") /\ b \in recorded'
      BY <2>1 DEF CallCheckDuplicate
    <3> QED BY <1>2, <3>1, ToReviewOK
  <2>2. CASE CallStep(b, i, "dup", "save")
    <3> DEFINE q == [h EXCEPT !.pc = "save"]
    <3>1. SetCall(b, i, q) /\ h.pc = "dup"
      BY <1>2, <2>2 DEF CallStep
    <3>2. q \in Calls /\ q.pc = "save" /\ q.row = h.row /\ q.reply = h.reply
      BY DEF Calls, CallActive
    <3> HIDE DEF q
    <3>3. HandlerOK(b, q)'
      BY <1>2, <3>1, <3>2 DEF HandlerOK, RowOK
    <3> QED BY <3>1, <3>2, <3>3
  <2> QED BY <2>1, <2>2 DEF CallCheckDuplicate
<1>4. TypeOK'
  BY <1>0, <1>3, SetCallEffect DEF TypeOK, CallCheckDuplicate, budgetVars, historyVars
<1> QED BY <1>0, <1>3, <1>4, CallGood DEF CallCheckDuplicate, historyVars, AcceptedMeansDone

\* Storing the verdict.
LEMMA CallSaveGood ==
  ASSUME IInv, NEW b \in Builds, NEW i \in 1..Attempts, CallSave(b, i)
  PROVE  Good
<1>0. TypeOK /\ AcceptedMeansDone /\ NoRow \in Rows
  BY FreshRows DEF IInv
<1>1. Grows
  BY QuietGrows DEF CallSave, historyVars
<1>2. RowOK(b, NoRow)'
  BY <1>1, HandlerBefore
<1>3. PICK h \in Calls : h = call[b][i] /\ HandlerOK(b, h) /\ HandlerOK(b, h)'
  BY <1>1, HandlerBefore
<1>4. PICK row \in Rows : StoreRow(b, row) /\ RowOK(b, row)
  <2> DEFINE row == [h.row EXCEPT !.status = CallbackStatus(b)]
  <2>1. h.row \in Rows /\ RowOK(b, h.row) /\ Over(b)
    BY <1>3 DEF Calls, HandlerOK, CallSave
  <2>2. CallbackStatus(b) \in {"passed", "failed"} /\ RowOK(b, row)
    BY <1>0, <2>1, VerdictRowOK
  <2>3. row \in Rows
    BY <2>1, <2>2, RowTypes DEF Terminal
  <2> QED BY <1>3, <2>2, <2>3 DEF CallSave
<1>5. \A d \in Builds : db'[d] = db[d] \/ RowOK(d, db[d])'
  <2>1. RowOK(b, row)' /\ db'[b] = row
    BY <1>0, <1>1, <1>4, RowKept, StoreRowEffect
  <2>2. RowOK(b, db[b])'
    BY <2>1 DEF RowOK
  <2> QED BY <1>0, <1>4, <2>2, StoreRowEffect
<1>6. PICK handler \in Calls : SetCall(b, i, handler) /\ HandlerOK(b, handler)'
  <2> DEFINE q == [h EXCEPT !.pc = "publish", !.row = NoRow]
  <2>1. SetCall(b, i, q) /\ h.pc = "save"
    BY <1>3 DEF CallSave
  <2>2. q \in Calls /\ q.pc = "publish" /\ q.row = NoRow /\ q.reply = h.reply
    BY <1>0 DEF Calls, CallActive
  <2> HIDE DEF q
  <2>3. HandlerOK(b, q)'
    BY <1>2, <1>3, <2>1, <2>2 DEF HandlerOK, RowOK
  <2> QED BY <2>1, <2>2, <2>3
<1>7. TypeOK'
  BY <1>0, <1>4, <1>6, SetCallEffect, StoreRowEffect
  DEF TypeOK, CallSave, budgetVars, historyVars
<1> QED BY <1>0, <1>5, <1>6, <1>7, CallGood DEF CallSave, historyVars, AcceptedMeansDone

\* Publishing the verdict: a success only of a pipeline that passed.
LEMMA CallPublishGood ==
  ASSUME IInv, NEW b \in Builds, NEW i \in 1..Attempts, CallPublish(b, i)
  PROVE  Good
<1>0. TypeOK /\ AcceptedMeansDone /\ published \subseteq published' /\ b \in published'
  BY DEF IInv, CallPublish
<1>1. Grows
  BY <1>0, QuietGrows DEF CallPublish
<1>2. PICK h \in Calls : h = call[b][i] /\ HandlerOK(b, h) /\ HandlerOK(b, h)'
  BY <1>1, HandlerBefore
<1>3. PICK handler \in Calls : SetCall(b, i, handler) /\ HandlerOK(b, handler)'
  <2> DEFINE q == [h EXCEPT !.pc = "record"]
  <2>1. SetCall(b, i, q) /\ h.pc = "publish"
    BY <1>2 DEF CallPublish, CallStep
  <2>2. q \in Calls /\ q.pc = "record" /\ q.row = h.row /\ q.reply = h.reply
    BY DEF Calls, CallActive
  <2> HIDE DEF q
  <2>3. HandlerOK(b, q)'
    BY <1>0, <1>2, <2>1, <2>2 DEF HandlerOK, RowOK
  <2> QED BY <2>1, <2>2, <2>3
<1>4. PICK state \in {"success", "failure"} :
        SetNative(b, state) /\ (state = "success" => CallbackStatus(b) = "passed")
  BY DEF CallPublish
<1>5. state = "success" => Passed(b)
  <2>1. Over(b)
    BY <1>2 DEF HandlerOK, CallPublish, CallStep
  <2> QED BY <1>4, <2>1 DEF CallbackStatus, Passed
<1>6. ASSUME NEW s \in Shas
      PROVE  native'[s] \in {native[s], "pending", "failure"} \/ NativeOK(s)'
  <2>1. Passed(b) => Passed(b)'
    BY <1>1 DEF Grows, Passed
  <2>2. CASE s = ShaOf[b]
    BY <1>0, <1>4, <1>5, <2>1, <2>2, SetNativeEffect DEF NativeOK
  <2>3. CASE s # ShaOf[b]
    BY <1>0, <1>4, <2>3, SetNativeEffect
  <2> QED BY <2>2, <2>3
<1>7. TypeOK'
  BY <1>0, <1>3, <1>4, SetCallEffect, SetNativeEffect DEF TypeOK, CallPublish, budgetVars
<1> QED BY <1>0, <1>3, <1>6, <1>7, CallGood DEF CallPublish, AcceptedMeansDone

\* Recording the delivery, which the handler does only after publishing.
LEMMA CallRecordGood ==
  ASSUME IInv, NEW b \in Builds, NEW i \in 1..Attempts, CallRecord(b, i)
  PROVE  Good
<1>0. TypeOK /\ AcceptedMeansDone /\ recorded \subseteq recorded' /\ b \in recorded'
  BY DEF IInv, CallRecord
<1>1. Grows
  BY <1>0, QuietGrows DEF CallRecord, historyVars
<1>2. PICK h \in Calls : h = call[b][i] /\ HandlerOK(b, h) /\ HandlerOK(b, h)'
  BY <1>1, HandlerBefore
<1>3. h.pc = "record"
  BY <1>2 DEF CallRecord, ToReview, CallStep
<1>4. PICK handler \in Calls : SetCall(b, i, handler) /\ HandlerOK(b, handler)'
  <2>1. CASE b \in recorded
    <3>1. ToReview(b, i, "record")
      BY <2>1 DEF CallRecord
    <3> QED BY <1>0, <1>2, <3>1, ToReviewOK
  <2>2. CASE b \notin recorded
    <3> DEFINE q == [h EXCEPT !.pc = "queue"]
    <3>1. SetCall(b, i, q)
      BY <1>2, <2>2 DEF CallRecord, CallStep
    <3>2. q \in Calls /\ q.pc = "queue" /\ q.row = h.row /\ q.reply = h.reply
      BY DEF Calls, CallActive
    <3> HIDE DEF q
    <3>3. HandlerOK(b, q)'
      BY <1>0, <1>2, <1>3, <3>2 DEF HandlerOK, RowOK
    <3> QED BY <3>1, <3>2, <3>3
  <2> QED BY <2>1, <2>2
<1>5. AcceptedMeansDone'
  <2>1. b \in published
    BY <1>2, <1>3 DEF HandlerOK
  <2> QED BY <1>0, <2>1 DEF AcceptedMeansDone, CallRecord, historyVars
<1>6. TypeOK'
  BY <1>0, <1>4, SetCallEffect DEF TypeOK, CallRecord, budgetVars, historyVars
<1> QED BY <1>0, <1>4, <1>5, <1>6, CallGood DEF CallRecord, historyVars

\* Updating the queue item.
LEMMA CallQueueGood ==
  ASSUME IInv, NEW b \in Builds, NEW i \in 1..Attempts, CallQueue(b, i)
  PROVE  Good
<1>0. TypeOK /\ AcceptedMeansDone
  BY DEF IInv
<1>1. Grows
  BY QuietGrows DEF CallQueue, historyVars
<1>2. PICK h \in Calls : h = call[b][i] /\ HandlerOK(b, h)'
  BY <1>1, HandlerBefore
<1>3. b \in recorded'
  BY <1>2 DEF HandlerOK, CallQueue, ToReview
<1>4. PICK handler \in Calls : SetCall(b, i, handler) /\ HandlerOK(b, handler)'
  BY <1>2, <1>3, ToReviewOK DEF CallQueue
<1>5. PICK state \in {"cancelled", "failed", "started"} : SetQueue(b, state)
  BY DEF CallQueue, QueueStateFor
<1>6. TypeOK'
  BY <1>0, <1>4, <1>5, SetCallEffect, SetQueueEffect
  DEF TypeOK, CallQueue, budgetVars, historyVars
<1> QED BY <1>0, <1>4, <1>6, CallGood DEF CallQueue, historyVars, AcceptedMeansDone

\* Reading the row for the review log, or ending without it.
LEMMA CallAttachGetGood ==
  ASSUME IInv, NEW b \in Builds, NEW i \in 1..Attempts, CallAttachGet(b, i)
  PROVE  Good
<1>0. TypeOK /\ AcceptedMeansDone
  BY DEF IInv
<1>1. Grows
  BY QuietGrows DEF CallAttachGet, historyVars
<1>2. RowOK(b, NoRow)'
  BY <1>1, HandlerBefore
<1>3. PICK h \in Calls : h = call[b][i] /\ HandlerOK(b, h)'
  BY <1>1, HandlerBefore
<1>4. PICK row \in Rows : row = db[b] /\ RowOK(b, row)'
  BY <1>1, HandlerBefore
<1>5. PICK handler \in Calls :
        /\ SetCall(b, i, handler)
        /\ \/ handler.pc = "done" /\ handler.row = NoRow
           \/ handler.pc = "attachSave" /\ handler.row = row
  <2> DEFINE q == [h EXCEPT !.pc = "attachSave", !.row = row]
  <2>1. q \in Calls /\ q.pc = "attachSave" /\ q.row = row
    BY DEF Calls, CallActive
  <2>2. SetCall(b, i, q) \/ SetCall(b, i, Ended("ok"))
    BY <1>3, <1>4 DEF CallAttachGet
  <2> QED BY <2>1, <2>2, HandlerEnds
<1>6. h.pc = "attachGet"
  BY <1>3 DEF CallAttachGet
<1>7. HandlerOK(b, handler)'
  BY <1>2, <1>3, <1>4, <1>5, <1>6 DEF HandlerOK, RowOK
<1>8. TypeOK'
  BY <1>0, <1>5, SetCallEffect DEF TypeOK, CallAttachGet, budgetVars, historyVars
<1> QED BY <1>0, <1>5, <1>7, <1>8, CallGood DEF CallAttachGet, historyVars, AcceptedMeansDone

\* Storing the row with the review log.
LEMMA CallAttachSaveGood ==
  ASSUME IInv, NEW b \in Builds, NEW i \in 1..Attempts, CallAttachSave(b, i)
  PROVE  Good
<1>0. TypeOK /\ AcceptedMeansDone
  BY DEF IInv
<1>1. Grows
  BY QuietGrows DEF CallAttachSave
<1>2. RowOK(b, NoRow)'
  BY <1>1, HandlerBefore
<1>3. PICK h \in Calls : h = call[b][i] /\ HandlerOK(b, h) /\ HandlerOK(b, h)'
  BY <1>1, HandlerBefore
<1>4. PICK row \in Rows : StoreRow(b, row) /\ RowOK(b, row)
  <2>1. h.row \in Rows /\ RowOK(b, h.row)
    BY <1>3 DEF Calls, HandlerOK
  <2>2. PICK outcome \in ReviewOutcomes(b) :
          StoreRow(b, Attached(h.row, b \in PullRequests, outcome))
    BY <1>3 DEF CallAttachSave
  <2>3. (b \in PullRequests) \in BOOLEAN
    OBVIOUS
  <2>4. RowOK(b, Attached(h.row, b \in PullRequests, outcome))
    BY <2>1, <2>3, AttachedRowOK
  <2>5. Attached(h.row, b \in PullRequests, outcome) \in Rows
    BY <2>1, <2>3, RowTypes
  <2> QED BY <2>2, <2>4, <2>5
<1>5. \A d \in Builds : db'[d] = db[d] \/ RowOK(d, db[d])'
  <2>1. RowOK(b, row)' /\ db'[b] = row
    BY <1>0, <1>1, <1>4, RowKept, StoreRowEffect
  <2>2. RowOK(b, db[b])'
    BY <2>1 DEF RowOK
  <2> QED BY <1>0, <1>4, <2>2, StoreRowEffect
<1>6. PICK handler \in Calls : SetCall(b, i, handler) /\ handler.pc = "done" /\ handler.row = NoRow
  BY HandlerEnds, <1>3 DEF CallAttachSave
<1>7. HandlerOK(b, handler)'
  BY <1>2, <1>3, <1>6 DEF HandlerOK, RowOK, CallAttachSave
<1>8. TypeOK'
  <2>1. attached' \in SUBSET Builds
    BY <1>0 DEF TypeOK, CallAttachSave
  <2> QED BY <1>0, <1>4, <1>6, <2>1, SetCallEffect, StoreRowEffect
      DEF TypeOK, CallAttachSave, budgetVars
<1> QED BY <1>0, <1>5, <1>6, <1>7, <1>8, CallGood DEF CallAttachSave, AcceptedMeansDone

\* An await that raises.
LEMMA CallRaisesGood ==
  ASSUME IInv, NEW b \in Builds, NEW i \in 1..Attempts, CallRaises(b, i)
  PROVE  Good
<1>0. TypeOK /\ AcceptedMeansDone
  BY DEF IInv
<1>1. Grows
  BY QuietGrows DEF CallRaises, historyVars
<1>2. RowOK(b, NoRow)'
  BY <1>1, HandlerBefore
<1>3. PICK h \in Calls : h = call[b][i] /\ HandlerOK(b, h)'
  BY <1>1, HandlerBefore
<1>4. PICK handler \in Calls :
        /\ SetCall(b, i, handler) /\ handler.pc = "done" /\ handler.row = NoRow
        /\ handler.reply = "ok" => h.reply = "ok"
  BY <1>3, HandlerEnds DEF CallRaises
<1>5. HandlerOK(b, handler)'
  BY <1>2, <1>3, <1>4 DEF HandlerOK, RowOK, CallRaises, CallActive
<1>6. TypeOK'
  BY <1>0, <1>4, SetCallEffect, SpendEffect DEF TypeOK, CallRaises, historyVars
<1> QED BY <1>0, <1>4, <1>5, <1>6, CallGood DEF CallRaises, historyVars, AcceptedMeansDone

-----------------------------------------------------------------------------
(* Clients.                                                                *)

\* A step of one client is good if its request and the row it stores are.
LEMMA ClientGood ==
  ASSUME IInv, Grows, TypeOK', AcceptedMeansDone', UNCHANGED <<trig, call, native>>,
         \A b \in Builds : RunOK(jenkins[b])' /\ QueueOK(b)',
         NEW c \in Clients, NEW request \in Requests, SetClient(c, request), RequestOK(request)',
         \A d \in Builds : db'[d] = db[d] \/ RowOK(d, db[d])'
  PROVE  Good
<1>1. ASSUME NEW e \in Clients PROVE client'[e] = client[e] \/ RequestOK(client[e])'
  <2>1. CASE e = c
    <3>1. client'[e] = request
      BY <2>1, SetClientEffect DEF IInv
    <3> QED BY <3>1 DEF RequestOK, RowOK, Untriggered, Passed, Over, Aborted
  <2>2. CASE e # c
    BY <2>2, SetClientEffect DEF IInv
  <2> QED BY <2>1, <2>2
<1> QED BY <1>1 DEF Good

\* What is known of the request that moves, and of the row it may read.
LEMMA RequestBefore ==
  ASSUME IInv, Grows, NEW c \in Clients
  PROVE  \E r \in Requests :
           /\ r = client[c] /\ r.build \in Builds /\ r.row \in Rows
           /\ RequestOK(r) /\ RequestOK(r)'
           /\ RowOK(r.build, r.row) /\ RowOK(r.build, r.row)'
<1>0. TypeOK /\ RequestOK(client[c])
  BY DEF IInv
<1>1. PICK r \in Requests : r = client[c]
  BY <1>0 DEF TypeOK
<1>2. RequestOK(r) /\ RequestOK(r)'
  BY <1>0, <1>1, RequestKept
<1>3. r.build \in Builds /\ r.row \in Rows
  BY DEF Requests
<1> QED BY <1>1, <1>2, <1>3 DEF RequestOK

\* An idle request claims nothing.
LEMMA IdleRequestOK == IdleRequest \in Requests /\ RequestOK(IdleRequest) /\ RequestOK(IdleRequest)'
<1>1. /\ IdleRequest \in Requests /\ IdleRequest.pc = "idle" /\ IdleRequest.row = NoRow
  BY FreshRows DEF IdleRequest, Requests
<1> QED BY <1>1 DEF RequestOK, RowOK, Refreshing, NoRow, IsReuse

\* A request that goes on within the refresh.
LEMMA ClientGotoOK ==
  ASSUME NEW c \in Clients, NEW r \in Requests, r = client[c], r.pc # "idle", RequestOK(r)',
         NEW row \in Rows, RowOK(r.build, row)',
         NEW pc \in ClientActive \ {"get", "stop"}, ClientGoto(c, pc, row),
         pc \in Refreshing => ~IsReuse(row),
         pc = "resultRead" => jenkins'[r.build].phase = "done"
  PROVE  \E request \in Requests : SetClient(c, request) /\ RequestOK(request)'
<1> DEFINE q == [r EXCEPT !.pc = pc, !.row = row]
<1>1. SetClient(c, q)
  BY DEF ClientGoto
<1>2. q \in Requests /\ q.pc = pc /\ q.row = row /\ q.build = r.build /\ q.op = r.op
  BY DEF Requests
<1> HIDE DEF q
<1>3. RequestOK(q)'
  BY <1>2 DEF RequestOK, RowOK, Untriggered, Passed, Over, Aborted
<1> QED BY <1>1, <1>2, <1>3

\* The end of a refresh.
LEMMA RefreshedOK ==
  ASSUME NEW c \in Clients, NEW r \in Requests, r = client[c], r.pc # "idle", RequestOK(r)',
         NEW row \in Rows, RowOK(r.build, row)', Refreshed(c, row), TypeOK
  PROVE  /\ \E request \in Requests : SetClient(c, request) /\ RequestOK(request)'
         /\ blank' \in SUBSET Builds
<1>1. blank' \in SUBSET Builds
  BY DEF Refreshed, TypeOK, Requests
<1>2. CASE r.op = "cancel"
  <2> DEFINE q == [r EXCEPT !.pc = "stop", !.row = row]
  <2>1. SetClient(c, q)
    BY <1>2 DEF Refreshed
  <2>2. q \in Requests /\ q.pc = "stop" /\ q.row = row /\ q.build = r.build /\ q.op = r.op
    BY DEF Requests, ClientActive
  <2> HIDE DEF q
  <2>3. RequestOK(q)'
    BY <1>2, <2>2 DEF RequestOK, RowOK, Untriggered, Passed, Over, Aborted, Refreshing
  <2> QED BY <1>1, <2>1, <2>2, <2>3
<1>3. CASE r.op # "cancel"
  BY <1>1, <1>3, IdleRequestOK DEF Refreshed
<1> QED BY <1>2, <1>3

\* A request begins.
LEMMA ClientBeginsGood ==
  ASSUME IInv, NEW c \in Clients, NEW b \in Builds, NEW op \in {"read", "cancel"},
         ClientBegins(c, b, op)
  PROVE  Good
<1>0. TypeOK /\ AcceptedMeansDone /\ asked \subseteq asked' /\ (op = "cancel" => b \in asked')
  BY DEF IInv, ClientBegins
<1>1. Grows /\ \A d \in Builds : RunOK(jenkins[d])' /\ QueueOK(d)'
  BY <1>0, QuietGrows DEF ClientBegins
<1> DEFINE q == [pc |-> "get", op |-> op, build |-> b, row |-> NoRow]
<1>2. SetClient(c, q)
  BY DEF ClientBegins
<1>3. q \in Requests /\ q.pc = "get" /\ q.op = op /\ q.build = b /\ q.row = NoRow
  BY FreshRows DEF Requests, ClientActive
<1> HIDE DEF q
<1>4. RequestOK(q)'
  BY <1>0, <1>3 DEF RequestOK, RowOK, Refreshing, NoRow, IsReuse
<1>5. TypeOK'
  <2>1. cancels' \in 0..MaxCancels
    BY <1>0 DEF TypeOK, ClientBegins
  <2>2. asked' \in SUBSET Builds
    BY <1>0 DEF TypeOK, ClientBegins
  <2> QED BY <1>0, <1>2, <1>3, <2>1, <2>2, SetClientEffect DEF TypeOK, ClientBegins
<1> QED BY <1>0, <1>1, <1>2, <1>3, <1>4, <1>5, ClientGood DEF ClientBegins, AcceptedMeansDone

\* Steps of a refresh that only read.
LEMMA ClientLocalGood ==
  ASSUME IInv, ClientLocal, blank' \in SUBSET Builds, Grows,
         NEW c \in Clients, NEW request \in Requests, SetClient(c, request), RequestOK(request)'
  PROVE  Good
<1>0. TypeOK /\ AcceptedMeansDone
  BY DEF IInv
<1>1. \A d \in Builds : RunOK(jenkins[d])' /\ QueueOK(d)'
  BY QuietGrows DEF ClientLocal
<1>2. TypeOK'
  BY <1>0, SetClientEffect DEF TypeOK, ClientLocal, budgetVars
<1> QED BY <1>0, <1>1, <1>2, ClientGood DEF ClientLocal, AcceptedMeansDone

\* get_build and the first tests of _refresh_build: only rows that are not
\* terminal, hence not reused, are refreshed.
LEMMA ClientGetGood ==
  ASSUME IInv, NEW c \in Clients, ClientGet(c)
  PROVE  Good
<1>0. TypeOK
  BY DEF IInv
<1>1. Grows
  BY QuietGrows DEF ClientGet, ClientLocal
<1>2. PICK r \in Requests : r = client[c] /\ r.build \in Builds /\ RequestOK(r)'
  BY <1>1, RequestBefore
<1>3. PICK row \in Rows : row = db[r.build]
  BY <1>0, <1>2 DEF TypeOK
<1>4. RowOK(r.build, row) /\ RowOK(r.build, row)'
  BY <1>1, <1>2, <1>3, RowKept DEF IInv
<1>5. r.pc = "get"
  BY <1>2 DEF ClientGet
<1>6. /\ \E request \in Requests : SetClient(c, request) /\ RequestOK(request)'
      /\ blank' \in SUBSET Builds
  <2>1. CASE row = NoRow
    BY <1>0, <1>2, <1>3, <2>1, IdleRequestOK DEF ClientGet, TypeOK
  <2>2. CASE row # NoRow /\ row.status \in Terminal
    <3>1. Refreshed(c, row)
      BY <1>2, <1>3, <2>2 DEF ClientGet
    <3> QED BY <1>0, <1>2, <1>4, <1>5, <3>1, RefreshedOK
  <2>3. CASE row # NoRow /\ row.status \notin Terminal
    <3>1. PICK pc \in {"statusRead", "queueRead"} : ClientGoto(c, pc, row)
      BY <1>2, <1>3, <2>3 DEF ClientGet
    <3>2. ~IsReuse(row)
      BY <1>4, <2>3 DEF RowOK
    <3>3. pc \in ClientActive \ {"get", "stop"} /\ pc # "resultRead"
      BY <3>1 DEF ClientActive
    <3>4. \E request \in Requests : SetClient(c, request) /\ RequestOK(request)'
      BY <1>2, <1>4, <1>5, <3>1, <3>2, <3>3, ClientGotoOK
    <3> QED BY <1>0, <1>2, <1>3, <2>3, <3>4 DEF ClientGet, TypeOK
  <2> QED BY <2>1, <2>2, <2>3
<1> QED BY <1>1, <1>6, ClientLocalGood DEF ClientGet

\* The queue item tells cancelled only if somebody asked for it.
LEMMA ClientQueueReadGood ==
  ASSUME IInv, NEW c \in Clients, ClientQueueRead(c)
  PROVE  Good
<1>0. TypeOK
  BY DEF IInv
<1>1. Grows
  BY QuietGrows DEF ClientQueueRead, ClientLocal
<1>2. PICK r \in Requests :
        /\ r = client[c] /\ r.build \in Builds /\ r.row \in Rows /\ RequestOK(r) /\ RequestOK(r)'
        /\ RowOK(r.build, r.row) /\ RowOK(r.build, r.row)'
  BY <1>1, RequestBefore
<1>3. PICK row \in Rows : row = r.row
  BY <1>2
<1>4. r.pc = "queueRead" /\ ~IsReuse(row) /\ RowOK(r.build, row)
  BY <1>2, <1>3 DEF ClientQueueRead, RequestOK, Refreshing
<1>5. RowOK(r.build, row)'
  BY <1>1, <1>2, <1>4, RowKept
<1>6. /\ \E request \in Requests : SetClient(c, request) /\ RequestOK(request)'
      /\ blank' \in SUBSET Builds
  <2>1. CASE /\ jenkins[r.build].phase = "dropped"
             /\ ClientGoto(c, "saveFinal", [row EXCEPT !.status = "cancelled"])
             /\ UNCHANGED blank
    <3>1. r.build \in asked
      BY <1>2, <2>1 DEF IInv, QueueOK
    <3>2. PICK new \in Rows : new = [row EXCEPT !.status = "cancelled"]
      BY RowTypes DEF Terminal
    <3>3. RowOK(r.build, new)
      BY <1>2, <1>4, <3>1, <3>2, CancelledRowOK
    <3>4. RowOK(r.build, new)'
      BY <1>1, <1>2, <3>3, RowKept
    <3>5. ClientGoto(c, "saveFinal", new)
      BY <2>1, <3>2
    <3>6. "saveFinal" \in ClientActive \ {"get", "stop"} /\ "saveFinal" \notin Refreshing
      BY DEF ClientActive, Refreshing
    <3>7. \E request \in Requests : SetClient(c, request) /\ RequestOK(request)'
      BY <1>2, <1>4, <3>4, <3>5, <3>6, ClientGotoOK
    <3> QED BY <1>0, <2>1, <3>7 DEF TypeOK
  <2>2. CASE /\ ClientGoto(c, "saveNumber", [row EXCEPT !.number = TRUE, !.status = "running"])
             /\ UNCHANGED blank
    <3>2. PICK new \in Rows : new = [row EXCEPT !.number = TRUE, !.status = "running"]
      BY RowTypes
    <3>3. RowOK(r.build, new) /\ ~IsReuse(new)
      BY <1>0, <1>2, <1>4, <3>2, RefreshedRowOK DEF IInv
    <3>4. RowOK(r.build, new)'
      BY <1>1, <1>2, <3>3, RowKept
    <3>5. ClientGoto(c, "saveNumber", new)
      BY <2>2, <3>2
    <3>6. "saveNumber" \in ClientActive \ {"get", "stop"}
      BY DEF ClientActive
    <3>7. \E request \in Requests : SetClient(c, request) /\ RequestOK(request)'
      BY <1>2, <1>4, <3>3, <3>4, <3>5, <3>6, ClientGotoOK
    <3> QED BY <1>0, <2>2, <3>7 DEF TypeOK
  <2>3. CASE Refreshed(c, row)
    BY <1>0, <1>2, <1>4, <1>5, <2>3, RefreshedOK
  <2> QED BY <1>2, <1>3, <2>1, <2>2, <2>3 DEF ClientQueueRead
<1> QED BY <1>1, <1>6, ClientLocalGood DEF ClientQueueRead

\* The result is read only of a run that is done.
LEMMA ClientStatusReadGood ==
  ASSUME IInv, NEW c \in Clients, ClientStatusRead(c)
  PROVE  Good
<1>0. TypeOK
  BY DEF IInv
<1>1. Grows
  BY QuietGrows DEF ClientStatusRead, ClientLocal
<1>2. PICK r \in Requests :
        /\ r = client[c] /\ r.build \in Builds /\ r.row \in Rows /\ RequestOK(r) /\ RequestOK(r)'
        /\ RowOK(r.build, r.row) /\ RowOK(r.build, r.row)'
  BY <1>1, RequestBefore
<1>3. PICK row \in Rows : row = r.row
  BY <1>2
<1>4. r.pc = "statusRead" /\ ~IsReuse(row) /\ RowOK(r.build, row)
  BY <1>2, <1>3 DEF ClientStatusRead, RequestOK, Refreshing
<1>5. RowOK(r.build, row)'
  BY <1>1, <1>2, <1>4, RowKept
<1>6. /\ \E request \in Requests : SetClient(c, request) /\ RequestOK(request)'
      /\ blank' \in SUBSET Builds
  <2>1. CASE /\ ClientGoto(c, "saveRunning", [row EXCEPT !.status = "running"])
             /\ UNCHANGED blank
    <3>2. PICK new \in Rows : new = [row EXCEPT !.status = "running"]
      BY RowTypes
    <3>3. RowOK(r.build, new) /\ ~IsReuse(new)
      BY <1>0, <1>2, <1>4, <3>2, RefreshedRowOK DEF IInv
    <3>4. RowOK(r.build, new)'
      BY <1>1, <1>2, <3>3, RowKept
    <3>5. ClientGoto(c, "saveRunning", new)
      BY <2>1, <3>2
    <3>6. "saveRunning" \in ClientActive \ {"get", "stop"}
      BY DEF ClientActive
    <3>7. \E request \in Requests : SetClient(c, request) /\ RequestOK(request)'
      BY <1>2, <1>4, <3>3, <3>4, <3>5, <3>6, ClientGotoOK
    <3> QED BY <1>0, <2>1, <3>7 DEF TypeOK
  <2>2. CASE /\ jenkins[r.build].phase = "done" /\ ClientGoto(c, "resultRead", row)
             /\ UNCHANGED blank
    <3>1. "resultRead" \in ClientActive \ {"get", "stop"}
      BY DEF ClientActive
    <3>2. jenkins'[r.build].phase = "done"
      BY <2>2 DEF ClientStatusRead, ClientLocal
    <3>3. \E request \in Requests : SetClient(c, request) /\ RequestOK(request)'
      BY <1>2, <1>4, <1>5, <2>2, <3>1, <3>2, ClientGotoOK
    <3> QED BY <1>0, <2>2, <3>3 DEF TypeOK
  <2>3. CASE Refreshed(c, row)
    BY <1>0, <1>2, <1>4, <1>5, <2>3, RefreshedOK
  <2> QED BY <1>2, <1>3, <2>1, <2>2, <2>3 DEF ClientStatusRead
<1> QED BY <1>1, <1>6, ClientLocalGood DEF ClientStatusRead

\* Reading the result of a finished run.
LEMMA ClientResultReadGood ==
  ASSUME IInv, NEW c \in Clients, ClientResultRead(c)
  PROVE  Good
<1>0. TypeOK
  BY DEF IInv
<1>1. Grows
  BY QuietGrows DEF ClientResultRead, ClientLocal
<1>2. PICK r \in Requests :
        /\ r = client[c] /\ r.build \in Builds /\ r.row \in Rows /\ RequestOK(r) /\ RequestOK(r)'
        /\ RowOK(r.build, r.row) /\ RowOK(r.build, r.row)'
  BY <1>1, RequestBefore
<1>3. r.pc = "resultRead" /\ ~IsReuse(r.row) /\ jenkins[r.build].phase = "done"
  BY <1>2 DEF ClientResultRead, RequestOK, Refreshing
<1>4. PICK new \in Rows : new = [r.row EXCEPT !.status = ResultStatus(r.build)]
  <2>1. ResultStatus(r.build) \in Terminal
    BY <1>0, <1>2 DEF ResultStatus, TypeOK, Runs, Terminal
  <2> QED BY <1>2, <2>1, RowTypes
<1>5. RowOK(r.build, new)
  BY <1>0, <1>2, <1>3, <1>4, RefreshedRowOK DEF IInv
<1>6. RowOK(r.build, new)'
  BY <1>1, <1>2, <1>5, RowKept
<1>7. ClientGoto(c, "saveFinal", new)
  BY <1>2, <1>4 DEF ClientResultRead
<1>8. "saveFinal" \in ClientActive \ {"get", "stop"} /\ "saveFinal" \notin Refreshing
  BY DEF ClientActive, Refreshing
<1>9. \E request \in Requests : SetClient(c, request) /\ RequestOK(request)'
  BY <1>2, <1>3, <1>6, <1>7, <1>8, ClientGotoOK
<1> QED BY <1>0, <1>1, <1>9, ClientLocalGood DEF ClientResultRead, TypeOK

\* Steps of a refresh that store their copy of the row.
LEMMA ClientStoreGood ==
  ASSUME IInv, NEW c \in Clients, NEW r \in Requests, r = client[c], RequestOK(r),
         StoreRow(r.build, r.row), blank' \in SUBSET Builds, Grows,
         UNCHANGED <<jenkins, queue, recorded, native, trig, call, budgetVars,
                     published, accepted, attached, asked>>,
         NEW request \in Requests, SetClient(c, request), RequestOK(request)'
  PROVE  Good
<1>0. TypeOK /\ AcceptedMeansDone
  BY DEF IInv
<1>1. \A d \in Builds : RunOK(jenkins[d])' /\ QueueOK(d)'
  BY QuietGrows
<1>2. r.build \in Builds /\ r.row \in Rows
  BY DEF Requests
<1>3. \A d \in Builds : db'[d] = db[d] \/ RowOK(d, db[d])'
  <2>1. PICK b \in Builds : b = r.build
    BY <1>2
  <2>2. PICK row \in Rows : row = r.row
    BY <1>2
  <2>3. RowOK(b, row) /\ StoreRow(b, row)
    BY <2>1, <2>2 DEF RequestOK
  <2>4. RowOK(b, row)' /\ db'[b] = row
    BY <1>0, <2>3, RowKept, StoreRowEffect
  <2>5. RowOK(b, db[b])'
    BY <2>4 DEF RowOK
  <2> QED BY <1>0, <2>3, <2>5, StoreRowEffect
<1>4. TypeOK'
  BY <1>0, <1>2, SetClientEffect, StoreRowEffect DEF TypeOK, budgetVars
<1> QED BY <1>0, <1>1, <1>3, <1>4, ClientGood DEF AcceptedMeansDone

\* The three saves of _refresh_build and cancel_pipeline, however old the copy.
LEMMA ClientSaveGood ==
  ASSUME IInv, NEW c \in Clients,
         ClientSaveNumber(c) \/ ClientSaveRunning(c) \/ ClientSaveFinal(c)
  PROVE  Good
<1>0. TypeOK
  BY DEF IInv
<1>1. UNCHANGED <<jenkins, queue, recorded, native, trig, call, budgetVars,
                  published, accepted, attached, asked>>
  BY DEF ClientSaveNumber, ClientSaveRunning, ClientSaveFinal, historyVars
<1>2. Grows
  BY <1>1, QuietGrows
<1>3. PICK r \in Requests :
        /\ r = client[c] /\ r.build \in Builds /\ r.row \in Rows /\ RequestOK(r) /\ RequestOK(r)'
        /\ RowOK(r.build, r.row) /\ RowOK(r.build, r.row)'
  BY <1>2, RequestBefore
<1>4. StoreRow(r.build, r.row)
  BY <1>3 DEF ClientSaveNumber, ClientSaveRunning, ClientSaveFinal
<1>5. /\ \E request \in Requests : SetClient(c, request) /\ RequestOK(request)'
      /\ blank' \in SUBSET Builds
  <2>1. CASE ClientSaveNumber(c)
    <3>1. "queueStarted" \in ClientActive \ {"get", "stop"}
      BY DEF ClientActive
    <3>2. r.pc # "idle" /\ ~IsReuse(r.row) /\ ClientGoto(c, "queueStarted", r.row)
      BY <1>3, <2>1 DEF RequestOK, Refreshing, ClientSaveNumber
    <3>3. \E request \in Requests : SetClient(c, request) /\ RequestOK(request)'
      BY <1>3, <3>1, <3>2, ClientGotoOK
    <3> QED BY <1>0, <2>1, <3>3 DEF ClientSaveNumber, historyVars, TypeOK
  <2>2. CASE ClientSaveRunning(c)
    BY <1>0, <1>3, <2>2, RefreshedOK DEF ClientSaveRunning
  <2>3. CASE ClientSaveFinal(c)
    <3>1. "queueFinal" \in ClientActive \ {"get", "stop"} /\ "queueFinal" \notin Refreshing
      BY DEF ClientActive, Refreshing
    <3>2. r.pc # "idle" /\ ClientGoto(c, "queueFinal", r.row)
      BY <1>3, <2>3 DEF ClientSaveFinal
    <3>3. \E request \in Requests : SetClient(c, request) /\ RequestOK(request)'
      BY <1>3, <3>1, <3>2, ClientGotoOK
    <3> QED BY <1>0, <2>3, <3>3 DEF ClientSaveFinal, historyVars, TypeOK
  <2> QED BY <2>1, <2>2, <2>3
<1> QED BY <1>1, <1>2, <1>3, <1>4, <1>5, ClientStoreGood

\* Steps of a refresh that update the queue item.
LEMMA ClientQueueGood ==
  ASSUME IInv, NEW c \in Clients, ClientQueueStarted(c) \/ ClientQueueFinal(c)
  PROVE  Good
<1>0. TypeOK /\ AcceptedMeansDone
  BY DEF IInv
<1>1. UNCHANGED <<jenkins, db, recorded, native, trig, call, budgetVars,
                  published, accepted, attached, asked>>
  BY DEF ClientQueueStarted, ClientQueueFinal, historyVars
<1>2. Grows /\ \A d \in Builds : RunOK(jenkins[d])' /\ QueueOK(d)'
  BY <1>1, QuietGrows
<1>3. PICK r \in Requests :
        /\ r = client[c] /\ r.build \in Builds /\ r.row \in Rows /\ RequestOK(r) /\ RequestOK(r)'
        /\ RowOK(r.build, r.row) /\ RowOK(r.build, r.row)'
  BY <1>2, RequestBefore
<1>4. PICK state \in {"cancelled", "failed", "started"} : SetQueue(r.build, state)
  BY <1>3 DEF ClientQueueStarted, ClientQueueFinal, QueueStateFor
<1>5. /\ \E request \in Requests : SetClient(c, request) /\ RequestOK(request)'
      /\ blank' \in SUBSET Builds
  <2>1. CASE ClientQueueStarted(c)
    <3>1. "statusRead" \in ClientActive \ {"get", "stop"}
      BY DEF ClientActive
    <3>2. r.pc # "idle" /\ ~IsReuse(r.row) /\ ClientGoto(c, "statusRead", r.row)
      BY <1>3, <2>1 DEF RequestOK, Refreshing, ClientQueueStarted
    <3>3. \E request \in Requests : SetClient(c, request) /\ RequestOK(request)'
      BY <1>3, <3>1, <3>2, ClientGotoOK
    <3> QED BY <1>0, <2>1, <3>3 DEF ClientQueueStarted, historyVars, TypeOK
  <2>2. CASE ClientQueueFinal(c)
    BY <1>0, <1>3, <2>2, RefreshedOK DEF ClientQueueFinal
  <2> QED BY <2>1, <2>2
<1>6. PICK request \in Requests : SetClient(c, request) /\ RequestOK(request)'
  BY <1>5
<1>7. TypeOK'
  BY <1>0, <1>1, <1>3, <1>4, <1>5, <1>6, SetClientEffect, SetQueueEffect DEF TypeOK, budgetVars
<1> QED BY <1>0, <1>1, <1>2, <1>6, <1>7, ClientGood DEF AcceptedMeansDone

\* A request that raises.
LEMMA ClientRaisesGood ==
  ASSUME IInv, NEW c \in Clients, ClientRaises(c)
  PROVE  Good
<1>0. TypeOK /\ AcceptedMeansDone
  BY DEF IInv
<1>1. Grows /\ \A d \in Builds : RunOK(jenkins[d])' /\ QueueOK(d)'
  BY QuietGrows DEF ClientRaises, historyVars
<1>2. SetClient(c, IdleRequest)
  BY DEF ClientRaises
<1>3. TypeOK'
  BY <1>0, <1>2, IdleRequestOK, SetClientEffect, SpendEffect DEF TypeOK, ClientRaises, historyVars
<1> QED BY <1>0, <1>1, <1>2, <1>3, IdleRequestOK, ClientGood
    DEF ClientRaises, historyVars, AcceptedMeansDone

\* Changing one run in a way that Follows allows.
LEMMA RunGrows ==
  ASSUME IInv, NEW b \in Builds, NEW q \in Runs, SetRun(b, q), RunOK(q),
         jenkins[b].phase \in OverPhases => q.phase \in OverPhases /\ q.file = jenkins[b].file,
         jenkins[b].phase = "done" => q.phase = "done" /\ q.result = jenkins[b].result,
         jenkins[b].phase = "none" <=> q.phase = "none",
         q.phase = "dropped" => jenkins[b].phase = "dropped" \/ b \in asked,
         UNCHANGED <<trig, asked>>,
         published \subseteq published', recorded \subseteq recorded'
  PROVE  Grows /\ \A d \in Builds : RunOK(jenkins[d])' /\ QueueOK(d)'
<1>0. TypeOK
  BY DEF IInv
<1>1. jenkins'[b] = q /\ \A d \in Builds \ {b} : jenkins'[d] = jenkins[d]
  BY <1>0, SetRunEffect
<1>2. Grows
  BY <1>1 DEF Grows, Over, Untriggered
<1>3. ASSUME NEW d \in Builds PROVE RunOK(jenkins[d])' /\ QueueOK(d)'
  <2>1. RunOK(jenkins[d]) /\ QueueOK(d)
    BY DEF IInv
  <2>2. CASE d = b
    BY <1>1, <2>1, <2>2 DEF RunOK, QueueOK
  <2>3. CASE d # b
    BY <1>1, <2>1, <2>3 DEF RunOK, QueueOK
  <2> QED BY <2>2, <2>3
<1> QED BY <1>2, <1>3

\* cancel_pipeline acts on Jenkins and marks its copy cancelled.
LEMMA ClientStopGood ==
  ASSUME IInv, NEW c \in Clients, ClientStop(c)
  PROVE  Good
<1>0. TypeOK /\ AcceptedMeansDone
  BY DEF IInv
<1>r. PICK r \in Requests : r = client[c]
  BY <1>0 DEF TypeOK
<1>b. PICK b \in Builds : b = r.build
  BY DEF Requests
<1>w. PICK row \in Rows : row = r.row
  BY DEF Requests
<1>1. /\ RequestOK(r) /\ r.pc = "stop" /\ b \in asked /\ RowOK(b, row)
  BY <1>r, <1>b, <1>w DEF IInv, ClientStop, RequestOK
<1>2. CASE SetClient(c, IdleRequest) /\ UNCHANGED jenkins
  <2>1. Grows /\ \A d \in Builds : RunOK(jenkins[d])' /\ QueueOK(d)'
    BY <1>2, QuietGrows DEF ClientStop, historyVars
  <2>2. TypeOK'
    BY <1>0, <1>2, IdleRequestOK, SetClientEffect
    DEF TypeOK, ClientStop, historyVars, budgetVars
  <2> QED BY <1>0, <1>2, <2>1, <2>2, IdleRequestOK, ClientGood
      DEF ClientStop, historyVars, AcceptedMeansDone
<1>3. CASE ~(SetClient(c, IdleRequest) /\ UNCHANGED jenkins)
  <2> DEFINE new == [row EXCEPT !.status = "cancelled"]
             request == [pc |-> "saveFinal", op |-> "stopping", build |-> b, row |-> new]
             run == IF IsReuse(row) THEN row.source ELSE b
             stopped == [jenkins[run] EXCEPT !.stop =
                           @ \/ jenkins[run].phase \in {"running", "finishing", "callback"}]
             dropped == [jenkins[b] EXCEPT !.phase = IF @ = "queued" THEN "dropped" ELSE @]
  <2>1. /\ SetClient(c, request)
        /\ SetRun(run, stopped) \/ SetRun(b, dropped)
    BY <1>3, <1>r, <1>b, <1>w DEF ClientStop
  <2>2. new \in Rows
    BY RowTypes DEF Terminal
  <2>3. RowOK(b, new)
    BY <1>1, CancelledRowOK
  <2>4. PICK d \in Builds, q \in Runs :
          /\ SetRun(d, q) /\ RunOK(q)
          /\ jenkins[d].phase \in OverPhases => q.phase \in OverPhases /\ q.file = jenkins[d].file
          /\ jenkins[d].phase = "done" => q.phase = "done" /\ q.result = jenkins[d].result
          /\ jenkins[d].phase = "none" <=> q.phase = "none"
          /\ q.phase = "dropped" => jenkins[d].phase = "dropped" \/ d \in asked
    <3>1. run \in Builds
      BY <1>1 DEF RowOK
    <3>2. CASE SetRun(run, stopped)
      <4>1. PICK j \in Runs : j = jenkins[run]
        BY <1>0, <3>1 DEF TypeOK
      <4>2. RunOK(j)
        BY <3>1, <4>1 DEF IInv
      <4>3. PICK stop \in BOOLEAN : stopped = [j EXCEPT !.stop = stop]
        BY <4>1 DEF Runs
      <4>4. stopped \in Runs /\ RunOK(stopped) /\ Follows(j, stopped)
        BY <4>2, <4>3, AbortSteps
      <4> QED BY <3>1, <3>2, <4>1, <4>4 DEF Follows
    <3>3. CASE SetRun(b, dropped)
      <4>1. PICK j \in Runs : j = jenkins[b]
        BY <1>0 DEF TypeOK
      <4>2. RunOK(j)
        BY <4>1 DEF IInv
      <4> DEFINE q == [j EXCEPT !.phase = IF j.phase = "queued" THEN "dropped" ELSE j.phase]
      <4>3. q \in Runs /\ RunOK(q)
        BY <4>2 DEF Runs, RunOK, EarlyPhases
      <4>4. /\ q.phase = IF j.phase = "queued" THEN "dropped" ELSE j.phase
            /\ q.file = j.file /\ q.result = j.result
        BY DEF Runs
      <4>5. SetRun(b, q)
        BY <3>3, <4>1
      <4> HIDE DEF q
      <4> QED BY <1>1, <4>1, <4>3, <4>4, <4>5 DEF OverPhases
    <3> QED BY <2>1, <3>2, <3>3
  <2>5. Grows /\ \A e \in Builds : RunOK(jenkins[e])' /\ QueueOK(e)'
    BY <2>4, RunGrows DEF ClientStop, historyVars
  <2>6. request \in Requests /\ request.pc = "saveFinal" /\ request.op = "stopping"
        /\ request.build = b /\ request.row = new
    BY <2>2 DEF Requests, ClientActive
  <2> HIDE DEF new, run, stopped, dropped
  <2>n. PICK copy \in Rows : copy = new
    BY <2>2
  <2>7. RowOK(b, copy)'
    BY <2>3, <2>5, <2>n, RowKept
  <2>8. b \in asked'
    BY <1>1 DEF ClientStop, historyVars
  <2>9. PICK next \in Requests :
          /\ SetClient(c, next) /\ next.pc = "saveFinal" /\ next.op = "stopping"
          /\ next.build = b /\ next.row = copy
    BY <2>1, <2>6, <2>n
  <2>10. RequestOK(next)'
    BY <2>7, <2>8, <2>9 DEF RequestOK, RowOK, Untriggered, Passed, Over, Aborted, Refreshing
  <2>11. TypeOK'
    BY <1>0, <2>4, <2>9, SetClientEffect, SetRunEffect
    DEF TypeOK, ClientStop, historyVars, budgetVars
  <2> QED BY <1>0, <2>5, <2>9, <2>10, <2>11, ClientGood
      DEF ClientStop, historyVars, AcceptedMeansDone
<1> QED BY <1>2, <1>3

-----------------------------------------------------------------------------
(* trigger_pipeline.                                                       *)

\* A step of one trigger is good if its copy of the row, the row it stores and
\* the status it publishes are.
LEMMA TriggerGood ==
  ASSUME IInv, Grows, TypeOK', AcceptedMeansDone', UNCHANGED <<call, client>>,
         \A d \in Builds : RunOK(jenkins[d])' /\ QueueOK(d)',
         NEW b \in Builds, NEW pc \in {"idle", "done"} \cup TriggerActive, NEW row \in Rows,
         SetTrigger(b, pc, row), RowOK(b, row)',
         \A d \in Builds : db'[d] = db[d] \/ RowOK(d, db[d])',
         \A s \in Shas : native'[s] \in {native[s], "pending", "failure"} \/ NativeOK(s)'
  PROVE  Good
<1>1. ASSUME NEW d \in Builds PROVE trig'[d].row = trig[d].row \/ RowOK(d, trig[d].row)'
  <2>1. CASE d = b
    <3>1. trig'[d].row = row
      BY <2>1, SetTriggerEffect DEF IInv
    <3> QED BY <2>1, <3>1 DEF RowOK
  <2>2. CASE d # b
    BY <2>2, SetTriggerEffect DEF IInv
  <2> QED BY <2>1, <2>2
<1> QED BY <1>1 DEF Good

\* A trigger that moves on while Jenkins does not.
LEMMA TriggerGrows ==
  ASSUME IInv, UNCHANGED <<jenkins, recorded, asked>>, published \subseteq published',
         NEW b \in Builds, NEW pc \in {"idle", "done"} \cup TriggerActive, NEW row \in Rows,
         SetTrigger(b, pc, row), pc # "idle", pc = "trigger" => trig[b].pc = "idle"
  PROVE  Grows /\ \A d \in Builds : RunOK(jenkins[d])' /\ QueueOK(d)'
<1>0. TypeOK
  BY DEF IInv
<1>1. trig'[b].pc = pc /\ \A d \in Builds \ {b} : trig'[d] = trig[d]
  BY <1>0, SetTriggerEffect
<1>2. Grows
  BY <1>1 DEF Grows, Over, Untriggered
<1>3. ASSUME NEW d \in Builds PROVE RunOK(jenkins[d])' /\ QueueOK(d)'
  <2>1. RunOK(jenkins[d]) /\ QueueOK(d)
    BY DEF IInv
  <2>2. RunOK(jenkins[d])'
    BY <2>1 DEF RunOK
  <2>3. CASE d = b
    BY <1>1, <2>1, <2>2, <2>3 DEF QueueOK
  <2>4. CASE d # b
    BY <1>1, <2>1, <2>2, <2>4 DEF QueueOK
  <2> QED BY <2>3, <2>4
<1> QED BY <1>2, <1>3

\* What is known of the trigger that moves, and of the row it may read.
LEMMA TriggerBefore ==
  ASSUME IInv, Grows, NEW b \in Builds
  PROVE  /\ \E row \in Rows : row = trig[b].row /\ RowOK(b, row) /\ RowOK(b, row)'
         /\ \E row \in Rows : row = db[b] /\ RowOK(b, row) /\ RowOK(b, row)'
         /\ RowOK(b, NoRow)' /\ RowOK(b, NewRow)' /\ NoRow \in Rows /\ NewRow \in Rows
<1>0. TypeOK /\ RowOK(b, trig[b].row) /\ RowOK(b, db[b])
  BY DEF IInv
<1>1. PICK row \in Rows : row = trig[b].row
  BY <1>0 DEF TypeOK, Triggers
<1>2. RowOK(b, row) /\ RowOK(b, row)'
  BY <1>0, <1>1, RowKept
<1>3. PICK stored \in Rows : stored = db[b]
  BY <1>0 DEF TypeOK
<1>4. RowOK(b, stored) /\ RowOK(b, stored)'
  BY <1>0, <1>3, RowKept
<1> QED BY <1>1, <1>2, <1>3, <1>4, RowKept, FreshRowsOK, FreshRows

\* The lookup: a build that reuses another has no run, and its source passed.
LEMMA TriggerLookupGood ==
  ASSUME IInv, NEW b \in Builds, TriggerLookup(b)
  PROVE  Good
<1>0. TypeOK /\ AcceptedMeansDone /\ trig[b].pc = "idle" /\ jenkins[b].phase = "none"
  BY DEF IInv, TriggerLookup, QueueOK
<1>1. CASE SetTrigger(b, "trigger", NewRow)
  <2>1. "trigger" \in {"idle", "done"} \cup TriggerActive
    BY DEF TriggerActive
  <2>2. Grows /\ \A d \in Builds : RunOK(jenkins[d])' /\ QueueOK(d)'
    BY <1>0, <1>1, <2>1, FreshRows, TriggerGrows DEF TriggerLookup, historyVars
  <2>3. TypeOK'
    BY <1>0, <1>1, <2>1, FreshRows, SetTriggerEffect
    DEF TypeOK, TriggerLookup, budgetVars, historyVars
  <2>4. RowOK(b, NewRow)' /\ NewRow \in Rows
    BY <2>2, TriggerBefore
  <2> QED BY <1>0, <1>1, <2>1, <2>2, <2>3, <2>4, TriggerGood
      DEF TriggerLookup, historyVars, AcceptedMeansDone
<1>2. CASE \E source \in Builds : b \in Reusing /\ Reusable(b, source)
                                  /\ SetTrigger(b, "saveQueue", ReusedRow(source))
  <2>1. PICK source \in Builds :
          Reusable(b, source) /\ SetTrigger(b, "saveQueue", ReusedRow(source))
    BY <1>2
  <2>2. ReusedRow(source) \in Rows
    BY <1>0 DEF ReusedRow, Rows, Terminal, TypeOK
  <2>3. PICK row \in Rows : row = ReusedRow(source)
    BY <2>2
  <2>4. "saveQueue" \in {"idle", "done"} \cup TriggerActive
    BY DEF TriggerActive
  <2>5. SetTrigger(b, "saveQueue", row)
    BY <2>1, <2>3
  <2>6. Grows /\ \A d \in Builds : RunOK(jenkins[d])' /\ QueueOK(d)'
    BY <1>0, <2>4, <2>5, TriggerGrows DEF TriggerLookup, historyVars
  <2>7. Passed(source)
    BY <2>1 DEF IInv, RowOK, Reusable
  <2>8. Passed(source)'
    BY <2>6, <2>7 DEF Grows, Passed
  <2>9. Untriggered(b)'
    BY <1>0, <2>4, <2>5, SetTriggerEffect DEF Untriggered, TriggerLookup
  <2>10. row.status = "passed" /\ row.source = source
    BY <2>3 DEF ReusedRow
  <2>11. RowOK(b, row)'
    BY <2>1, <2>8, <2>9, <2>10 DEF RowOK, IsReuse, Terminal, Reusable, Passed, Over
  <2>12. TypeOK'
    BY <1>0, <2>4, <2>5, SetTriggerEffect DEF TypeOK, TriggerLookup, budgetVars, historyVars
  <2> QED BY <1>0, <2>4, <2>5, <2>6, <2>11, <2>12, TriggerGood
      DEF TriggerLookup, historyVars, AcceptedMeansDone
<1> QED BY <1>1, <1>2 DEF TriggerLookup

\* Jenkins accepts the build.
LEMMA TriggerJenkinsGood ==
  ASSUME IInv, NEW b \in Builds, TriggerJenkins(b)
  PROVE  Good
<1>0. TypeOK /\ AcceptedMeansDone /\ trig[b].pc = "trigger" /\ jenkins[b].phase = "none"
  BY DEF IInv, TriggerJenkins, QueueOK
<1>1. PICK j \in Runs : j = jenkins[b]
  BY <1>0 DEF TypeOK
<1>2. RunOK(j)
  BY <1>1 DEF IInv
<1> DEFINE q == [j EXCEPT !.phase = "queued"]
<1>3. q \in Runs /\ RunOK(q) /\ q.phase = "queued"
  BY <1>0, <1>1, <1>2 DEF Runs, RunOK, EarlyPhases
<1>4. SetRun(b, q)
  BY <1>1 DEF TriggerJenkins
<1> HIDE DEF q
<1>5. PICK row \in Rows : row = trig[b].row
  BY <1>0 DEF TypeOK, Triggers
<1>6. "saveQueue" \in {"idle", "done"} \cup TriggerActive
  BY DEF TriggerActive
<1>7. SetTrigger(b, "saveQueue", row)
  BY <1>5 DEF TriggerJenkins, TriggerGoto
<1>8. /\ jenkins'[b] = q /\ \A d \in Builds \ {b} : jenkins'[d] = jenkins[d]
      /\ jenkins' \in [Builds -> Runs]
  BY <1>0, <1>3, <1>4, SetRunEffect
<1>9. /\ trig'[b].pc = "saveQueue" /\ \A d \in Builds \ {b} : trig'[d] = trig[d]
      /\ trig' \in [Builds -> Triggers]
  BY <1>0, <1>6, <1>7, SetTriggerEffect
<1>10. Grows
  BY <1>0, <1>8, <1>9 DEF Grows, Over, OverPhases, Untriggered, TriggerJenkins, historyVars
<1>11. ASSUME NEW d \in Builds PROVE RunOK(jenkins[d])' /\ QueueOK(d)'
  <2>1. RunOK(jenkins[d]) /\ QueueOK(d)
    BY DEF IInv
  <2>2. CASE d = b
    BY <1>3, <1>8, <1>9, <2>2 DEF RunOK, QueueOK
  <2>3. CASE d # b
    BY <1>8, <1>9, <2>1, <2>3 DEF RunOK, QueueOK, TriggerJenkins, historyVars
  <2> QED BY <2>2, <2>3
<1>12. RowOK(b, row)'
  BY <1>5, <1>10, RowKept DEF IInv
<1>13. TypeOK'
  BY <1>0, <1>8, <1>9 DEF TypeOK, TriggerJenkins, budgetVars, historyVars
<1> QED BY <1>0, <1>6, <1>7, <1>10, <1>11, <1>12, <1>13, TriggerGood
    DEF TriggerJenkins, historyVars, AcceptedMeansDone

\* Storing the queue item.
LEMMA TriggerSaveQueueGood ==
  ASSUME IInv, NEW b \in Builds, TriggerSaveQueue(b)
  PROVE  Good
<1>0. TypeOK /\ AcceptedMeansDone
  BY DEF IInv
<1>1. PICK row \in Rows : row = trig[b].row
  BY <1>0 DEF TypeOK, Triggers
<1>2. "saveBuild" \in {"idle", "done"} \cup TriggerActive
  BY DEF TriggerActive
<1>3. SetTrigger(b, "saveBuild", row)
  BY <1>1 DEF TriggerSaveQueue, TriggerGoto
<1>4. Grows /\ \A d \in Builds : RunOK(jenkins[d])' /\ QueueOK(d)'
  BY <1>2, <1>3, TriggerGrows DEF TriggerSaveQueue, historyVars
<1>5. RowOK(b, row)'
  BY <1>1, <1>4, RowKept DEF IInv
<1>6. PICK state \in {"reused", "queued"} : SetQueue(b, state)
  BY DEF TriggerSaveQueue
<1>7. TypeOK'
  BY <1>0, <1>2, <1>3, <1>6, SetTriggerEffect, SetQueueEffect
  DEF TypeOK, TriggerSaveQueue, budgetVars, historyVars
<1> QED BY <1>0, <1>2, <1>3, <1>4, <1>5, <1>7, TriggerGood
    DEF TriggerSaveQueue, historyVars, AcceptedMeansDone

\* Storing the row.
LEMMA TriggerSaveBuildGood ==
  ASSUME IInv, NEW b \in Builds, TriggerSaveBuild(b)
  PROVE  Good
<1>0. TypeOK /\ AcceptedMeansDone
  BY DEF IInv
<1>1. PICK row \in Rows : row = trig[b].row
  BY <1>0 DEF TypeOK, Triggers
<1>2. "publish" \in {"idle", "done"} \cup TriggerActive
  BY DEF TriggerActive
<1>3. SetTrigger(b, "publish", row) /\ StoreRow(b, row)
  BY <1>1 DEF TriggerSaveBuild, TriggerGoto
<1>4. Grows /\ \A d \in Builds : RunOK(jenkins[d])' /\ QueueOK(d)'
  BY <1>2, <1>3, TriggerGrows DEF TriggerSaveBuild, historyVars
<1>5. RowOK(b, row)'
  BY <1>1, <1>4, RowKept DEF IInv
<1>6. \A d \in Builds : db'[d] = db[d] \/ RowOK(d, db[d])'
  <2>1. db'[b] = row
    BY <1>0, <1>3, StoreRowEffect
  <2>2. RowOK(b, db[b])'
    BY <1>5, <2>1 DEF RowOK
  <2> QED BY <1>0, <1>3, <2>2, StoreRowEffect
<1>7. TypeOK'
  BY <1>0, <1>2, <1>3, SetTriggerEffect, StoreRowEffect
  DEF TypeOK, TriggerSaveBuild, budgetVars, historyVars
<1> QED BY <1>0, <1>2, <1>3, <1>4, <1>5, <1>6, <1>7, TriggerGood
    DEF TriggerSaveBuild, historyVars, AcceptedMeansDone

\* Publishing "pending", or the success of the build that is reused.
LEMMA TriggerPublishGood ==
  ASSUME IInv, NEW b \in Builds, TriggerPublish(b)
  PROVE  Good
<1>0. TypeOK /\ AcceptedMeansDone /\ NoRow \in Rows
  BY FreshRows DEF IInv
<1>1. PICK row \in Rows : row = trig[b].row
  BY <1>0 DEF TypeOK, Triggers
<1>2. PICK pc \in {"attachGet", "done"}, copy \in {row, NoRow} : SetTrigger(b, pc, copy)
  BY <1>1 DEF TriggerPublish, TriggerGoto, TriggerEnds
<1>3. pc \in {"idle", "done"} \cup TriggerActive /\ pc \notin {"idle", "trigger"} /\ copy \in Rows
  BY <1>0, <1>2 DEF TriggerActive
<1>4. Grows /\ \A d \in Builds : RunOK(jenkins[d])' /\ QueueOK(d)'
  BY <1>2, <1>3, TriggerGrows DEF TriggerPublish
<1>5. RowOK(b, row) /\ RowOK(b, copy)
  BY <1>1, <1>2, FreshRowsOK DEF IInv
<1>6. RowOK(b, copy)'
  BY <1>4, <1>5, RowKept
<1>7. \/ \E state \in {"success", "pending"} :
           SetNative(b, state) /\ (state = "success" => IsReuse(row))
      \/ UNCHANGED native
  BY <1>1 DEF TriggerPublish
<1>8. IsReuse(row) => \E d \in Builds : ShaOf[d] = ShaOf[b] /\ Passed(d)'
  <2>1. IsReuse(row) => \E d \in Builds : ShaOf[d] = ShaOf[b] /\ Passed(d)
    BY <1>5 DEF RowOK
  <2>2. \A d \in Builds : Passed(d) => Passed(d)'
    BY <1>4 DEF Grows, Passed
  <2> QED BY <2>1, <2>2
<1>9. /\ \A s \in Shas : native'[s] \in {native[s], "pending", "failure"} \/ NativeOK(s)'
      /\ native' \in [Shas -> {"none", "pending", "success", "failure"}]
  <2>1. CASE UNCHANGED native
    BY <1>0, <2>1 DEF TypeOK
  <2>2. ASSUME NEW state \in {"success", "pending"}, SetNative(b, state),
               state = "success" => IsReuse(row)
        PROVE  <1>9!:
    <3>1. /\ native' \in [Shas -> {"none", "pending", "success", "failure"}]
          /\ native'[ShaOf[b]] = state /\ \A s \in Shas \ {ShaOf[b]} : native'[s] = native[s]
      BY <1>0, <2>2, SetNativeEffect
    <3>2. state = "success" => NativeOK(ShaOf[b])'
      BY <1>8, <2>2 DEF NativeOK
    <3> QED BY <3>1, <3>2
  <2> QED BY <1>7, <2>1, <2>2
<1>10. TypeOK'
  <2>1. faults' \in 0..MaxFaults /\ crashes' \in 0..MaxCrashes /\ cancels' \in 0..MaxCancels
    BY <1>0, SpendEffect DEF TypeOK, TriggerPublish, budgetVars
  <2> QED BY <1>0, <1>2, <1>3, <1>9, <2>1, SetTriggerEffect DEF TypeOK, TriggerPublish
<1> QED BY <1>0, <1>2, <1>3, <1>4, <1>6, <1>9, <1>10, TriggerGood
    DEF TriggerPublish, AcceptedMeansDone

\* The review of a reused build reads the row, or ends without it.
LEMMA TriggerAttachGetGood ==
  ASSUME IInv, NEW b \in Builds, TriggerAttachGet(b)
  PROVE  Good
<1>0. TypeOK /\ AcceptedMeansDone /\ NoRow \in Rows
  BY FreshRows DEF IInv
<1>1. PICK row \in Rows : row = db[b]
  BY <1>0 DEF TypeOK
<1>2. PICK pc \in {"attachSave", "done"}, copy \in {row, NoRow} : SetTrigger(b, pc, copy)
  BY <1>1 DEF TriggerAttachGet, TriggerEnds
<1>3. pc \in {"idle", "done"} \cup TriggerActive /\ pc \notin {"idle", "trigger"} /\ copy \in Rows
  BY <1>0, <1>2 DEF TriggerActive
<1>4. Grows /\ \A d \in Builds : RunOK(jenkins[d])' /\ QueueOK(d)'
  BY <1>2, <1>3, TriggerGrows DEF TriggerAttachGet, historyVars
<1>5. RowOK(b, copy)
  BY <1>1, <1>2, FreshRowsOK DEF IInv
<1>6. RowOK(b, copy)'
  BY <1>4, <1>5, RowKept
<1>7. TypeOK'
  BY <1>0, <1>2, <1>3, SetTriggerEffect DEF TypeOK, TriggerAttachGet, budgetVars, historyVars
<1> QED BY <1>0, <1>2, <1>3, <1>4, <1>6, <1>7, TriggerGood
    DEF TriggerAttachGet, historyVars, AcceptedMeansDone

\* It stores the row with the log.
LEMMA TriggerAttachSaveGood ==
  ASSUME IInv, NEW b \in Builds, TriggerAttachSave(b)
  PROVE  Good
<1>0. TypeOK /\ AcceptedMeansDone /\ NoRow \in Rows
  BY FreshRows DEF IInv
<1>1. PICK row \in Rows : row = trig[b].row
  BY <1>0 DEF TypeOK, Triggers
<1>2. SetTrigger(b, "done", NoRow)
  BY DEF TriggerAttachSave, TriggerEnds
<1>3. Grows /\ \A d \in Builds : RunOK(jenkins[d])' /\ QueueOK(d)'
  BY <1>0, <1>2, TriggerGrows DEF TriggerAttachSave
<1>4. PICK outcome \in ReviewOutcomes(b) : StoreRow(b, Attached(row, TRUE, outcome))
  BY <1>1 DEF TriggerAttachSave
<1>5. PICK new \in Rows : new = Attached(row, TRUE, outcome)
  BY RowTypes
<1>6. RowOK(b, new)
  BY <1>1, <1>5, AttachedRowOK DEF IInv
<1>7. RowOK(b, new)' /\ RowOK(b, NoRow)'
  BY <1>3, <1>6, RowKept, FreshRowsOK
<1>8. StoreRow(b, new)
  BY <1>4, <1>5
<1>9. \A d \in Builds : db'[d] = db[d] \/ RowOK(d, db[d])'
  <2>1. db'[b] = new
    BY <1>0, <1>8, StoreRowEffect
  <2>2. RowOK(b, db[b])'
    BY <1>7, <2>1 DEF RowOK
  <2> QED BY <1>0, <1>8, <2>2, StoreRowEffect
<1>10. TypeOK'
  <2>1. attached' \in SUBSET Builds
    BY <1>0 DEF TypeOK, TriggerAttachSave
  <2> QED BY <1>0, <1>2, <1>8, <2>1, SetTriggerEffect, StoreRowEffect
      DEF TypeOK, TriggerAttachSave, budgetVars
<1> QED BY <1>0, <1>2, <1>3, <1>7, <1>9, <1>10, TriggerGood
    DEF TriggerAttachSave, AcceptedMeansDone

\* An await that raises.
LEMMA TriggerRaisesGood ==
  ASSUME IInv, NEW b \in Builds, TriggerRaises(b)
  PROVE  Good
<1>0. TypeOK /\ AcceptedMeansDone /\ NoRow \in Rows
  BY FreshRows DEF IInv
<1>1. SetTrigger(b, "done", NoRow)
  BY DEF TriggerRaises, TriggerEnds
<1>2. Grows /\ \A d \in Builds : RunOK(jenkins[d])' /\ QueueOK(d)'
  BY <1>0, <1>1, TriggerGrows DEF TriggerRaises, historyVars
<1>3. RowOK(b, NoRow)'
  BY <1>2, TriggerBefore
<1>4. TypeOK'
  BY <1>0, <1>1, SetTriggerEffect, SpendEffect DEF TypeOK, TriggerRaises, historyVars
<1> QED BY <1>0, <1>1, <1>2, <1>3, <1>4, TriggerGood
    DEF TriggerRaises, historyVars, AcceptedMeansDone

-----------------------------------------------------------------------------
(* Jenkins and the crash.                                                  *)

\* A callback attempt starts a handler.
LEMMA CallbackSendGood ==
  ASSUME IInv, Grows, NEW b \in Builds, CallbackSend(b)
  PROVE  /\ call' \in [Builds -> [1..Attempts -> Calls]]
         /\ \A d \in Builds, j \in 1..Attempts :
              call'[d][j] = call[d][j] \/ HandlerOK(d, call[d][j])'
<1>0. TypeOK
  BY DEF IInv
<1>1. PICK i \in 1..Attempts : SetCall(b, i, [call[b][i] EXCEPT !.pc = "get"])
  <2>1. jenkins[b] \in Runs /\ RunOK(jenkins[b])
    BY <1>0 DEF TypeOK, IInv
  <2>2. jenkins[b].attempt + 1 \in 1..Attempts
    BY <2>1, SendSteps DEF CallbackSend
  <2> QED BY <2>2 DEF CallbackSend
<1>2. PICK h \in Calls : h = call[b][i] /\ HandlerOK(b, h)'
  BY HandlerBefore
<1> DEFINE q == [h EXCEPT !.pc = "get"]
<1>3. SetCall(b, i, q)
  BY <1>1, <1>2
<1>4. q \in Calls /\ q.pc = "get" /\ q.row = h.row /\ q.reply = h.reply
  BY DEF Calls, CallActive
<1> HIDE DEF q
<1>5. Over(b)'
  BY DEF Grows, Over, OverPhases, CallbackSend
<1>6. HandlerOK(b, q)'
  BY <1>2, <1>4, <1>5 DEF HandlerOK, RowOK
<1>7. /\ call' \in [Builds -> [1..Attempts -> Calls]] /\ call'[b][i] = q
      /\ \A d \in Builds, j \in 1..Attempts : d # b \/ j # i => call'[d][j] = call[d][j]
  BY <1>0, <1>3, <1>4, SetCallEffect
<1>8. HandlerOK(b, call[b][i])'
  BY <1>6, <1>7 DEF HandlerOK, RowOK
<1> QED BY <1>7, <1>8

\* A step of Jenkins leaves the tables, the triggers and the clients alone.
LEMMA JenkinsFrame ==
  ASSUME NEW b \in Builds, JenkinsStep(b) \/ JenkinsAborts(b) \/ CallbackLost(b)
  PROVE  /\ UNCHANGED <<db, queue, recorded, native, trig, client>>
         /\ UNCHANGED <<published, attached, asked, blank>>
         /\ CallbackSend(b) \/ UNCHANGED call
         /\ CallbackAccepted(b) \/ UNCHANGED accepted
         /\ Spend \/ UNCHANGED budgetVars
BY DEF JenkinsStep, JenkinsStart, PipelineChecks, PipelineFails, PipelinePublishes,
       PipelinePublicationFails, JenkinsAborts, CallbackSend, CallbackLost, CallbackTimeout,
       CallbackAccepted, CallbackRefused, CallbackGivesUp, JenkinsOnly, gatewayVars, historyVars

\* The pipeline sees a 2xx only of a handler that was done.
LEMMA JenkinsGood ==
  ASSUME IInv, NEW b \in Builds, JenkinsStep(b) \/ JenkinsAborts(b) \/ CallbackLost(b)
  PROVE  Good
<1>0. TypeOK /\ AcceptedMeansDone /\ RunOK(jenkins[b]) /\ jenkins[b] \in Runs
  BY DEF IInv, TypeOK
<1>1. PICK q \in Runs : SetRun(b, q) /\ RunOK(q) /\ Follows(jenkins[b], q)
  BY <1>0, JenkinsMovesOneRun DEF JenkinsMoves
<1>2. /\ UNCHANGED <<db, queue, recorded, native, trig, client>>
      /\ UNCHANGED <<published, attached, asked, blank>>
      /\ CallbackSend(b) \/ UNCHANGED call
      /\ CallbackAccepted(b) \/ UNCHANGED accepted
      /\ Spend \/ UNCHANGED budgetVars
  BY JenkinsFrame
<1>3. Grows /\ \A d \in Builds : RunOK(jenkins[d])' /\ QueueOK(d)'
  BY <1>1, <1>2, RunGrows DEF Follows
<1>4. /\ call' \in [Builds -> [1..Attempts -> Calls]]
      /\ \A d \in Builds, j \in 1..Attempts :
           call'[d][j] = call[d][j] \/ HandlerOK(d, call[d][j])'
  <2>1. CASE CallbackSend(b)
    BY <1>3, <2>1, CallbackSendGood
  <2>2. CASE UNCHANGED call
    BY <1>0, <2>2 DEF TypeOK
  <2> QED BY <1>2, <2>1, <2>2
<1>5. AcceptedMeansDone' /\ accepted' \in SUBSET Builds
  <2>1. CASE CallbackAccepted(b)
    <3>1. jenkins[b].attempt \in 1..Attempts
      BY <1>0, <2>1 DEF RunOK, CallbackAccepted
    <3>2. b \in recorded
      BY <2>1, <3>1 DEF CallbackAccepted, IInv, HandlerOK
    <3>3. accepted' = accepted \cup {b}
      BY <2>1 DEF CallbackAccepted
    <3> QED BY <1>0, <1>2, <3>2, <3>3 DEF AcceptedMeansDone, TypeOK
  <2>2. CASE UNCHANGED accepted
    BY <1>0, <1>2, <2>2 DEF AcceptedMeansDone, TypeOK
  <2> QED BY <1>2, <2>1, <2>2
<1>6. TypeOK'
  <2>1. faults' \in 0..MaxFaults /\ crashes' \in 0..MaxCrashes /\ cancels' \in 0..MaxCancels
    BY <1>0, <1>2, SpendEffect DEF TypeOK, budgetVars
  <2>2. jenkins' \in [Builds -> Runs]
    BY <1>0, <1>1, SetRunEffect
  <2> QED BY <1>0, <1>2, <1>4, <1>5, <2>1, <2>2 DEF TypeOK
<1> QED BY <1>2, <1>3, <1>4, <1>5, <1>6 DEF Good

\* A restart drops the handlers and keeps the tables.
LEMMA CrashGood ==
  ASSUME IInv, Crash
  PROVE  Good
<1>0. TypeOK /\ AcceptedMeansDone
  BY DEF IInv
<1>1. ASSUME NEW b \in Builds
      PROVE  /\ trig'[b] \in Triggers
             /\ \/ trig'[b] = trig[b]
                \/ trig'[b].pc = "done" /\ trig'[b].row = NoRow /\ trig[b].pc \in TriggerActive
  BY <1>0, FreshRows DEF Crash, TypeOK, Triggers
<1>2. Grows
  <2>1. \A b \in Builds : Untriggered(b) => Untriggered(b)'
    BY <1>1 DEF Untriggered, Crash
  <2> QED BY <2>1 DEF Grows, Over, Crash, historyVars
<1>3. ASSUME NEW b \in Builds PROVE RunOK(jenkins[b])' /\ QueueOK(b)'
  <2>1. RunOK(jenkins[b]) /\ QueueOK(b)
    BY DEF IInv
  <2> QED BY <1>1, <2>1 DEF RunOK, QueueOK, Crash, historyVars
<1>4. ASSUME NEW b \in Builds PROVE trig'[b].row = trig[b].row \/ RowOK(b, trig[b].row)'
  <2>1. RowOK(b, NoRow)'
    BY <1>2, RowKept, FreshRowsOK
  <2> QED BY <1>1, <2>1 DEF RowOK
<1>5. ASSUME NEW b \in Builds, NEW i \in 1..Attempts
      PROVE  /\ call'[b][i] \in Calls
             /\ call'[b][i] = call[b][i] \/ HandlerOK(b, call[b][i])'
  <2>1. PICK h \in Calls : h = call[b][i] /\ HandlerOK(b, h)'
    BY <1>2, HandlerBefore
  <2>2. RowOK(b, NoRow)'
    BY <1>2, HandlerBefore
  <2>3. CASE h.pc \in CallActive
    <3>1. call'[b][i] = Failed(h)
      BY <2>1, <2>3 DEF Crash
    <3>2. PICK q \in Calls : /\ q = Failed(h) /\ q.pc = "done" /\ q.row = NoRow
                             /\ q.reply = "ok" => h.reply = "ok"
      BY HandlerEnds
    <3>3. HandlerOK(b, q)'
      BY <2>1, <2>2, <2>3, <3>2 DEF HandlerOK, RowOK, CallActive
    <3> QED BY <3>1, <3>2, <3>3 DEF HandlerOK, RowOK
  <2>4. CASE h.pc \notin CallActive
    BY <2>1, <2>4 DEF Crash
  <2> QED BY <2>3, <2>4
<1>6. ASSUME NEW c \in Clients PROVE RequestOK(client[c])' /\ client'[c] \in Requests
  <2>1. client'[c] = IdleRequest
    BY DEF Crash
  <2> QED BY <2>1, IdleRequestOK DEF RequestOK, RowOK, Untriggered, Passed, Over, Aborted
<1>7. TypeOK'
  <2>1. crashes' \in 0..MaxCrashes
    BY <1>0 DEF Crash, TypeOK
  <2>2. trig' \in [Builds -> Triggers]
    BY <1>1 DEF Crash
  <2>3. call' \in [Builds -> [1..Attempts -> Calls]]
    BY <1>5 DEF Crash
  <2>4. client' \in [Clients -> Requests]
    BY <1>6 DEF Crash
  <2> QED BY <1>0, <2>1, <2>2, <2>3, <2>4 DEF TypeOK, Crash, historyVars
<1> QED BY <1>0, <1>2, <1>3, <1>4, <1>5, <1>6, <1>7 DEF Good, Crash, historyVars, AcceptedMeansDone

\* Doing nothing is good.
LEMMA StutterGood ==
  ASSUME IInv, UNCHANGED vars
  PROVE  Good
<1>0. TypeOK /\ AcceptedMeansDone
  BY DEF IInv
<1>1. UNCHANGED <<jenkins, db, queue, recorded, native, trig, call, client>>
      /\ UNCHANGED <<faults, crashes, cancels, published, accepted, attached, asked, blank>>
  BY DEF vars, gatewayVars, budgetVars, historyVars
<1>2. Grows /\ \A d \in Builds : RunOK(jenkins[d])' /\ QueueOK(d)' /\ trig'[d].row = trig[d].row
  BY <1>1, QuietGrows
<1> QED BY <1>0, <1>1, <1>2 DEF Good, TypeOK, AcceptedMeansDone

\* Every step respects Good.
LEMMA NextGood ==
  ASSUME IInv, [Next]_vars
  PROVE  Good
<1>1. ASSUME NEW b \in Builds, TriggerStep(b) \/ TriggerRaises(b) PROVE Good
  BY <1>1, TriggerLookupGood, TriggerJenkinsGood, TriggerSaveQueueGood, TriggerSaveBuildGood,
     TriggerPublishGood, TriggerAttachGetGood, TriggerAttachSaveGood, TriggerRaisesGood
  DEF TriggerStep
<1>2. ASSUME NEW b \in Builds, JenkinsStep(b) \/ JenkinsAborts(b) \/ CallbackLost(b) PROVE Good
  BY <1>2, JenkinsGood
<1>3. ASSUME NEW b \in Builds, NEW i \in 1..Attempts, CallHandlerStep(b, i) \/ CallRaises(b, i)
      PROVE  Good
  BY <1>3, CallGetGood, CallCheckDuplicateGood, CallSaveGood, CallPublishGood, CallRecordGood,
     CallQueueGood, CallAttachGetGood, CallAttachSaveGood, CallRaisesGood
  DEF CallHandlerStep
<1>4. ASSUME NEW c \in Clients, ClientStep(c) \/ ClientRaises(c) PROVE Good
  BY <1>4, ClientGetGood, ClientQueueReadGood, ClientStatusReadGood, ClientResultReadGood,
     ClientSaveGood, ClientQueueGood, ClientStopGood, ClientRaisesGood
  DEF ClientStep
<1>5. ASSUME NEW c \in Clients, NEW b \in Builds, NEW op \in {"read", "cancel"},
             ClientBegins(c, b, op)
      PROVE  Good
  BY <1>5, ClientBeginsGood
<1> QED BY <1>1, <1>2, <1>3, <1>4, <1>5, CrashGood, StutterGood DEF Next

-----------------------------------------------------------------------------
(* The theorems.                                                           *)

\* The invariant holds throughout, for any constants of LifecycleAssumption.
THEOREM Inductive == Spec => []IInv
<1>1. IInv /\ [Next]_vars => IInv'
  BY NextGood, GoodKeepsIInv
<1> QED BY InitIInv, <1>1, PTL DEF Spec

\* Every variable keeps its type.
THEOREM TypeCorrect == Spec => []TypeOK
<1>1. IInv => TypeOK
  BY DEF IInv
<1> QED BY Inductive, <1>1, PTL

\* The pipeline is told 2xx only when its verdict was published and its
\* delivery recorded, however attempts overlap, time out, fail or die
\* (complete_build, record_webhook_once).
THEOREM AnswersAreFinal == Spec => []AcceptedMeansDone
<1>1. IInv => AcceptedMeansDone
  BY DEF IInv
<1> QED BY Inductive, <1>1, PTL

\* native-ci shows "success" only for a commit some pipeline passed
\* (complete_build, _reuse_native_result).
THEOREM SuccessIsEarned == Spec => []NativeSuccessJustified
<1>1. IInv => NativeSuccessJustified
  BY DEF IInv, NativeOK, NativeSuccessJustified, Passed
<1> QED BY Inductive, <1>1, PTL

\* A stored passed or cancelled status rests on a result file or on a
\* cancellation, whatever stale copies are written back (_refresh_build,
\* cancel_pipeline, complete_build).
THEOREM StoredStatusIsEarned == Spec => []StatusJustified
<1>1. ASSUME IInv PROVE StatusJustified
  <2>1. \A b \in Builds : RowOK(b, db[b])
    BY <1>1 DEF IInv
  <2> QED BY <2>1 DEF StatusJustified, RowOK, Passed, Aborted
<1> QED BY Inductive, <1>1, PTL

-----------------------------------------------------------------------------
(* The refinement of StatusGate.                                           *)

\* A run that keeps its verdict once it is over decides at most once.
LEMMA VerdictMoves ==
  ASSUME TypeOK, NEW b \in Builds, NEW q \in Runs, SetRun(b, q),
         jenkins[b].phase \in OverPhases => q.phase \in OverPhases /\ q.file = jenkins[b].file
  PROVE  \/ verdictOf' = verdictOf
         \/ /\ verdictOf[b] = "none"
            /\ \E v \in {"passed", "failed"} : verdictOf' = [verdictOf EXCEPT ![b] = v]
<1>1. jenkins'[b] = q /\ \A d \in Builds \ {b} : jenkins'[d] = jenkins[d]
  BY SetRunEffect
<1>2. \A d \in Builds \ {b} : verdictOf'[d] = verdictOf[d]
  BY <1>1 DEF verdictOf, CallbackStatus
<1>3. CASE jenkins[b].phase \in OverPhases
  <2>1. verdictOf'[b] = verdictOf[b]
    BY <1>1, <1>3 DEF verdictOf, CallbackStatus, OverPhases
  <2>2. \A d \in Builds : verdictOf'[d] = verdictOf[d]
    BY <1>2, <2>1
  <2> QED BY <2>2 DEF verdictOf
<1>4. CASE jenkins[b].phase \notin OverPhases
  <2>1. verdictOf[b] = "none"
    BY <1>4 DEF verdictOf, OverPhases
  <2>2. verdictOf'[b] \in {"none", "passed", "failed"}
    BY <1>1 DEF verdictOf, CallbackStatus, Runs
  <2>3. verdictOf' = [verdictOf EXCEPT ![b] = verdictOf'[b]]
    BY <1>2 DEF verdictOf
  <2>4. CASE verdictOf'[b] = "none"
    <3>1. \A d \in Builds : verdictOf'[d] = verdictOf[d]
      BY <1>2, <2>1, <2>4
    <3> QED BY <3>1 DEF verdictOf
  <2> QED BY <2>1, <2>2, <2>3, <2>4
<1> QED BY <1>3, <1>4

\* Verdicts are those of the runs.
LEMMA VerdictStays == UNCHANGED jenkins => verdictOf' = verdictOf
BY DEF verdictOf, CallbackStatus

\* A step that only moves a run decides a verdict or does nothing.
LEMMA RunStepIsGateStep ==
  ASSUME IInv, NEW b \in Builds, NEW q \in Runs, SetRun(b, q),
         jenkins[b].phase \in OverPhases => q.phase \in OverPhases /\ q.file = jenkins[b].file,
         UNCHANGED <<native, published, recorded>>
  PROVE  [Gate!Next]_(Gate!gateVars)
<1>1. TypeOK
  BY DEF IInv
<1>2. CASE verdictOf' = verdictOf
  BY <1>2 DEF Gate!gateVars
<1>3. CASE /\ verdictOf[b] = "none"
           /\ \E v \in {"passed", "failed"} : verdictOf' = [verdictOf EXCEPT ![b] = v]
  <2>1. Gate!Decide(b)
    BY <1>3 DEF Gate!Decide
  <2> QED BY <2>1 DEF Gate!Next
<1> QED BY <1>1, <1>2, <1>3, VerdictMoves

\* A step of the gateway that publishes and records nothing is no step of the
\* gate.
LEMMA SilentStep ==
  ASSUME UNCHANGED <<jenkins, native, published, recorded>>
  PROVE  [Gate!Next]_(Gate!gateVars)
BY VerdictStays DEF Gate!gateVars

\* A trigger publishes "pending", or "success" of a source that passed.
LEMMA TriggerRefines ==
  ASSUME IInv, NEW b \in Builds, TriggerStep(b) \/ TriggerRaises(b)
  PROVE  [Gate!Next]_(Gate!gateVars)
<1>0. TypeOK
  BY DEF IInv
<1>1. CASE TriggerJenkins(b)
  <2>1. PICK j \in Runs : j = jenkins[b]
    BY <1>0 DEF TypeOK
  <2>2. j.phase = "none"
    BY <1>1, <2>1 DEF IInv, QueueOK, TriggerJenkins
  <2> DEFINE q == [j EXCEPT !.phase = "queued"]
  <2>3. q \in Runs
    BY DEF Runs
  <2>4. SetRun(b, q)
    BY <1>1, <2>1 DEF TriggerJenkins
  <2> HIDE DEF q
  <2>5. jenkins[b].phase \notin OverPhases
    BY <2>1, <2>2 DEF OverPhases
  <2> QED BY <1>1, <2>3, <2>4, <2>5, RunStepIsGateStep DEF TriggerJenkins, historyVars
<1>2. CASE TriggerPublish(b)
  <2>1. UNCHANGED recorded /\ verdictOf' = verdictOf
    BY <1>2, VerdictStays DEF TriggerPublish
  <2>2. CASE UNCHANGED <<native, published>>
    BY <2>1, <2>2 DEF Gate!gateVars
  <2>3. CASE SetNative(b, "pending") /\ UNCHANGED published
    <3>1. Gate!Queue(b)
      BY <2>1, <2>3 DEF Gate!Queue, SetNative
    <3> QED BY <3>1 DEF Gate!Next
  <2>4. CASE /\ SetNative(b, "success") /\ IsReuse(trig[b].row)
             /\ published' = published \cup {b}
    <3>1. RowOK(b, trig[b].row)
      BY DEF IInv
    <3>2. PICK s \in Builds : ShaOf[s] = ShaOf[b] /\ Passed(s)
      BY <2>4, <3>1 DEF RowOK
    <3>3. verdictOf[s] = "passed"
      BY <3>2 DEF Passed, Over, OverPhases, verdictOf, CallbackStatus
    <3>4. Gate!Reuse(b)
      BY <2>1, <2>4, <3>2, <3>3 DEF Gate!Reuse, SetNative
    <3> QED BY <3>4 DEF Gate!Next
  <2> QED BY <1>2, <2>2, <2>3, <2>4 DEF TriggerPublish
<1>3. CASE TriggerLookup(b) \/ TriggerSaveQueue(b) \/ TriggerSaveBuild(b) \/ TriggerAttachGet(b)
           \/ TriggerAttachSave(b) \/ TriggerRaises(b)
  BY <1>3, SilentStep DEF TriggerLookup, TriggerSaveQueue, TriggerSaveBuild, TriggerAttachGet,
                          TriggerAttachSave, TriggerRaises, historyVars
<1> QED BY <1>1, <1>2, <1>3 DEF TriggerStep

\* A step of Jenkins decides at most a verdict.
LEMMA JenkinsRefines ==
  ASSUME IInv, NEW b \in Builds, JenkinsStep(b) \/ JenkinsAborts(b) \/ CallbackLost(b)
  PROVE  [Gate!Next]_(Gate!gateVars)
<1>0. TypeOK /\ RunOK(jenkins[b])
  BY DEF IInv
<1>1. PICK q \in Runs : SetRun(b, q) /\ Follows(jenkins[b], q)
  BY <1>0, JenkinsMovesOneRun DEF JenkinsMoves
<1>2. UNCHANGED <<native, published, recorded>>
  BY JenkinsFrame
<1> QED BY <1>1, <1>2, RunStepIsGateStep DEF Follows

\* A callback handler publishes the verdict and records after it did.
LEMMA CallRefines ==
  ASSUME IInv, NEW b \in Builds, NEW i \in 1..Attempts, CallHandlerStep(b, i) \/ CallRaises(b, i)
  PROVE  [Gate!Next]_(Gate!gateVars)
<1>1. CASE CallPublish(b, i)
  <2>1. Over(b)
    BY <1>1 DEF IInv, HandlerOK, CallPublish, CallStep
  <2>2. verdictOf[b] = CallbackStatus(b) /\ CallbackStatus(b) # "none"
    BY <2>1 DEF verdictOf, Over, OverPhases, CallbackStatus
  <2>3. verdictOf' = verdictOf
    BY <1>1, VerdictStays DEF CallPublish
  <2>4. Gate!Publish(b)
    BY <1>1, <2>2, <2>3 DEF Gate!Publish, Gate!StateFor, CallPublish, SetNative
  <2> QED BY <2>4 DEF Gate!Next
<1>2. CASE CallRecord(b, i)
  <2>1. b \in published
    BY <1>2 DEF IInv, HandlerOK, CallRecord, ToReview, CallStep
  <2>2. verdictOf' = verdictOf
    BY <1>2, VerdictStays DEF CallRecord
  <2>3. Gate!Record(b)
    BY <1>2, <2>1, <2>2 DEF Gate!Record, CallRecord, historyVars
  <2> QED BY <2>3 DEF Gate!Next
<1>3. CASE CallGet(b, i) \/ CallCheckDuplicate(b, i) \/ CallSave(b, i) \/ CallQueue(b, i)
           \/ CallAttachGet(b, i) \/ CallAttachSave(b, i) \/ CallRaises(b, i)
  BY <1>3, SilentStep DEF CallGet, CallCheckDuplicate, CallSave, CallQueue, CallAttachGet,
                          CallAttachSave, CallRaises, historyVars
<1> QED BY <1>1, <1>2, <1>3 DEF CallHandlerStep

\* Of the clients only a cancellation touches Jenkins, and it ends no run.
LEMMA ClientRefines ==
  ASSUME IInv, NEW c \in Clients,
         \/ ClientStep(c) \/ ClientRaises(c)
         \/ \E b \in Builds, op \in {"read", "cancel"} : ClientBegins(c, b, op)
  PROVE  [Gate!Next]_(Gate!gateVars)
<1>1. CASE ClientStop(c)
  <2>1. TypeOK
    BY DEF IInv
  <2>2. CASE UNCHANGED jenkins
    BY <1>1, <2>2, SilentStep DEF ClientStop, historyVars
  <2>3. CASE ~UNCHANGED jenkins
    <3>1. client[c] \in Requests /\ RowOK(client[c].build, client[c].row)
      BY <2>1 DEF IInv, TypeOK, RequestOK
    <3>2. client[c].build \in Builds /\ (IsReuse(client[c].row) => client[c].row.source \in Builds)
      BY <3>1 DEF Requests, RowOK
    <3>3. PICK d \in Builds :
            \/ SetRun(d, [jenkins[d] EXCEPT !.stop =
                            @ \/ jenkins[d].phase \in {"running", "finishing", "callback"}])
            \/ SetRun(d, [jenkins[d] EXCEPT !.phase = IF @ = "queued" THEN "dropped" ELSE @])
      BY <1>1, <2>3, <3>2 DEF ClientStop
    <3>4. PICK j \in Runs : j = jenkins[d]
      BY <2>1 DEF TypeOK
    <3>5. PICK q \in Runs :
            SetRun(d, q) /\ (j.phase \in OverPhases => q.phase \in OverPhases /\ q.file = j.file)
      <4> DEFINE stop == j.stop \/ j.phase \in {"running", "finishing", "callback"}
                 stopped == [j EXCEPT !.stop = stop]
                 dropped == [j EXCEPT !.phase = IF j.phase = "queued" THEN "dropped" ELSE j.phase]
      <4>1. stopped \in Runs /\ stopped.phase = j.phase /\ stopped.file = j.file
        BY DEF Runs
      <4>2. dropped \in Runs /\ dropped.file = j.file
            /\ (j.phase \in OverPhases => dropped.phase = j.phase)
        BY DEF Runs, OverPhases
      <4>3. SetRun(d, stopped) \/ SetRun(d, dropped)
        BY <3>3, <3>4
      <4> HIDE DEF stopped, dropped
      <4> QED BY <4>1, <4>2, <4>3
    <3> QED BY <1>1, <3>4, <3>5, RunStepIsGateStep DEF ClientStop, historyVars
  <2> QED BY <2>2, <2>3
<1>2. CASE ~ClientStop(c)
  <2>1. UNCHANGED <<jenkins, native, published, recorded>>
    BY <1>2 DEF ClientStep, ClientGet, ClientQueueRead, ClientSaveNumber, ClientQueueStarted,
                ClientStatusRead, ClientSaveRunning, ClientResultRead, ClientSaveFinal,
                ClientQueueFinal, ClientRaises, ClientBegins, ClientLocal, historyVars
  <2> QED BY <2>1, SilentStep
<1> QED BY <1>1, <1>2

\* The gateway implements the promise of the native-ci status: only verdicts
\* are published, reuse republishes a passed one of the same commit, and a
\* completion is recorded last.
THEOREM Refinement == Spec => ImplementsStatusGate
<1>1. Init => Gate!Init
  BY DEF Init, Gate!Init, verdictOf, NoJenkinsRun
<1>2. ASSUME IInv, [Next]_vars PROVE [Gate!Next]_(Gate!gateVars)
  <2>1. CASE Crash
    BY <2>1, SilentStep DEF Crash, historyVars
  <2>2. CASE UNCHANGED vars
    BY <2>2, SilentStep DEF vars, historyVars
  <2> QED BY <1>2, <2>1, <2>2, TriggerRefines, JenkinsRefines, CallRefines, ClientRefines DEF Next
<1> QED BY Inductive, <1>1, <1>2, PTL DEF Spec, ImplementsStatusGate, Gate!Spec
-----------------------------------------------------------------------------
(* A finished build stays finished when nobody but the trigger and the     *)
(* callbacks writes its row.                                               *)

\* The trigger has not saved the row yet.
Unsaved == {"idle", "trigger", "saveQueue", "saveBuild"}

\* The callback has saved its result, and has not read the row again.
Saved == {"publish", "record", "queue", "attachGet"}

IsFinal(b) == db[b].status \in Terminal

\* Until the trigger saves the row no callback gets past its lookup; whoever
\* is past the save of a result, and a recorded delivery, see a final row; and
\* the row a review log will be attached to was final when it was read.
FinalOK(b) ==
  /\ trig[b].pc \in Unsaved =>
       /\ db[b] = NoRow
       /\ \A i \in 1..Attempts : call[b][i].pc \in {"unsent", "get", "done"}
  /\ trig[b].pc = "attachSave" => trig[b].row.status \in Terminal
  /\ trig[b].pc = "attachGet" \/ (trig[b].pc = "publish" /\ IsReuse(trig[b].row)) => IsFinal(b)
  /\ b \in recorded => IsFinal(b)
  /\ \A i \in 1..Attempts :
       /\ call[b][i].pc \in Saved => IsFinal(b)
       /\ call[b][i].pc = "attachSave" => call[b][i].row.status \in Terminal

FinalInv == \A b \in Builds : FinalOK(b)

\* What a step has to do: no finished build is taken back.
FinalStep == \A b \in Builds : IsFinal(b) => IsFinal(b)'

\* Builds whose row, trigger, handlers and delivery a step leaves alone.
LEMMA FinalKept ==
  ASSUME NEW d \in Builds, FinalOK(d), db'[d] = db[d], trig'[d] = trig[d],
         \A j \in 1..Attempts : call'[d][j] = call[d][j],
         d \in recorded' <=> d \in recorded
  PROVE  FinalOK(d)' /\ (IsFinal(d) => IsFinal(d)')
BY DEF FinalOK, IsFinal, IsReuse

\* Attaching a review log changes a final status only into another one.
LEMMA AttachedIsFinal ==
  ASSUME NEW row \in Rows, row.status \in Terminal, NEW required, NEW outcome
  PROVE  LET q == Attached(row, required, outcome) IN q \in Rows /\ q.status \in Terminal
BY DEF Rows, Terminal, Attached

\* So does storing a result.
LEMMA ResultIsFinal ==
  ASSUME NEW row \in Rows, NEW status \in Terminal
  PROVE  LET q == [row EXCEPT !.status = status] IN q \in Rows /\ q.status = status
BY DEF Rows

\* A step of one callback handler.
LEMMA CallKeepsFinal ==
  ASSUME TypeOK, FinalInv, NEW b \in Builds, NEW i \in 1..Attempts, NEW q \in Calls,
         SetCall(b, i, q), UNCHANGED trig,
         \A d \in Builds \ {b} : db'[d] = db[d] /\ (d \in recorded' <=> d \in recorded),
         trig[b].pc \in Unsaved => q.pc \in {"get", "done"} /\ db'[b] = db[b],
         IsFinal(b) => IsFinal(b)',
         b \in recorded' \/ q.pc \in Saved => IsFinal(b)',
         q.pc = "attachSave" => q.row.status \in Terminal
  PROVE  FinalInv' /\ FinalStep
<1>1. /\ call' \in [Builds -> [1..Attempts -> Calls]]
      /\ call'[b][i] = q
      /\ \A d \in Builds, j \in 1..Attempts : d # b \/ j # i => call'[d][j] = call[d][j]
  BY SetCallEffect
<1>2. FinalOK(b)'
  <2>1. FinalOK(b)
    BY DEF FinalInv
  <2>2. \A j \in 1..Attempts : j # i => call'[b][j] = call[b][j]
    BY <1>1
  <2>3. trig'[b].pc \in Unsaved =>
          /\ db'[b] = NoRow
          /\ \A j \in 1..Attempts : call'[b][j].pc \in {"unsent", "get", "done"}
    BY <1>1, <2>1, <2>2 DEF FinalOK
  <2>4. \A j \in 1..Attempts :
          /\ call'[b][j].pc \in Saved => IsFinal(b)'
          /\ call'[b][j].pc = "attachSave" => call'[b][j].row.status \in Terminal
    BY <1>1, <2>1, <2>2 DEF FinalOK
  <2> QED BY <2>1, <2>3, <2>4 DEF FinalOK, IsReuse
<1>3. ASSUME NEW d \in Builds \ {b} PROVE FinalOK(d)' /\ (IsFinal(d) => IsFinal(d)')
  <2>1. FinalOK(d) /\ db'[d] = db[d] /\ trig'[d] = trig[d] /\ (d \in recorded' <=> d \in recorded)
    BY DEF FinalInv
  <2>2. \A j \in 1..Attempts : call'[d][j] = call[d][j]
    BY <1>1
  <2> QED BY <2>1, <2>2, FinalKept
<1> QED BY <1>2, <1>3 DEF FinalInv, FinalStep

\* A step of one trigger.
LEMMA TriggerKeepsFinal ==
  ASSUME TypeOK, FinalInv, NEW b \in Builds, NEW pc \in {"idle", "done"} \cup TriggerActive,
         NEW row \in Rows, SetTrigger(b, pc, row), UNCHANGED <<call, recorded>>,
         \A d \in Builds \ {b} : db'[d] = db[d],
         pc \in Unsaved => trig[b].pc \in Unsaved /\ db'[b] = db[b],
         IsFinal(b) => IsFinal(b)',
         pc = "attachSave" => row.status \in Terminal,
         pc = "attachGet" \/ (pc = "publish" /\ IsReuse(row)) => IsFinal(b)'
  PROVE  FinalInv' /\ FinalStep
<1>1. trig'[b].pc = pc /\ trig'[b].row = row /\ \A d \in Builds \ {b} : trig'[d] = trig[d]
  BY SetTriggerEffect
<1>2. FinalOK(b)'
  <2>1. FinalOK(b)
    BY DEF FinalInv
  <2> QED BY <1>1, <2>1 DEF FinalOK, IsReuse
<1>3. ASSUME NEW d \in Builds \ {b} PROVE FinalOK(d)' /\ (IsFinal(d) => IsFinal(d)')
  <2>1. FinalOK(d) /\ db'[d] = db[d] /\ trig'[d] = trig[d] /\ (d \in recorded' <=> d \in recorded)
    BY <1>1 DEF FinalInv
  <2> QED BY <2>1, FinalKept
<1> QED BY <1>2, <1>3 DEF FinalInv, FinalStep

\* trigger_pipeline saves its row once, before any callback can, and attaches a
\* review log only to a reused build, whose row is passed from the start.
LEMMA TriggerStaysFinal ==
  ASSUME IInv, FinalInv, NEW b \in Builds, TriggerStep(b) \/ TriggerRaises(b)
  PROVE  FinalInv' /\ FinalStep
<1>0. TypeOK /\ FinalOK(b) /\ RowOK(b, trig[b].row)
  BY DEF IInv, FinalInv
<1>1. trig[b].row \in Rows /\ trig[b].pc \in {"idle", "done"} \cup TriggerActive /\ db[b] \in Rows
  BY <1>0 DEF TypeOK, Triggers
<1>2. NoRow \in Rows /\ NewRow \in Rows /\ NoRow.status \notin Terminal
  BY FreshRows DEF NoRow, Terminal
<1>3. trig[b].pc \in Unsaved => ~IsFinal(b)
  BY <1>0, <1>2 DEF FinalOK, IsFinal
<1>4. CASE TriggerLookup(b)
  <2>1. UNCHANGED <<db, call, recorded>> /\ trig[b].pc = "idle"
    BY <1>4 DEF TriggerLookup
  <2>2. PICK pc \in {"trigger", "saveQueue"}, row \in Rows : SetTrigger(b, pc, row)
    <3>1. \A source \in Builds : ReusedRow(source) \in Rows
      BY <1>0 DEF TypeOK, ReusedRow, Rows, Terminal
    <3> QED BY <1>2, <1>4, <3>1 DEF TriggerLookup
  <2> QED BY <1>0, <2>1, <2>2, TriggerKeepsFinal DEF TriggerActive, Unsaved, IsFinal
<1>5. CASE TriggerJenkins(b)
  <2>1. UNCHANGED <<db, call, recorded>> /\ trig[b].pc = "trigger"
    BY <1>5 DEF TriggerJenkins
  <2>2. SetTrigger(b, "saveQueue", trig[b].row)
    BY <1>5 DEF TriggerJenkins, TriggerGoto
  <2> QED BY <1>0, <1>1, <2>1, <2>2, TriggerKeepsFinal DEF TriggerActive, Unsaved, IsFinal
<1>6. CASE TriggerSaveQueue(b)
  <2>1. UNCHANGED <<db, call, recorded>> /\ trig[b].pc = "saveQueue"
    BY <1>6 DEF TriggerSaveQueue
  <2>2. SetTrigger(b, "saveBuild", trig[b].row)
    BY <1>6 DEF TriggerSaveQueue, TriggerGoto
  <2> QED BY <1>0, <1>1, <2>1, <2>2, TriggerKeepsFinal DEF TriggerActive, Unsaved, IsFinal
<1>7. CASE TriggerSaveBuild(b)
  <2>1. UNCHANGED <<call, recorded>> /\ ~IsFinal(b)
    BY <1>3, <1>7 DEF TriggerSaveBuild, Unsaved
  <2>2. SetTrigger(b, "publish", trig[b].row)
    BY <1>7 DEF TriggerSaveBuild, TriggerGoto
  <2>3. db'[b] = trig[b].row /\ \A d \in Builds \ {b} : db'[d] = db[d]
    BY <1>0, <1>1, <1>7, StoreRowEffect DEF TriggerSaveBuild
  <2>4. IsReuse(trig[b].row) => IsFinal(b)'
    BY <1>0, <2>3 DEF RowOK, IsFinal
  <2> QED BY <1>0, <1>1, <2>1, <2>2, <2>3, <2>4, TriggerKeepsFinal DEF TriggerActive, Unsaved
<1>8. CASE SetTrigger(b, "done", NoRow) /\ UNCHANGED <<db, call, recorded>>
  BY <1>0, <1>2, <1>8, TriggerKeepsFinal DEF Unsaved, IsFinal
<1>9. CASE TriggerPublish(b)
  <2>1. UNCHANGED <<db, call, recorded>> /\ trig[b].pc = "publish"
    BY <1>9 DEF TriggerPublish
  <2>2. CASE IsReuse(trig[b].row) /\ SetTrigger(b, "attachGet", trig[b].row)
    <3>1. IsFinal(b)
      BY <1>0, <2>1, <2>2 DEF FinalOK
    <3> QED BY <1>0, <1>1, <2>1, <2>2, <3>1, TriggerKeepsFinal DEF TriggerActive, Unsaved, IsFinal
  <2> QED BY <1>8, <1>9, <2>1, <2>2 DEF TriggerPublish, TriggerGoto, TriggerEnds
<1>10. CASE TriggerAttachGet(b)
  <2>1. UNCHANGED <<db, call, recorded>> /\ trig[b].pc = "attachGet"
    BY <1>10 DEF TriggerAttachGet
  <2>2. IsFinal(b)
    BY <1>0, <2>1 DEF FinalOK
  <2>3. CASE SetTrigger(b, "attachSave", db[b])
    BY <1>0, <1>1, <2>1, <2>2, <2>3, TriggerKeepsFinal DEF TriggerActive, Unsaved, IsFinal
  <2> QED BY <1>8, <1>10, <2>1, <2>3 DEF TriggerAttachGet, TriggerEnds
<1>11. CASE TriggerAttachSave(b)
  <2>1. UNCHANGED <<call, recorded>> /\ SetTrigger(b, "done", NoRow)
    BY <1>11 DEF TriggerAttachSave, TriggerEnds
  <2>2. PICK row \in Rows : StoreRow(b, row) /\ row.status \in Terminal
    <3>1. PICK outcome : StoreRow(b, Attached(trig[b].row, TRUE, outcome))
      BY <1>11 DEF TriggerAttachSave
    <3>2. trig[b].row.status \in Terminal
      BY <1>0, <1>11 DEF FinalOK, TriggerAttachSave
    <3> QED BY <1>1, <3>1, <3>2, AttachedIsFinal
  <2>3. db'[b] = row /\ \A d \in Builds \ {b} : db'[d] = db[d]
    BY <1>0, <2>2, StoreRowEffect
  <2> QED BY <1>0, <1>2, <2>1, <2>2, <2>3, TriggerKeepsFinal DEF Unsaved, IsFinal
<1>12. CASE TriggerRaises(b)
  BY <1>8, <1>12 DEF TriggerRaises, TriggerEnds
<1> QED BY <1>4, <1>5, <1>6, <1>7, <1>9, <1>10, <1>11, <1>12 DEF TriggerStep

\* complete_build stores a final status before it publishes and records, and a
\* handler that finds the delivery recorded finds the row final.
LEMMA CallStaysFinal ==
  ASSUME IInv, FinalInv, NEW b \in Builds, NEW i \in 1..Attempts,
         CallHandlerStep(b, i) \/ CallRaises(b, i)
  PROVE  FinalInv' /\ FinalStep
<1>0. TypeOK /\ FinalOK(b) /\ db[b] \in Rows /\ UNCHANGED trig
  BY DEF IInv, FinalInv, TypeOK, CallHandlerStep, CallGet, CallCheckDuplicate, CallSave,
         CallPublish, CallRecord, CallQueue, CallAttachGet, CallAttachSave, CallRaises
<1>1. PICK h \in Calls : h = call[b][i]
  BY <1>0 DEF TypeOK
<1>2. h.row \in Rows
  BY DEF Calls
<1>3. h.pc \notin {"unsent", "get", "done"} => trig[b].pc \notin Unsaved
  BY <1>0, <1>1 DEF FinalOK
<1>4. ASSUME UNCHANGED <<db, recorded>>, NEW reply \in {"ok", "error"}, SetCall(b, i, Ended(reply))
      PROVE  FinalInv' /\ FinalStep
  <2>1. PICK q \in Calls : q = Ended(reply) /\ q.pc = "done"
    BY <1>1, <1>4, HandlerEnds
  <2>2. SetCall(b, i, q) /\ q.pc \notin Saved /\ q.pc # "attachSave"
    BY <1>4, <2>1 DEF Saved
  <2> QED BY <1>0, <1>4, <2>1, <2>2, CallKeepsFinal DEF FinalOK, IsFinal
<1>5. ASSUME UNCHANGED <<db, recorded>>, SetCall(b, i, Failed(h)) PROVE FinalInv' /\ FinalStep
  BY <1>4, <1>5 DEF Failed
<1>6. ASSUME UNCHANGED db, IsFinal(b), h.pc \notin {"unsent", "get", "done"},
             recorded' \in {recorded, recorded \cup {b}},
             NEW q \in Calls, SetCall(b, i, q), q.pc \in Saved
      PROVE  FinalInv' /\ FinalStep
  BY <1>0, <1>3, <1>6, CallKeepsFinal DEF IsFinal, Saved
<1>7. \A reply \in {"none", "ok", "error"} : [h EXCEPT !.pc = "attachGet", !.reply = reply] \in Calls
  BY DEF Calls, CallActive
<1>8. \A pc \in CallActive : [h EXCEPT !.pc = pc] \in Calls /\ [h EXCEPT !.pc = pc].pc = pc
  BY DEF Calls
<1>9. ASSUME NEW from \in {"dup", "record", "queue"}, ToReview(b, i, from), IsFinal(b),
             UNCHANGED db, recorded' \in {recorded, recorded \cup {b}}
      PROVE  FinalInv' /\ FinalStep
  <2>1. PICK reply \in {"none", "ok", "error"} :
          SetCall(b, i, [h EXCEPT !.pc = "attachGet", !.reply = reply])
    BY <1>1, <1>9 DEF ToReview, Calls
  <2>2. PICK q \in Calls : SetCall(b, i, q) /\ q.pc = "attachGet"
    BY <1>7, <2>1 DEF Calls
  <2> QED BY <1>1, <1>6, <1>9, <2>2 DEF ToReview, Saved
<1>10. CASE CallGet(b, i)
  <2>1. UNCHANGED <<db, recorded>> /\ h.pc = "get"
    BY <1>1, <1>10 DEF CallGet
  <2>2. CASE db[b] = NoRow
    BY <1>1, <1>5, <1>10, <2>1, <2>2 DEF CallGet
  <2>3. CASE db[b] # NoRow
    <3>1. SetCall(b, i, [h EXCEPT !.pc = "dup", !.row = db[b]])
      BY <1>1, <1>10, <2>3 DEF CallGet
    <3>2. PICK q \in Calls : SetCall(b, i, q) /\ q.pc = "dup"
      <4> DEFINE q == [h EXCEPT !.pc = "dup", !.row = db[b]]
      <4>1. q \in Calls /\ q.pc = "dup"
        BY <1>0 DEF Calls, CallActive
      <4> QED BY <3>1, <4>1
    <3>3. trig[b].pc \notin Unsaved
      BY <1>0, <2>3 DEF FinalOK
    <3> QED BY <1>0, <2>1, <3>2, <3>3, CallKeepsFinal DEF FinalOK, IsFinal, Saved
  <2> QED BY <2>2, <2>3
<1>11. CASE CallCheckDuplicate(b, i)
  <2>1. UNCHANGED <<db, recorded>>
    BY <1>11 DEF CallCheckDuplicate
  <2>2. CASE b \in recorded /\ ToReview(b, i, "dup")
    <3>1. IsFinal(b)
      BY <1>0, <2>2 DEF FinalOK
    <3> QED BY <1>9, <2>1, <2>2, <3>1
  <2>3. CASE CallStep(b, i, "dup", "save")
    <3>1. h.pc = "dup" /\ SetCall(b, i, [h EXCEPT !.pc = "save"])
      BY <1>1, <2>3 DEF CallStep
    <3>2. PICK q \in Calls : SetCall(b, i, q) /\ q.pc = "save"
      BY <1>8, <3>1 DEF CallActive
    <3>3. b \in recorded => IsFinal(b)
      BY <1>0 DEF FinalOK
    <3> QED BY <1>0, <1>3, <2>1, <3>1, <3>2, <3>3, CallKeepsFinal DEF IsFinal, Saved
  <2> QED BY <1>11, <2>2, <2>3 DEF CallCheckDuplicate
<1>12. CASE CallSave(b, i)
  <2>1. UNCHANGED recorded /\ h.pc = "save"
    BY <1>1, <1>12 DEF CallSave
  <2>2. CallbackStatus(b) \in Terminal
    BY <1>0 DEF TypeOK, Runs, CallbackStatus, Terminal
  <2>3. PICK row \in Rows : StoreRow(b, row) /\ row.status \in Terminal
    <3>1. StoreRow(b, [h.row EXCEPT !.status = CallbackStatus(b)])
      BY <1>1, <1>12 DEF CallSave
    <3> QED BY <1>2, <2>2, <3>1, ResultIsFinal
  <2>4. db'[b] = row /\ \A d \in Builds \ {b} : db'[d] = db[d]
    BY <1>0, <2>3, StoreRowEffect
  <2>5. PICK q \in Calls : SetCall(b, i, q) /\ q.pc = "publish"
    <3>1. SetCall(b, i, [h EXCEPT !.pc = "publish", !.row = NoRow])
      BY <1>1, <1>12 DEF CallSave
    <3> DEFINE q == [h EXCEPT !.pc = "publish", !.row = NoRow]
    <3>2. q \in Calls /\ q.pc = "publish"
      BY FreshRows DEF Calls, CallActive
    <3> QED BY <3>1, <3>2
  <2> QED BY <1>0, <1>3, <2>1, <2>3, <2>4, <2>5, CallKeepsFinal DEF IsFinal, Saved
<1>13. CASE CallPublish(b, i)
  <2>1. UNCHANGED <<db, recorded>> /\ h.pc = "publish" /\ SetCall(b, i, [h EXCEPT !.pc = "record"])
    BY <1>1, <1>13 DEF CallPublish, CallStep
  <2>2. IsFinal(b)
    BY <1>0, <1>1, <2>1 DEF FinalOK, Saved
  <2>3. PICK q \in Calls : SetCall(b, i, q) /\ q.pc = "record"
    BY <1>8, <2>1 DEF CallActive
  <2> QED BY <1>6, <2>1, <2>2, <2>3 DEF Saved
<1>14. CASE CallRecord(b, i)
  <2>1. UNCHANGED db /\ recorded' = recorded \cup {b} /\ h.pc = "record"
    BY <1>1, <1>14 DEF CallRecord, ToReview, CallStep
  <2>2. IsFinal(b)
    BY <1>0, <1>1, <2>1 DEF FinalOK, Saved
  <2>3. CASE ToReview(b, i, "record")
    BY <1>9, <2>1, <2>2, <2>3
  <2>4. CASE SetCall(b, i, [h EXCEPT !.pc = "queue"])
    <3>1. PICK q \in Calls : SetCall(b, i, q) /\ q.pc = "queue"
      BY <1>8, <2>4 DEF CallActive
    <3> QED BY <1>6, <2>1, <2>2, <3>1 DEF Saved
  <2> QED BY <1>1, <1>14, <2>3, <2>4 DEF CallRecord, CallStep
<1>15. CASE CallQueue(b, i)
  <2>1. UNCHANGED <<db, recorded>> /\ h.pc = "queue" /\ ToReview(b, i, "queue")
    BY <1>1, <1>15 DEF CallQueue, ToReview
  <2>2. IsFinal(b)
    BY <1>0, <1>1, <2>1 DEF FinalOK, Saved
  <2> QED BY <1>9, <2>1, <2>2
<1>16. CASE CallAttachGet(b, i)
  <2>1. UNCHANGED <<db, recorded>> /\ h.pc = "attachGet"
    BY <1>1, <1>16 DEF CallAttachGet
  <2>2. IsFinal(b)
    BY <1>0, <1>1, <2>1 DEF FinalOK, Saved
  <2>3. CASE SetCall(b, i, [h EXCEPT !.pc = "attachSave", !.row = db[b]])
    <3>1. PICK q \in Calls : SetCall(b, i, q) /\ q.pc = "attachSave" /\ q.row = db[b]
      <4> DEFINE q == [h EXCEPT !.pc = "attachSave", !.row = db[b]]
      <4>1. q \in Calls /\ q.pc = "attachSave" /\ q.row = db[b]
        BY <1>0 DEF Calls, CallActive
      <4> QED BY <2>3, <4>1
    <3> QED BY <1>0, <1>3, <2>1, <2>2, <3>1, CallKeepsFinal DEF IsFinal, Saved
  <2> QED BY <1>1, <1>4, <1>16, <2>1, <2>3 DEF CallAttachGet
<1>17. CASE CallAttachSave(b, i)
  <2>1. UNCHANGED recorded /\ h.pc = "attachSave" /\ h.row.status \in Terminal
    BY <1>0, <1>1, <1>17 DEF CallAttachSave, FinalOK
  <2>2. PICK row \in Rows : StoreRow(b, row) /\ row.status \in Terminal
    <3> DEFINE required == b \in PullRequests
    <3>1. PICK outcome : StoreRow(b, Attached(h.row, required, outcome))
      BY <1>1, <1>17 DEF CallAttachSave
    <3> QED BY <1>2, <2>1, <3>1, AttachedIsFinal
  <2>3. db'[b] = row /\ \A d \in Builds \ {b} : db'[d] = db[d]
    BY <1>0, <2>2, StoreRowEffect
  <2>4. PICK q \in Calls : SetCall(b, i, q) /\ q.pc = "done"
    BY <1>1, <1>17, HandlerEnds DEF CallAttachSave
  <2> QED BY <1>0, <1>3, <2>1, <2>2, <2>3, <2>4, CallKeepsFinal DEF IsFinal, Saved
<1>18. CASE CallRaises(b, i)
  BY <1>1, <1>5, <1>18 DEF CallRaises
<1> QED BY <1>10, <1>11, <1>12, <1>13, <1>14, <1>15, <1>16, <1>17, <1>18 DEF CallHandlerStep

\* The pipeline writes no row; it only starts handlers.
LEMMA JenkinsStaysFinal ==
  ASSUME IInv, FinalInv, NEW b \in Builds, JenkinsStep(b) \/ JenkinsAborts(b) \/ CallbackLost(b)
  PROVE  FinalInv' /\ FinalStep
<1>1. UNCHANGED <<db, trig, recorded>> /\ (CallbackSend(b) \/ UNCHANGED call)
  BY JenkinsFrame
<1>2. CASE UNCHANGED call
  BY <1>1, <1>2 DEF FinalInv, FinalOK, FinalStep, IsFinal, IsReuse
<1>3. CASE CallbackSend(b)
  <2>1. TypeOK /\ RunOK(jenkins[b]) /\ FinalOK(b)
    BY DEF IInv, FinalInv
  <2>2. PICK i \in 1..Attempts : SetCall(b, i, [call[b][i] EXCEPT !.pc = "get"])
    <3>1. jenkins[b].attempt + 1 \in 1..Attempts
      BY <1>3, <2>1 DEF CallbackSend, TypeOK, Runs
    <3> QED BY <1>3, <3>1 DEF CallbackSend
  <2>3. PICK q \in Calls : SetCall(b, i, q) /\ q.pc = "get"
    <3>1. PICK h \in Calls : h = call[b][i]
      BY <2>1 DEF TypeOK
    <3> DEFINE q == [h EXCEPT !.pc = "get"]
    <3>2. q \in Calls /\ q.pc = "get"
      BY DEF Calls, CallActive
    <3>3. SetCall(b, i, q)
      BY <2>2, <3>1
    <3> QED BY <3>2, <3>3
  <2> QED BY <1>1, <2>1, <2>3, CallKeepsFinal DEF FinalOK, IsFinal, Saved
<1> QED BY <1>1, <1>2, <1>3

\* A restart drops copies and writes none.
LEMMA CrashStaysFinal ==
  ASSUME IInv, FinalInv, Crash
  PROVE  FinalInv' /\ FinalStep
<1>1. TypeOK /\ UNCHANGED <<db, recorded>>
  BY DEF IInv, Crash
<1>2. ASSUME NEW b \in Builds PROVE FinalOK(b)'
  <2>1. FinalOK(b)
    BY DEF FinalInv
  <2>2. trig'[b] = trig[b] \/ (trig'[b].pc = "done" /\ trig'[b].row = NoRow)
    BY DEF Crash
  <2>3. \A i \in 1..Attempts : call'[b][i] = call[b][i] \/ call'[b][i].pc = "done"
    BY <1>1 DEF Crash, Failed, Ended
  <2> QED BY <1>1, <2>1, <2>2, <2>3 DEF FinalOK, IsFinal, IsReuse, Unsaved, Saved
<1> QED BY <1>1, <1>2 DEF FinalInv, FinalStep, IsFinal

\* Without a client that refreshes or cancels, a build that is passed, failed
\* or cancelled stays so: complete_build and trigger_pipeline never write a
\* stale copy over a final row, however attempts overlap, fail or die.  (The
\* hypothesis is needed: _refresh_build does write stale copies back.)
THEOREM FinishedStays ==
  ASSUME Clients = {}
  PROVE  Spec => TerminalStays
<1>1. Init => FinalInv
  BY DEF Init, FinalInv, FinalOK, IsFinal, IsReuse, NoRow, Unsent, Unsaved, Saved
<1>2. ASSUME IInv, FinalInv, [Next]_vars PROVE FinalInv' /\ FinalStep
  <2>1. CASE UNCHANGED vars
    BY <1>2, <2>1 DEF vars, gatewayVars, FinalInv, FinalOK, FinalStep, IsFinal, IsReuse
  <2> QED BY <1>2, <2>1, TriggerStaysFinal, CallStaysFinal, JenkinsStaysFinal, CrashStaysFinal
          DEF Next
<1>3. FinalStep => (\A b \in Builds : db[b].status \in Terminal => db'[b].status \in Terminal)
  BY DEF FinalStep, IsFinal
<1> QED BY Inductive, <1>1, <1>2, <1>3, PTL DEF Spec, TerminalStays

-----------------------------------------------------------------------------
(* With clients: a finished build that nobody holds a stale copy of stays  *)
(* finished.                                                               *)

\* Until the trigger saves the row, no callback and no client gets past its
\* lookup.
NobodyEarly(b) ==
  trig[b].pc \in Unsaved =>
    /\ db[b] = NoRow
    /\ \A i \in 1..Attempts : call[b][i].pc \in {"unsent", "get", "done"}
    /\ \A c \in Clients : client[c].build = b => client[c].pc \in {"idle", "get"}

\* What _refresh_build and cancel_pipeline save last is final.
LastSaveIsFinal(request) == request.pc = "saveFinal" => request.row.status \in Terminal

SettleInv ==
  /\ \A b \in Builds : NobodyEarly(b)
  /\ \A c \in Clients : LastSaveIsFinal(client[c])

SettledStep == \A b \in Builds : Settled(b) => Settled(b)'

\* What a step of one trigger does to the row and to its copy: it reads nothing,
\* or the row; it writes the first row, or attaches a log to its copy.
TriggerMoves(b, pc, row) ==
  /\ SetTrigger(b, pc, row) /\ UNCHANGED <<call, client>>
  /\ \/ UNCHANGED db /\ pc # "attachSave" /\ (pc \in Unsaved => trig[b].pc \in Unsaved)
     \/ UNCHANGED db /\ pc = "attachSave" /\ row = db[b]
     \/ /\ trig[b].pc \in Unsaved /\ pc = "publish"
        /\ \E new \in Rows : StoreRow(b, new)
     \/ /\ trig[b].pc = "attachSave" /\ pc = "done"
        /\ \E new \in Rows :
             StoreRow(b, new) /\ (trig[b].row.status \in Terminal => new.status \in Terminal)

LEMMA TriggerStepMoves ==
  ASSUME IInv, NEW b \in Builds, TriggerStep(b) \/ TriggerRaises(b)
  PROVE  \E pc \in {"idle", "done"} \cup TriggerActive, row \in Rows : TriggerMoves(b, pc, row)
<1>0. TypeOK
  BY DEF IInv
<1>1. /\ trig[b].row \in Rows /\ db[b] \in Rows /\ NoRow \in Rows /\ NewRow \in Rows
      /\ UNCHANGED <<call, client>>
  BY <1>0, FreshRows
  DEF TypeOK, Triggers, TriggerStep, TriggerRaises, TriggerLookup, TriggerJenkins,
      TriggerSaveQueue, TriggerSaveBuild, TriggerPublish, TriggerAttachGet, TriggerAttachSave
<1>2. CASE SetTrigger(b, "done", NoRow) /\ UNCHANGED db
  BY <1>1, <1>2 DEF TriggerMoves, Unsaved
<1>3. CASE TriggerLookup(b)
  <2>1. \A source \in Builds : ReusedRow(source) \in Rows
    BY <1>0 DEF TypeOK, ReusedRow, Rows, Terminal
  <2>2. PICK pc \in {"trigger", "saveQueue"}, row \in Rows : SetTrigger(b, pc, row)
    BY <1>1, <1>3, <2>1 DEF TriggerLookup
  <2> QED BY <1>1, <1>3, <2>2 DEF TriggerMoves, TriggerLookup, Unsaved, TriggerActive
<1>4. CASE TriggerJenkins(b) \/ TriggerSaveQueue(b)
  BY <1>1, <1>4
  DEF TriggerJenkins, TriggerSaveQueue, TriggerGoto, TriggerMoves, Unsaved, TriggerActive
<1>5. CASE TriggerSaveBuild(b)
  BY <1>1, <1>5 DEF TriggerSaveBuild, TriggerGoto, TriggerMoves, Unsaved, TriggerActive
<1>6. CASE TriggerPublish(b)
  <2>1. CASE SetTrigger(b, "attachGet", trig[b].row)
    BY <1>1, <1>6, <2>1 DEF TriggerPublish, TriggerMoves, Unsaved, TriggerActive
  <2> QED BY <1>2, <1>6, <2>1 DEF TriggerPublish, TriggerGoto, TriggerEnds
<1>7. CASE TriggerAttachGet(b)
  <2>1. CASE SetTrigger(b, "attachSave", db[b])
    BY <1>1, <1>7, <2>1 DEF TriggerAttachGet, TriggerMoves, TriggerActive
  <2> QED BY <1>2, <1>7, <2>1 DEF TriggerAttachGet, TriggerEnds
<1>8. CASE TriggerAttachSave(b)
  <2>1. PICK outcome : StoreRow(b, Attached(trig[b].row, TRUE, outcome))
    BY <1>8 DEF TriggerAttachSave
  <2>2. PICK new \in Rows : new = Attached(trig[b].row, TRUE, outcome)
    BY <1>1 DEF Attached, Rows, Terminal
  <2>3. trig[b].row.status \in Terminal => new.status \in Terminal
    BY <1>1, <2>2, AttachedIsFinal
  <2> QED BY <1>1, <1>8, <2>1, <2>2, <2>3 DEF TriggerAttachSave, TriggerEnds, TriggerMoves
<1> QED BY <1>2, <1>3, <1>4, <1>5, <1>6, <1>7, <1>8 DEF TriggerStep, TriggerRaises, TriggerEnds

\* A build that a step does not concern.
LEMMA SettledElsewhere ==
  ASSUME NEW d \in Builds, db'[d] = db[d], trig'[d] = trig[d],
         \A j \in 1..Attempts : call'[d][j] = call[d][j], UNCHANGED client
  PROVE  (NobodyEarly(d) => NobodyEarly(d)') /\ (Settled(d) => Settled(d)')
BY DEF NobodyEarly, Settled

LEMMA TriggerSettles ==
  ASSUME IInv, SettleInv, NEW b \in Builds, TriggerStep(b) \/ TriggerRaises(b)
  PROVE  SettleInv' /\ SettledStep
<1>0. TypeOK /\ NobodyEarly(b) /\ NoRow.status \notin Terminal
  BY DEF IInv, SettleInv, NoRow, Terminal
<1>1. PICK pc \in {"idle", "done"} \cup TriggerActive, row \in Rows : TriggerMoves(b, pc, row)
  BY TriggerStepMoves
<1>2. /\ trig'[b].pc = pc /\ trig'[b].row = row
      /\ \A d \in Builds \ {b} : trig'[d] = trig[d]
  BY <1>0, <1>1, SetTriggerEffect DEF TriggerMoves
<1>3. UNCHANGED <<call, client>> /\ \A d \in Builds \ {b} : db'[d] = db[d]
  BY <1>0, <1>1, StoreRowEffect DEF TriggerMoves
<1>4. NobodyEarly(b)' /\ (Settled(b) => Settled(b)')
  <2>1. CASE UNCHANGED db /\ pc # "attachSave" /\ (pc \in Unsaved => trig[b].pc \in Unsaved)
    BY <1>0, <1>2, <1>3, <2>1 DEF NobodyEarly, Settled
  <2>2. CASE UNCHANGED db /\ pc = "attachSave" /\ row = db[b]
    BY <1>2, <1>3, <2>2 DEF NobodyEarly, Settled, Unsaved
  <2>3. CASE trig[b].pc \in Unsaved /\ pc = "publish"
    <3>1. ~Settled(b)
      BY <1>0, <2>3 DEF NobodyEarly, Settled
    <3> QED BY <1>2, <2>3, <3>1 DEF NobodyEarly, Unsaved
  <2>4. CASE /\ trig[b].pc = "attachSave" /\ pc = "done"
             /\ \E new \in Rows :
                  StoreRow(b, new) /\ (trig[b].row.status \in Terminal => new.status \in Terminal)
    <3>1. PICK new \in Rows :
            StoreRow(b, new) /\ (trig[b].row.status \in Terminal => new.status \in Terminal)
      BY <2>4
    <3>2. db'[b] = new
      BY <1>0, <3>1, StoreRowEffect
    <3> QED BY <1>2, <1>3, <2>4, <3>1, <3>2 DEF NobodyEarly, Settled, Unsaved
  <2> QED BY <1>1, <2>1, <2>2, <2>3, <2>4 DEF TriggerMoves
<1>5. ASSUME NEW d \in Builds \ {b}
      PROVE  NobodyEarly(d)' /\ (Settled(d) => Settled(d)')
  BY <1>2, <1>3, SettledElsewhere DEF SettleInv
<1>6. \A c \in Clients : LastSaveIsFinal(client[c])'
  BY <1>3 DEF SettleInv, LastSaveIsFinal
<1> QED BY <1>4, <1>5, <1>6 DEF SettleInv, SettledStep

\* What a step of one callback handler does: it ends or goes on without reading,
\* or reads a row that is there; it writes a result, or attaches a log to its copy.
CallMoves(b, i, q) ==
  /\ SetCall(b, i, q) /\ UNCHANGED <<trig, client>>
  /\ \/ UNCHANGED db /\ q.pc \in {"get", "done"}
     \/ /\ UNCHANGED db
        /\ call[b][i].pc \notin {"unsent", "get", "done"} \/ db[b] # NoRow
        /\ q.pc = "attachSave" => q.row = db[b]
     \/ /\ call[b][i].pc \notin {"unsent", "get", "done"} /\ q.pc # "attachSave"
        /\ \E new \in Rows :
             /\ StoreRow(b, new)
             /\ \/ new.status \in Terminal
                \/ call[b][i].pc = "attachSave" /\ call[b][i].row.status \notin Terminal

LEMMA CallStepMoves ==
  ASSUME IInv, NEW b \in Builds, NEW i \in 1..Attempts,
         CallHandlerStep(b, i) \/ CallRaises(b, i)
  PROVE  \E q \in Calls : CallMoves(b, i, q)
<1>0. TypeOK /\ db[b] \in Rows /\ UNCHANGED <<trig, client>>
  BY DEF IInv, TypeOK, CallHandlerStep, CallGet, CallCheckDuplicate, CallSave,
         CallPublish, CallRecord, CallQueue, CallAttachGet, CallAttachSave, CallRaises
<1>1. PICK h \in Calls : h = call[b][i]
  BY <1>0 DEF TypeOK
<1>2. h.row \in Rows /\ h.reply \in {"none", "ok", "error"}
  BY DEF Calls
<1>3. ASSUME UNCHANGED db, NEW reply \in {"ok", "error"}, SetCall(b, i, Ended(reply))
      PROVE  \E q \in Calls : CallMoves(b, i, q)
  <2>1. PICK q \in Calls : q = Ended(reply) /\ q.pc = "done"
    BY <1>1, <1>3, HandlerEnds
  <2> QED BY <1>0, <1>3, <2>1 DEF CallMoves
<1>4. ASSUME UNCHANGED db, SetCall(b, i, Failed(h)) PROVE \E q \in Calls : CallMoves(b, i, q)
  BY <1>3, <1>4 DEF Failed
<1>5. ASSUME UNCHANGED db, h.pc \notin {"unsent", "get", "done"}, NEW q \in Calls,
             SetCall(b, i, q), q.pc # "attachSave"
      PROVE  \E x \in Calls : CallMoves(b, i, x)
  BY <1>0, <1>1, <1>5 DEF CallMoves
<1>6. ASSUME UNCHANGED db, NEW from \in CallActive \ {"get"}, NEW to \in CallActive \ {"attachSave"},
             CallStep(b, i, from, to)
      PROVE  \E q \in Calls : CallMoves(b, i, q)
  <2> DEFINE q == [h EXCEPT !.pc = to]
  <2>1. q \in Calls /\ q.pc = to
    BY <1>6 DEF Calls
  <2>2. SetCall(b, i, q) /\ h.pc = from
    BY <1>1, <1>6 DEF CallStep
  <2> QED BY <1>5, <1>6, <2>1, <2>2 DEF CallActive
<1>7. ASSUME UNCHANGED db, NEW from \in CallActive \ {"get"}, ToReview(b, i, from)
      PROVE  \E q \in Calls : CallMoves(b, i, q)
  <2>1. PICK reply \in {"none", "ok", "error"} :
          SetCall(b, i, [h EXCEPT !.pc = "attachGet", !.reply = reply])
    BY <1>1, <1>2, <1>7 DEF ToReview
  <2> DEFINE q == [h EXCEPT !.pc = "attachGet", !.reply = reply]
  <2>2. q \in Calls /\ q.pc = "attachGet"
    BY DEF Calls, CallActive
  <2>3. SetCall(b, i, q) /\ h.pc = from
    BY <1>1, <1>7, <2>1 DEF ToReview
  <2> QED BY <1>5, <1>7, <2>2, <2>3 DEF CallActive
<1>8. CASE CallGet(b, i)
  <2>1. UNCHANGED db
    BY <1>8 DEF CallGet
  <2>2. CASE db[b] = NoRow
    BY <1>1, <1>4, <1>8, <2>1, <2>2 DEF CallGet
  <2>3. CASE db[b] # NoRow
    <3> DEFINE q == [h EXCEPT !.pc = "dup", !.row = db[b]]
    <3>1. q \in Calls /\ q.pc = "dup"
      BY <1>0 DEF Calls, CallActive
    <3>2. SetCall(b, i, q)
      BY <1>1, <1>8, <2>3 DEF CallGet
    <3> QED BY <1>0, <2>1, <2>3, <3>1, <3>2 DEF CallMoves
  <2> QED BY <2>2, <2>3
<1>9. CASE CallCheckDuplicate(b, i) \/ CallRecord(b, i)
  BY <1>6, <1>7, <1>9 DEF CallCheckDuplicate, CallRecord, CallActive
<1>10. CASE CallPublish(b, i) \/ CallQueue(b, i)
  BY <1>6, <1>7, <1>10 DEF CallPublish, CallQueue, CallActive
<1>11. CASE CallSave(b, i)
  <2>1. CallbackStatus(b) \in Terminal
    BY <1>0 DEF TypeOK, Runs, CallbackStatus, Terminal
  <2>2. h.pc = "save"
    BY <1>1, <1>11 DEF CallSave
  <2>3. PICK new \in Rows : StoreRow(b, new) /\ new.status \in Terminal
    <3>1. StoreRow(b, [h.row EXCEPT !.status = CallbackStatus(b)])
      BY <1>1, <1>11 DEF CallSave
    <3> QED BY <1>2, <2>1, <3>1, ResultIsFinal
  <2> DEFINE q == [h EXCEPT !.pc = "publish", !.row = NoRow]
  <2>4. q \in Calls /\ q.pc = "publish"
    BY FreshRows DEF Calls, CallActive
  <2>5. SetCall(b, i, q)
    BY <1>1, <1>11 DEF CallSave
  <2> QED BY <1>0, <1>1, <2>2, <2>3, <2>4, <2>5 DEF CallMoves
<1>12. CASE CallAttachGet(b, i)
  <2>1. UNCHANGED db /\ h.pc = "attachGet"
    BY <1>1, <1>12 DEF CallAttachGet
  <2>2. CASE SetCall(b, i, [h EXCEPT !.pc = "attachSave", !.row = db[b]])
    <3> DEFINE q == [h EXCEPT !.pc = "attachSave", !.row = db[b]]
    <3>1. q \in Calls /\ q.row = db[b]
      BY <1>0 DEF Calls, CallActive
    <3> QED BY <1>0, <1>1, <2>1, <2>2, <3>1 DEF CallMoves
  <2> QED BY <1>1, <1>3, <1>12, <2>1, <2>2 DEF CallAttachGet
<1>13. CASE CallAttachSave(b, i)
  <2> DEFINE required == b \in PullRequests
  <2>1. PICK outcome : StoreRow(b, Attached(h.row, required, outcome))
    BY <1>1, <1>13 DEF CallAttachSave
  <2>2. PICK new \in Rows : new = Attached(h.row, required, outcome)
    BY <1>2 DEF Attached, Rows, Terminal
  <2>3. h.row.status \in Terminal => new.status \in Terminal
    BY <1>2, <2>2, AttachedIsFinal
  <2>4. PICK q \in Calls : SetCall(b, i, q) /\ q.pc = "done"
    BY <1>1, <1>13, HandlerEnds DEF CallAttachSave
  <2>5. StoreRow(b, new) /\ h.pc = "attachSave"
    BY <1>1, <1>13, <2>1, <2>2 DEF CallAttachSave
  <2> QED BY <1>0, <1>1, <2>3, <2>4, <2>5 DEF CallMoves
<1>14. CASE CallRaises(b, i)
  BY <1>1, <1>4, <1>14 DEF CallRaises
<1> QED BY <1>8, <1>9, <1>10, <1>11, <1>12, <1>13, <1>14 DEF CallHandlerStep

LEMMA CallMovesSettles ==
  ASSUME TypeOK, SettleInv, NEW b \in Builds, NEW i \in 1..Attempts, NEW q \in Calls,
         CallMoves(b, i, q)
  PROVE  SettleInv' /\ SettledStep
<1>0. NobodyEarly(b)
  BY DEF SettleInv
<1>1. /\ call' \in [Builds -> [1..Attempts -> Calls]]
      /\ call'[b][i] = q
      /\ \A d \in Builds, j \in 1..Attempts : d # b \/ j # i => call'[d][j] = call[d][j]
  BY SetCallEffect DEF CallMoves
<1>2. \A j \in 1..Attempts : j # i => call'[b][j] = call[b][j]
  BY <1>1
<1>3. UNCHANGED <<trig, client>> /\ \A d \in Builds \ {b} : db'[d] = db[d]
  BY StoreRowEffect DEF CallMoves
<1>4. ASSUME trig[b].pc \in Unsaved
      PROVE  UNCHANGED db /\ q.pc \in {"get", "done"}
  BY <1>0, <1>4 DEF CallMoves, NobodyEarly
<1>5. NobodyEarly(b)'
  BY <1>0, <1>1, <1>2, <1>3, <1>4 DEF NobodyEarly
<1>6. ASSUME Settled(b)
      PROVE  db'[b].status \in Terminal /\ (q.pc = "attachSave" => q.row.status \in Terminal)
  <2>1. CASE UNCHANGED db /\ q.pc \in {"get", "done"}
    BY <1>6, <2>1 DEF Settled
  <2>2. CASE UNCHANGED db /\ (q.pc = "attachSave" => q.row = db[b])
    BY <1>6, <2>2 DEF Settled
  <2>3. ASSUME NEW new \in Rows, StoreRow(b, new), new.status \in Terminal, q.pc # "attachSave"
        PROVE  db'[b].status \in Terminal /\ (q.pc = "attachSave" => q.row.status \in Terminal)
    BY <2>3, StoreRowEffect
  <2>4. ~(call[b][i].pc = "attachSave" /\ call[b][i].row.status \notin Terminal)
    BY <1>6 DEF Settled
  <2> QED BY <2>1, <2>2, <2>3, <2>4 DEF CallMoves
<1>7. Settled(b) => Settled(b)'
  BY <1>1, <1>2, <1>3, <1>6 DEF Settled
<1>8. ASSUME NEW d \in Builds \ {b}
      PROVE  NobodyEarly(d)' /\ (Settled(d) => Settled(d)')
  <2>1. \A j \in 1..Attempts : call'[d][j] = call[d][j]
    BY <1>1
  <2> QED BY <1>3, <2>1, SettledElsewhere DEF SettleInv
<1>9. \A c \in Clients : LastSaveIsFinal(client[c])'
  BY <1>3 DEF SettleInv, LastSaveIsFinal
<1> QED BY <1>5, <1>7, <1>8, <1>9 DEF SettleInv, SettledStep

LEMMA JenkinsSettles ==
  ASSUME IInv, SettleInv, NEW b \in Builds,
         JenkinsStep(b) \/ JenkinsAborts(b) \/ CallbackLost(b)
  PROVE  SettleInv' /\ SettledStep
<1>1. UNCHANGED <<db, trig, client>> /\ (CallbackSend(b) \/ UNCHANGED call)
  BY JenkinsFrame
<1>2. CASE UNCHANGED call
  BY <1>1, <1>2 DEF SettleInv, NobodyEarly, LastSaveIsFinal, SettledStep, Settled
<1>3. CASE CallbackSend(b)
  <2>1. TypeOK
    BY DEF IInv
  <2>2. PICK i \in 1..Attempts : SetCall(b, i, [call[b][i] EXCEPT !.pc = "get"])
    <3>1. jenkins[b].attempt + 1 \in 1..Attempts
      BY <1>3, <2>1 DEF CallbackSend, TypeOK, Runs
    <3> QED BY <1>3, <3>1 DEF CallbackSend
  <2>3. PICK q \in Calls : SetCall(b, i, q) /\ q.pc = "get"
    <3>1. PICK h \in Calls : h = call[b][i]
      BY <2>1 DEF TypeOK
    <3> DEFINE q == [h EXCEPT !.pc = "get"]
    <3>2. q \in Calls /\ q.pc = "get"
      BY DEF Calls, CallActive
    <3>3. SetCall(b, i, q)
      BY <2>2, <3>1
    <3> QED BY <3>2, <3>3
  <2>4. CallMoves(b, i, q)
    BY <1>1, <2>3 DEF CallMoves
  <2> QED BY <2>1, <2>4, CallMovesSettles
<1> QED BY <1>1, <1>2, <1>3

LEMMA CrashSettles ==
  ASSUME IInv, SettleInv, Crash
  PROVE  SettleInv' /\ SettledStep
<1>1. TypeOK /\ UNCHANGED db
  BY DEF IInv, Crash
<1>2. \A c \in Clients : client'[c].pc = "idle"
  BY DEF Crash, IdleRequest
<1>3. ASSUME NEW b \in Builds PROVE NobodyEarly(b)' /\ (Settled(b) => Settled(b)')
  <2>1. NobodyEarly(b)
    BY DEF SettleInv
  <2>2. trig'[b] = trig[b] \/ (trig'[b].pc = "done" /\ trig'[b].row = NoRow)
    BY DEF Crash
  <2>3. \A i \in 1..Attempts : call'[b][i] = call[b][i] \/ call'[b][i].pc = "done"
    BY <1>1 DEF Crash, Failed, Ended
  <2> QED BY <1>1, <1>2, <2>1, <2>2, <2>3 DEF NobodyEarly, Settled, Unsaved, Refreshing
<1> QED BY <1>2, <1>3 DEF SettleInv, SettledStep, LastSaveIsFinal

\* What a step of one client does: its request begins or ends; or it reads a row
\* that is there, and refreshes it only if it is not final; or it goes on, and what
\* it writes is final unless it is refreshing.
ClientMoves(c, q) ==
  LET r == client[c] IN
  /\ SetClient(c, q) /\ UNCHANGED <<trig, call>>
  /\ LastSaveIsFinal(q)
  /\ \/ UNCHANGED db /\ q.pc \in {"idle", "get"}
     \/ /\ UNCHANGED db /\ q.build = r.build /\ db[r.build] # NoRow
        /\ db[r.build].status \in Terminal => q.pc \notin Refreshing
     \/ /\ r.pc \notin {"idle", "get"} /\ (q.build = r.build \/ q.pc = "idle")
        /\ q.pc \in Refreshing => r.pc \in Refreshing
        /\ \/ UNCHANGED db
           \/ \E row \in Rows :
                /\ StoreRow(r.build, row)
                /\ r.pc \in Refreshing \/ row.status \in Terminal

LEMMA GotoRequest ==
  ASSUME NEW c \in Clients, NEW r \in Requests, r = client[c],
         NEW pc \in ClientActive, NEW row \in Rows, ClientGoto(c, pc, row)
  PROVE  \E q \in Requests :
           SetClient(c, q) /\ q.pc = pc /\ q.row = row /\ q.build = r.build
<1> DEFINE q == [r EXCEPT !.pc = pc, !.row = row]
<1>1. q \in Requests /\ q.pc = pc /\ q.row = row /\ q.build = r.build
  BY DEF Requests
<1>2. SetClient(c, q)
  BY DEF ClientGoto
<1> QED BY <1>1, <1>2

LEMMA IdleIsRequest ==
  \E q \in Requests : q = IdleRequest /\ q.pc = "idle"
<1>1. IdleRequest.pc = "idle"
  BY DEF IdleRequest
<1> QED BY <1>1, IdleRequestOK

LEMMA RefreshedRequest ==
  ASSUME NEW c \in Clients, NEW r \in Requests, r = client[c], NEW row \in Rows, Refreshed(c, row)
  PROVE  \E q \in Requests :
           SetClient(c, q) /\ (q.pc = "idle" \/ (q.pc = "stop" /\ q.build = r.build))
<1>1. CASE r.op = "cancel"
  <2> DEFINE q == [r EXCEPT !.pc = "stop", !.row = row]
  <2>1. q \in Requests /\ q.pc = "stop" /\ q.build = r.build
    BY DEF Requests, ClientActive
  <2>2. SetClient(c, q)
    BY <1>1 DEF Refreshed
  <2> QED BY <2>1, <2>2
<1>2. CASE r.op # "cancel"
  BY <1>2, IdleIsRequest DEF Refreshed
<1> QED BY <1>1, <1>2

LEMMA ClientStepMoves ==
  ASSUME IInv, SettleInv, NEW c \in Clients,
         \/ ClientStep(c) \/ ClientRaises(c)
         \/ \E b \in Builds, op \in {"read", "cancel"} : ClientBegins(c, b, op)
  PROVE  \E q \in Requests : ClientMoves(c, q)
<1>0. TypeOK /\ LastSaveIsFinal(client[c]) /\ UNCHANGED <<trig, call>>
  BY DEF IInv, SettleInv, ClientStep, ClientRaises, ClientBegins, ClientGet, ClientQueueRead,
         ClientSaveNumber, ClientQueueStarted, ClientStatusRead, ClientSaveRunning,
         ClientResultRead, ClientSaveFinal, ClientQueueFinal, ClientStop, ClientLocal
<1>1. PICK r \in Requests : r = client[c]
  BY <1>0 DEF TypeOK
<1>2. r.build \in Builds /\ r.row \in Rows
  BY DEF Requests
<1>3. ASSUME UNCHANGED db, NEW q \in Requests, SetClient(c, q), q.pc \in {"idle", "get"}
      PROVE  \E x \in Requests : ClientMoves(c, x)
  BY <1>0, <1>3 DEF ClientMoves, LastSaveIsFinal
<1>4. ASSUME UNCHANGED db, SetClient(c, IdleRequest)
      PROVE  \E q \in Requests : ClientMoves(c, q)
  BY <1>3, <1>4, IdleIsRequest
\* It goes on without writing.
<1>5. ASSUME UNCHANGED db, r.pc \notin {"idle", "get"},
             NEW pc \in ClientActive, NEW row \in Rows, ClientGoto(c, pc, row),
             pc \in Refreshing => r.pc \in Refreshing,
             pc = "saveFinal" => row.status \in Terminal
      PROVE  \E q \in Requests : ClientMoves(c, q)
  <2>1. PICK q \in Requests : SetClient(c, q) /\ q.pc = pc /\ q.row = row /\ q.build = r.build
    BY <1>1, <1>5, GotoRequest
  <2> QED BY <1>0, <1>1, <1>5, <2>1 DEF ClientMoves, LastSaveIsFinal
<1>6. ASSUME UNCHANGED db, r.pc \notin {"idle", "get"}, NEW row \in Rows, Refreshed(c, row)
      PROVE  \E q \in Requests : ClientMoves(c, q)
  <2>1. PICK q \in Requests :
          SetClient(c, q) /\ (q.pc = "idle" \/ (q.pc = "stop" /\ q.build = r.build))
    BY <1>1, <1>6, RefreshedRequest
  <2> QED BY <1>0, <1>1, <1>6, <2>1 DEF ClientMoves, LastSaveIsFinal, Refreshing
\* Statuses that a client stores.
<1>7. \A status \in {"cancelled", "running"} \cup Terminal :
        /\ [r.row EXCEPT !.status = status] \in Rows
        /\ [r.row EXCEPT !.status = status].status = status
        /\ [r.row EXCEPT !.number = TRUE, !.status = status] \in Rows
  BY <1>2 DEF Rows, Terminal
<1>8. ASSUME NEW b \in Builds, NEW op \in {"read", "cancel"}, ClientBegins(c, b, op)
      PROVE  \E q \in Requests : ClientMoves(c, q)
  <2> DEFINE q == [pc |-> "get", op |-> op, build |-> b, row |-> NoRow]
  <2>1. q \in Requests /\ q.pc = "get"
    BY FreshRows DEF Requests, ClientActive
  <2>2. SetClient(c, q) /\ UNCHANGED db
    BY <1>8 DEF ClientBegins
  <2> QED BY <1>3, <2>1, <2>2
<1>9. CASE ClientGet(c)
  <2>1. PICK row \in Rows : row = db[r.build]
    BY <1>0, <1>2 DEF TypeOK
  <2>2. UNCHANGED db /\ r.pc = "get"
    BY <1>1, <1>9 DEF ClientGet, ClientLocal
  <2>3. CASE row = NoRow
    BY <1>1, <1>4, <1>9, <2>1, <2>2, <2>3 DEF ClientGet
  <2>4. CASE row # NoRow /\ row.status \in Terminal
    <3>1. Refreshed(c, row)
      BY <1>1, <1>9, <2>1, <2>4 DEF ClientGet
    <3>2. PICK q \in Requests :
            SetClient(c, q) /\ (q.pc = "idle" \/ (q.pc = "stop" /\ q.build = r.build))
      BY <1>1, <3>1, RefreshedRequest
    <3> QED BY <1>0, <1>1, <2>1, <2>2, <2>4, <3>2 DEF ClientMoves, LastSaveIsFinal, Refreshing
  <2>5. CASE row # NoRow /\ row.status \notin Terminal
    <3>1. PICK pc \in {"statusRead", "queueRead"} : ClientGoto(c, pc, row)
      BY <1>1, <1>9, <2>1, <2>5 DEF ClientGet
    <3>2. pc \in ClientActive
      BY <3>1 DEF ClientActive
    <3>3. PICK q \in Requests : SetClient(c, q) /\ q.pc = pc /\ q.row = row /\ q.build = r.build
      BY <1>1, <3>1, <3>2, GotoRequest
    <3> QED BY <1>0, <1>1, <2>1, <2>2, <2>5, <3>1, <3>3 DEF ClientMoves, LastSaveIsFinal
  <2> QED BY <2>3, <2>4, <2>5
<1>10. CASE ClientQueueRead(c)
  <2>1. UNCHANGED db /\ r.pc = "queueRead"
    BY <1>1, <1>10 DEF ClientQueueRead, ClientLocal
  <2>2. CASE ClientGoto(c, "saveFinal", [r.row EXCEPT !.status = "cancelled"])
    BY <1>5, <1>7, <2>1, <2>2 DEF ClientActive, Refreshing, Terminal
  <2>3. CASE ClientGoto(c, "saveNumber", [r.row EXCEPT !.number = TRUE, !.status = "running"])
    BY <1>5, <1>7, <2>1, <2>3 DEF ClientActive, Refreshing
  <2>4. CASE Refreshed(c, r.row)
    BY <1>2, <1>6, <2>1, <2>4
  <2> QED BY <1>1, <1>10, <2>2, <2>3, <2>4 DEF ClientQueueRead
<1>11. CASE ClientStatusRead(c)
  <2>1. UNCHANGED db /\ r.pc = "statusRead"
    BY <1>1, <1>11 DEF ClientStatusRead, ClientLocal
  <2>2. CASE ClientGoto(c, "saveRunning", [r.row EXCEPT !.status = "running"])
    BY <1>5, <1>7, <2>1, <2>2 DEF ClientActive, Refreshing
  <2>3. CASE ClientGoto(c, "resultRead", r.row)
    BY <1>2, <1>5, <2>1, <2>3 DEF ClientActive, Refreshing
  <2>4. CASE Refreshed(c, r.row)
    BY <1>2, <1>6, <2>1, <2>4
  <2> QED BY <1>1, <1>11, <2>2, <2>3, <2>4 DEF ClientStatusRead
<1>12. CASE ClientResultRead(c)
  <2>1. UNCHANGED db /\ r.pc = "resultRead"
    BY <1>1, <1>12 DEF ClientResultRead, ClientLocal
  <2>2. PICK status \in Terminal : status = ResultStatus(r.build)
    BY <1>0, <1>2 DEF TypeOK, Runs, ResultStatus, Terminal
  <2>3. ClientGoto(c, "saveFinal", [r.row EXCEPT !.status = status])
    BY <1>1, <1>12, <2>2 DEF ClientResultRead
  <2>4. PICK row \in Rows : row = [r.row EXCEPT !.status = status] /\ row.status \in Terminal
    BY <1>7, <2>2
  <2> QED BY <1>5, <2>1, <2>3, <2>4 DEF ClientActive, Refreshing
<1>13. CASE ClientQueueStarted(c)
  <2>1. UNCHANGED db /\ r.pc = "queueStarted" /\ ClientGoto(c, "statusRead", r.row)
    BY <1>1, <1>13 DEF ClientQueueStarted
  <2> QED BY <1>2, <1>5, <2>1 DEF ClientActive, Refreshing
<1>14. CASE ClientQueueFinal(c)
  <2>1. UNCHANGED db /\ r.pc = "queueFinal" /\ Refreshed(c, r.row)
    BY <1>1, <1>14 DEF ClientQueueFinal
  <2> QED BY <1>2, <1>6, <2>1
<1>15. CASE ClientSaveNumber(c)
  <2>1. StoreRow(r.build, r.row) /\ r.pc = "saveNumber" /\ ClientGoto(c, "queueStarted", r.row)
    BY <1>1, <1>15 DEF ClientSaveNumber
  <2>2. "queueStarted" \in ClientActive
    BY DEF ClientActive
  <2>3. PICK q \in Requests :
          SetClient(c, q) /\ q.pc = "queueStarted" /\ q.row = r.row /\ q.build = r.build
    BY <1>1, <1>2, <2>1, <2>2, GotoRequest
  <2> QED BY <1>0, <1>1, <1>2, <2>1, <2>3 DEF ClientMoves, LastSaveIsFinal, Refreshing
<1>16. CASE ClientSaveRunning(c)
  <2>1. StoreRow(r.build, r.row) /\ r.pc = "saveRunning" /\ Refreshed(c, r.row)
    BY <1>1, <1>16 DEF ClientSaveRunning
  <2>2. PICK q \in Requests :
          SetClient(c, q) /\ (q.pc = "idle" \/ (q.pc = "stop" /\ q.build = r.build))
    BY <1>1, <1>2, <2>1, RefreshedRequest
  <2> QED BY <1>0, <1>1, <1>2, <2>1, <2>2 DEF ClientMoves, LastSaveIsFinal, Refreshing
<1>17. CASE ClientSaveFinal(c)
  <2>1. StoreRow(r.build, r.row) /\ r.pc = "saveFinal" /\ ClientGoto(c, "queueFinal", r.row)
    BY <1>1, <1>17 DEF ClientSaveFinal
  <2>2. "queueFinal" \in ClientActive
    BY DEF ClientActive
  <2>3. PICK q \in Requests :
          SetClient(c, q) /\ q.pc = "queueFinal" /\ q.row = r.row /\ q.build = r.build
    BY <1>1, <1>2, <2>1, <2>2, GotoRequest
  <2>4. r.row.status \in Terminal
    BY <1>0, <1>1, <2>1 DEF LastSaveIsFinal
  <2> QED BY <1>0, <1>1, <1>2, <2>1, <2>3, <2>4 DEF ClientMoves, LastSaveIsFinal, Refreshing
<1>18. CASE ClientStop(c)
  <2>1. UNCHANGED db /\ r.pc = "stop"
    BY <1>1, <1>18 DEF ClientStop
  <2>2. CASE SetClient(c, IdleRequest)
    BY <1>4, <2>1, <2>2
  <2> DEFINE q == [pc |-> "saveFinal", op |-> "stopping", build |-> r.build,
                   row |-> [r.row EXCEPT !.status = "cancelled"]]
  <2>3. CASE SetClient(c, q)
    <3>1. /\ q \in Requests /\ q.pc = "saveFinal" /\ q.build = r.build
          /\ q.row.status \in Terminal
      BY <1>2, <1>7 DEF Requests, ClientActive, Terminal
    <3> HIDE DEF q
    <3> QED BY <1>0, <1>1, <2>1, <2>3, <3>1 DEF ClientMoves, LastSaveIsFinal, Refreshing
  <2> QED BY <1>1, <1>18, <2>2, <2>3 DEF ClientStop
<1>19. CASE ClientRaises(c)
  BY <1>4, <1>19 DEF ClientRaises
<1> QED
  BY <1>8, <1>9, <1>10, <1>11, <1>12, <1>13, <1>14, <1>15, <1>16, <1>17, <1>18, <1>19
  DEF ClientStep

LEMMA ClientSettles ==
  ASSUME TypeOK, SettleInv, NEW c \in Clients, NEW q \in Requests, ClientMoves(c, q)
  PROVE  SettleInv' /\ SettledStep
<1>1. PICK r \in Requests : r = client[c]
  BY DEF TypeOK
<1>2. client'[c] = q /\ \A e \in Clients \ {c} : client'[e] = client[e]
  BY SetClientEffect DEF ClientMoves
<1>3. r.build \in Builds
  BY DEF Requests
<1>4. UNCHANGED <<trig, call>>
  BY DEF ClientMoves
\* What the step may store, and where.
<1>5. ASSUME NEW d \in Builds
      PROVE  \/ db'[d] = db[d]
             \/ /\ d = r.build /\ r.pc \notin {"idle", "get"}
                /\ r.pc \in Refreshing \/ db'[d].status \in Terminal
  BY <1>1, <1>3, StoreRowEffect DEF ClientMoves
<1>6. ASSUME NEW d \in Builds, NobodyEarly(d) PROVE NobodyEarly(d)'
  <2> SUFFICES ASSUME trig[d].pc \in Unsaved
               PROVE  db'[d] = NoRow /\ (q.build = d => q.pc \in {"idle", "get"})
    BY <1>2, <1>4, <1>6 DEF NobodyEarly
  <2>1. db[d] = NoRow /\ (r.build = d => r.pc \in {"idle", "get"})
    BY <1>1, <1>6 DEF NobodyEarly
  <2>2. db'[d] = NoRow
    BY <1>5, <2>1
  <2> QED BY <1>1, <2>1, <2>2 DEF ClientMoves
<1>7. ASSUME NEW d \in Builds, Settled(d) PROVE Settled(d)'
  <2>1. r.build = d => r.pc \notin Refreshing
    BY <1>1, <1>7 DEF Settled
  <2>2. db'[d].status \in Terminal
    BY <1>5, <1>7, <2>1 DEF Settled
  <2>3. q.build = d => q.pc \notin Refreshing
    BY <1>1, <1>7, <2>1 DEF ClientMoves, Settled, Refreshing
  <2> QED BY <1>2, <1>4, <1>7, <2>2, <2>3 DEF Settled
<1>8. \A e \in Clients : LastSaveIsFinal(client[e])'
  BY <1>2 DEF SettleInv, LastSaveIsFinal, ClientMoves
<1> QED BY <1>6, <1>7, <1>8 DEF SettleInv, SettledStep

\* A build that is finished, and of which no refresh and no review holds an older
\* copy, is finished for good, with any number of clients that read and cancel, of
\* callbacks, faults and restarts.  So what Settles adds is only that it gets there.
THEOREM FinishedIsForGood == Spec => FinishedForGood
<1>1. Init => SettleInv
  BY DEF Init, SettleInv, NobodyEarly, LastSaveIsFinal, Unsent, IdleRequest
<1>2. ASSUME IInv, SettleInv, [Next]_vars PROVE SettleInv' /\ SettledStep
  <2>0. TypeOK
    BY <1>2 DEF IInv
  <2>1. CASE UNCHANGED vars
    BY <1>2, <2>1 DEF vars, gatewayVars, SettleInv, NobodyEarly, LastSaveIsFinal, SettledStep,
                      Settled
  <2>2. ASSUME NEW b \in Builds, NEW i \in 1..Attempts, CallHandlerStep(b, i) \/ CallRaises(b, i)
        PROVE  SettleInv' /\ SettledStep
    BY <1>2, <2>0, <2>2, CallStepMoves, CallMovesSettles
  <2>3. ASSUME NEW c \in Clients,
               \/ ClientStep(c) \/ ClientRaises(c)
               \/ \E b \in Builds, op \in {"read", "cancel"} : ClientBegins(c, b, op)
        PROVE  SettleInv' /\ SettledStep
    BY <1>2, <2>0, <2>3, ClientStepMoves, ClientSettles
  <2> QED BY <1>2, <2>1, <2>2, <2>3, TriggerSettles, JenkinsSettles, CrashSettles DEF Next
<1>3. SettledStep => \A b \in Builds : Settled(b) => Settled(b)'
  BY DEF SettledStep
<1> QED BY Inductive, <1>1, <1>2, <1>3, PTL DEF Spec, FinishedForGood

-----------------------------------------------------------------------------
(* Reviews follow the verdict.                                             *)

\* The review of a reused build starts when its status was published.
ReviewInv ==
  /\ \A b \in Builds : trig[b].pc \in {"attachGet", "attachSave"} => b \in published
  /\ ReviewAfterVerdict

LEMMA TriggerReviews ==
  ASSUME IInv, ReviewInv, published \subseteq published',
         NEW b \in Builds, TriggerStep(b) \/ TriggerRaises(b)
  PROVE  ReviewInv'
<1>0. TypeOK /\ (trig[b].pc \in {"attachGet", "attachSave"} => b \in published)
  BY DEF IInv, ReviewInv
<1>1. PICK pc, row : SetTrigger(b, pc, row)
  BY DEF TriggerStep, TriggerRaises, TriggerLookup, TriggerJenkins, TriggerSaveQueue,
         TriggerSaveBuild, TriggerPublish, TriggerAttachGet, TriggerAttachSave, TriggerGoto,
         TriggerEnds
<1>2. trig'[b] = [pc |-> pc, row |-> row] /\ \A d \in Builds \ {b} : trig'[d] = trig[d]
  BY <1>0, <1>1 DEF TypeOK, SetTrigger
<1>3. trig'[b].pc \in {"attachGet", "attachSave"} => b \in published'
  <2>1. CASE TriggerPublish(b)
    BY <1>0, <2>1 DEF TriggerPublish, TriggerGoto, TriggerEnds, SetTrigger, TypeOK
  <2>2. CASE TriggerAttachGet(b) \/ TriggerAttachSave(b)
    BY <1>0, <2>2 DEF TriggerAttachGet, TriggerAttachSave
  <2>3. CASE TriggerLookup(b) \/ TriggerJenkins(b) \/ TriggerSaveQueue(b) \/ TriggerSaveBuild(b)
             \/ TriggerRaises(b)
    BY <1>0, <2>3
    DEF TriggerLookup, TriggerJenkins, TriggerSaveQueue, TriggerSaveBuild, TriggerRaises,
        TriggerGoto, TriggerEnds, SetTrigger, TypeOK
  <2> QED BY <2>1, <2>2, <2>3 DEF TriggerStep
<1>4. attached' \subseteq attached \cup published
  BY <1>0
  DEF TriggerStep, TriggerRaises, TriggerLookup, TriggerJenkins, TriggerSaveQueue,
      TriggerSaveBuild, TriggerPublish, TriggerAttachGet, TriggerAttachSave, historyVars
<1> QED BY <1>2, <1>3, <1>4 DEF ReviewInv, ReviewAfterVerdict

\* A handler that attaches a log has found the delivery recorded.
LEMMA CallReviews ==
  ASSUME IInv, ReviewInv, published \subseteq published',
         NEW b \in Builds, NEW i \in 1..Attempts, CallHandlerStep(b, i) \/ CallRaises(b, i)
  PROVE  ReviewInv'
<1>1. call[b][i].pc = "attachSave" => b \in published
  BY DEF IInv, HandlerOK, AcceptedMeansDone
<1>2. UNCHANGED trig /\ attached' \subseteq attached \cup published
  BY <1>1
  DEF CallHandlerStep, CallRaises, CallGet, CallCheckDuplicate, CallSave, CallPublish, CallRecord,
      CallQueue, CallAttachGet, CallAttachSave, historyVars
<1> QED BY <1>2 DEF ReviewInv, ReviewAfterVerdict

\* No other step begins a review.
LEMMA OthersReview ==
  ASSUME ReviewInv, published \subseteq published', UNCHANGED <<trig, attached>>
  PROVE  ReviewInv'
BY DEF ReviewInv, ReviewAfterVerdict

\* The AI-review log is attached only to a build whose native verdict reached
\* GitHub, its own through complete_build or the one _reuse_native_result repeats,
\* whatever fails in between.
THEOREM ReviewsFollowVerdicts == Spec => []ReviewAfterVerdict
<1>1. Init => ReviewInv
  BY DEF Init, ReviewInv, ReviewAfterVerdict
<1>2. ASSUME IInv, ReviewInv, [Next]_vars PROVE ReviewInv'
  <2>0. published \subseteq published'
    BY <1>2, NextGood DEF Good, Grows
  <2>1. CASE UNCHANGED vars
    BY <1>2, <2>0, <2>1, OthersReview DEF vars, gatewayVars, historyVars
  <2>2. ASSUME NEW b \in Builds, JenkinsStep(b) \/ JenkinsAborts(b) \/ CallbackLost(b)
        PROVE  ReviewInv'
    <3>1. UNCHANGED <<trig, attached>>
      BY <2>2 DEF JenkinsStep, JenkinsAborts, CallbackLost, JenkinsStart, PipelineChecks,
                  PipelineFails, PipelinePublishes, PipelinePublicationFails, CallbackSend,
                  CallbackTimeout, CallbackAccepted, CallbackRefused, CallbackGivesUp, JenkinsOnly,
                  gatewayVars, historyVars
    <3> QED BY <1>2, <2>0, <3>1, OthersReview
  <2>3. ASSUME NEW c \in Clients,
               \/ ClientStep(c) \/ ClientRaises(c)
               \/ \E b \in Builds, op \in {"read", "cancel"} : ClientBegins(c, b, op)
        PROVE  ReviewInv'
    <3>1. UNCHANGED <<trig, attached>>
      BY <2>3 DEF ClientStep, ClientRaises, ClientBegins, ClientGet, ClientQueueRead,
                  ClientSaveNumber, ClientQueueStarted, ClientStatusRead, ClientSaveRunning,
                  ClientResultRead, ClientSaveFinal, ClientQueueFinal, ClientStop, ClientLocal,
                  historyVars
    <3> QED BY <1>2, <2>0, <3>1, OthersReview
  <2>4. CASE Crash
    BY <1>2, <2>0, <2>4 DEF Crash, historyVars, ReviewInv, ReviewAfterVerdict, TriggerActive
  <2> QED BY <1>2, <2>0, <2>1, <2>2, <2>3, <2>4, TriggerReviews, CallReviews DEF Next
<1>3. ReviewInv => ReviewAfterVerdict
  BY DEF ReviewInv
<1> QED BY Inductive, <1>1, <1>2, <1>3, PTL DEF Spec
=============================================================================
