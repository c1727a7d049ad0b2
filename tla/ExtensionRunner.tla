--------------------------- MODULE ExtensionRunner ---------------------------
(***************************************************************************)
(* run_extension_action with the extension runner behind it.  The step     *)
(* Execute of ExtensionActions becomes a request to the runner, which      *)
(* starts a docker process, feeds it its input and reads both of its       *)
(* outputs at once (asyncio.gather), bounded in size and in time.  The     *)
(* process is external: it reads, writes, exits or hangs as it likes, and  *)
(* it blocks on a full pipe and on an empty one.                           *)
(***************************************************************************)
EXTENDS ExtensionActions

CONSTANTS
  MaxInput,    \* bound: chunks of input
  MaxOutput,   \* max_output_bytes, in chunks
  MaxNoise     \* the 4096 bytes of stderr, in chunks

\* A pipe, with the buffer of its transport, holds one chunk.
ASSUME RunnerAssumption == MaxInput \in Nat /\ MaxOutput \in Nat /\ MaxNoise \in Nat

VARIABLE job   \* the runner's handler of each call's request, and its process

runnerVars == <<vars, job>>

Intents == {"read", "out", "err", "exit", "fail", "hang"}

NoJob == [at |-> "none"]
Refused == [at |-> "refused"]   \* any error status
Collected(j) == [at |-> "collected", got |-> j.got, written |-> j.written]
\* The process runs: what it is up to; input not written yet, chunks in each
\* pipe, chunks read from each output; written counts what stdout was given.
Started(n, w) ==
  [at |-> "running", want |-> w, left |-> n, in |-> 0, out |-> 0, err |-> 0,
   got |-> 0, noise |-> 0, written |-> 0]

Processes ==
  [at : {"running", "exited", "failed", "killing"}, want : Intents,
   left : 0..MaxInput, in : 0..1, out : 0..1, err : 0..1,
   got : 0..(MaxOutput + 1), noise : 0..(MaxNoise + 1), written : 0..(MaxOutput + 2)]
Outputs == [at : {"collected"}, got : 0..MaxOutput, written : 0..MaxOutput]

RunnerTypeOK ==
  /\ TypeOK
  /\ job \in [Calls -> {NoJob, Refused} \cup Outputs \cup Processes]

RunnerInit == Init /\ job = [c \in Calls |-> NoJob]

Is(c, at) == job[c].at = at
Becomes(c, new) == job' = [job EXCEPT ![c] = new] /\ UNCHANGED vars

-----------------------------------------------------------------------------
\* run_extension: an extension that is not allowlisted (403), another manifest
\* than the catalog's or an undeclared action (400), an input that does not match
\* the schema (422), or the process is started.
Submit(c) ==
  /\ pc[c] = "execute" /\ Is(c, "none")
  /\ Becomes(c, Refused) \/ \E n \in 0..MaxInput, w \in Intents : Becomes(c, Started(n, w))

Communicating(c) == job[c].at \in {"running", "exited", "failed"}

\* The pipe lets the process (external) do what it wants: something to read, or
\* the end of the input; room to write in.
ProcessReady(c) ==
  /\ Is(c, "running")
  /\ LET j == job[c] IN
     \/ j.want = "read" /\ (j.in > 0 \/ j.left = 0)
     \/ j.want = "out" /\ j.out = 0 /\ j.written < MaxOutput + 2
     \/ j.want = "err" /\ j.err = 0
     \/ j.want \in {"exit", "fail"}

\* The process does it, and then wants something else.
ProcessStep(c) ==
  /\ ProcessReady(c)
  /\ LET j == job[c] IN
     \/ /\ j.want = "read" /\ j.in > 0
        /\ \E w \in Intents : Becomes(c, [j EXCEPT !.in = 0, !.want = w])
     \/ /\ j.want = "read" /\ j.in = 0
        /\ \E w \in Intents \ {"read"} : Becomes(c, [j EXCEPT !.want = w])
     \/ /\ j.want = "out"
        /\ \E w \in Intents : Becomes(c, [j EXCEPT !.out = 1, !.written = @ + 1, !.want = w])
     \/ /\ j.want = "err"
        /\ \E w \in Intents : Becomes(c, [j EXCEPT !.err = 1, !.want = w])
     \/ j.want = "exit" /\ Becomes(c, [j EXCEPT !.at = "exited"])
     \/ j.want = "fail" /\ Becomes(c, [j EXCEPT !.at = "failed"])

\* write_input has something left, and drain() a pipe to put it in.
InputReady(c) == Is(c, "running") /\ job[c].left > 0 /\ job[c].in = 0

\* write_input: blocks while the pipe is full; a process that is gone breaks it,
\* which nothing catches, so the request ends with a 500.
WriteInput(c) ==
  \/ InputReady(c) /\ Becomes(c, [job[c] EXCEPT !.in = 1, !.left = @ - 1])
  \/ job[c].at \in {"exited", "failed"} /\ job[c].left > 0 /\ Becomes(c, Refused)

OutputReadyAfterInput(c) == Communicating(c) /\ job[c].out > 0 /\ job[c].left = 0

\* stream.read of stdout has a chunk, whatever the other two coroutines do.
OutputReady(c) == Communicating(c) /\ job[c].out > 0

ReadOutputTruncating(c) ==
  /\ OutputReady(c)
  /\ Becomes(c, [job[c] EXCEPT !.out = 0, !.got = IF @ < MaxOutput THEN @ + 1 ELSE @])

\* _read_bounded of stdout raises once more than the limit has arrived.
ReadOutput(c) ==
  /\ OutputReady(c)
  /\ Becomes(c, [job[c] EXCEPT !.out = 0, !.got = @ + 1,
                   !.at = IF job[c].got + 1 > MaxOutput THEN "killing" ELSE @])

NoiseReady(c) == Communicating(c) /\ job[c].err > 0

ReadNoise(c) ==
  /\ NoiseReady(c)
  /\ Becomes(c, [job[c] EXCEPT !.err = 0, !.noise = @ + 1,
                   !.at = IF job[c].noise + 1 > MaxNoise THEN "killing" ELSE @])

TimeoutNever(c) == FALSE

\* asyncio.wait_for: timeout_seconds are over.
Timeout(c) ==
  /\ Communicating(c)
  /\ Becomes(c, [job[c] EXCEPT !.at = "killing"])

\* process.kill() and process.wait(), then 504 or 422.
Kill(c) ==
  /\ Is(c, "killing")
  /\ Becomes(c, Refused)

\* Both outputs ended, the input is written and the process was waited for: 502
\* for a return code, 422 for output that is no valid ExtensionOutput.
Collect(c) ==
  /\ job[c].at \in {"exited", "failed"}
  /\ job[c].left = 0 /\ job[c].out = 0 /\ job[c].err = 0
  /\ \/ Is(c, "exited") /\ Becomes(c, Collected(job[c]))
     \/ Becomes(c, Refused)

Runner(c) ==
  \/ WriteInput(c) \/ ReadOutput(c) \/ ReadNoise(c) \/ Timeout(c) \/ Kill(c) \/ Collect(c)

-----------------------------------------------------------------------------
\* ExtensionRunnerClient.run gets the output, which it may refuse as too long or
\* invalid; or an error status; or its own timeout or a broken connection ends
\* the wait while the runner goes on.
GatewayExecute(c) ==
  /\ ~Is(c, "none")
  /\ Execute(c)
  /\ pc'[c] = "act" => Is(c, "collected")
  /\ UNCHANGED job

\* The other steps of run_extension_action do not concern the runner.
GatewayStep(c) ==
  \/ (Lookup(c) \/ Create(c) \/ Act(c) \/ Finish(c) \/ Fail(c)) /\ UNCHANGED job
  \/ Submit(c)
  \/ GatewayExecute(c)

AllDone ==
  /\ Done
  /\ \A c \in Calls : job[c].at \in {"none", "refused", "collected"}
  /\ UNCHANGED job

RunnerNext ==
  \/ \E c \in Calls : GatewayStep(c) \/ Runner(c) \/ ProcessStep(c)
  \/ \E c \in Calls : Interrupt(c) /\ UNCHANGED job
  \/ AllDone

\* The gateway and the runner are scheduled and time passes; nothing is assumed
\* of the process.
RunnerFairness ==
  \A c \in Calls :
    /\ WF_runnerVars(GatewayStep(c))
    /\ WF_runnerVars(Runner(c))
    /\ WF_runnerVars(Timeout(c))

RunnerSpec == RunnerInit /\ [][RunnerNext]_runnerVars /\ RunnerFairness

-----------------------------------------------------------------------------
\* The runner accepts an output only when it has all of it, within the limit:
\* nothing the process wrote is cut off or still in the pipe.
OutputIsComplete ==
  \A c \in Calls : Is(c, "collected") => job[c].got = job[c].written /\ job[c].got <= MaxOutput

\* The process and its three pipe coroutines never wait for each other in a
\* circle: unless the process hangs by itself, one of them can go on.
NoPipeDeadlock ==
  \A c \in Calls :
    Is(c, "running") /\ job[c].want # "hang" =>
      ProcessReady(c) \/ InputReady(c) \/ OutputReady(c) \/ NoiseReady(c)

\* Every call is answered, and every process the runner started ends, although
\* it may hang or flood its pipes and the caller may be gone.
CallsAndProcessesEnd ==
  /\ EveryCallAnswered
  /\ \A c \in Calls : job[c].at \in {"running", "killing"} ~> job[c].at \notin {"running", "killing"}
=============================================================================
