------------------------ MODULE ExtensionRunnerProofs ------------------------
(***************************************************************************)
(* OutputIsComplete and NoPipeDeadlock of ExtensionRunner, for every       *)
(* limit, any calls and any behaviour of the processes; and that           *)
(* run_extension_action with the runner behind it takes only steps of      *)
(* ExtensionActions, so that what is proved of that module holds here too. *)
(***************************************************************************)
EXTENDS ExtensionRunner, ExtensionActionsProofs

\* While the runner reads, it is within its limits, and what the process has
\* written is what was read and what is still in the pipe.
ReadSoFar ==
  \A c \in Calls :
    Communicating(c) =>
      /\ job[c].got <= MaxOutput /\ job[c].noise <= MaxNoise
      /\ job[c].written = job[c].got + job[c].out

RunnerInv == IInv /\ RunnerTypeOK /\ ReadSoFar /\ OutputIsComplete

-----------------------------------------------------------------------------
(* Every step is one of ExtensionActions or leaves its variables alone.    *)

LEMMA BecomesIsQuiet ==
  ASSUME NEW c \in Calls, Submit(c) \/ Runner(c) \/ ProcessStep(c)
  PROVE  UNCHANGED vars
<1>1. CASE Submit(c)
  BY <1>1 DEF Submit, Becomes
<1>2. CASE ProcessStep(c)
  BY <1>2 DEF ProcessStep, Becomes
<1>3. CASE Runner(c)
  BY <1>3 DEF Runner, WriteInput, ReadOutput, ReadNoise, Timeout, Kill, Collect, Becomes
<1> QED
  BY <1>1, <1>2, <1>3

LEMMA NextRefines == [RunnerNext]_runnerVars => [Next]_vars
<1>1. ASSUME NEW c \in Calls, GatewayStep(c)
      PROVE  Step(c) \/ UNCHANGED vars
  BY <1>1, BecomesIsQuiet DEF GatewayStep, GatewayExecute, Step
<1> QED
  BY <1>1, BecomesIsQuiet DEF RunnerNext, AllDone, Next, runnerVars

\* Whatever the runner and its processes do, the gateway does what
\* ExtensionActions says.
THEOREM ImplementsExtensionActions == RunnerSpec => Init /\ [][Next]_vars
  BY NextRefines, PTL DEF RunnerSpec, RunnerInit

-----------------------------------------------------------------------------
(* What a step does to the job it concerns.                                *)

Jobs == {NoJob, Refused} \cup Outputs \cup Processes

\* What is true of a job.
JobOK(j) ==
  /\ j \in Jobs
  /\ j.at \in {"running", "exited", "failed"} =>
       j.got <= MaxOutput /\ j.noise <= MaxNoise /\ j.written = j.got + j.out
  /\ j.at = "collected" => j.got = j.written /\ j.got <= MaxOutput

LEMMA JobsOK ==
  (RunnerTypeOK /\ ReadSoFar /\ OutputIsComplete)
    <=> (TypeOK /\ job \in [Calls -> Jobs] /\ \A c \in Calls : JobOK(job[c]))
  BY DEF RunnerTypeOK, ReadSoFar, OutputIsComplete, Communicating, Is, JobOK, Jobs

LEMMA RefusedOK == JobOK(Refused) /\ JobOK(NoJob)
  BY DEF JobOK, Jobs, Refused, NoJob

\* A job with a process is a record with all of its fields.
LEMMA ProcessOf ==
  ASSUME NEW j, JobOK(j), j.at \in {"running", "exited", "failed", "killing"}
  PROVE  j \in Processes
  BY DEF JobOK, Jobs, NoJob, Refused, Outputs

LEMMA ProcessOK ==
  ASSUME NEW j \in Processes,
         j.at # "killing" =>
           j.got <= MaxOutput /\ j.noise <= MaxNoise /\ j.written = j.got + j.out
  PROVE  JobOK(j)
  BY DEF JobOK, Jobs, Processes

\* One field of a process's record replaced by another value.
LEMMA Put ==
  ASSUME NEW j \in Processes
  PROVE  /\ \A v \in {"running", "exited", "failed", "killing"} : [j EXCEPT !.at = v] \in Processes
         /\ \A v \in Intents : [j EXCEPT !.want = v] \in Processes
         /\ \A v \in 0..MaxInput : [j EXCEPT !.left = v] \in Processes
         /\ [j EXCEPT !.in = 0] \in Processes /\ [j EXCEPT !.in = 1] \in Processes
         /\ [j EXCEPT !.out = 0] \in Processes /\ [j EXCEPT !.out = 1] \in Processes
         /\ [j EXCEPT !.err = 0] \in Processes /\ [j EXCEPT !.err = 1] \in Processes
         /\ \A v \in 0..(MaxOutput + 1) : [j EXCEPT !.got = v] \in Processes
         /\ \A v \in 0..(MaxNoise + 1) : [j EXCEPT !.noise = v] \in Processes
         /\ \A v \in 0..(MaxOutput + 2) : [j EXCEPT !.written = v] \in Processes
  BY DEF Processes

LEMMA SubmitOK ==
  ASSUME NEW n \in 0..MaxInput, NEW w \in Intents
  PROVE  JobOK(Started(n, w))
  BY RunnerAssumption DEF JobOK, Jobs, Started, Processes

LEMMA ProcessStepOK ==
  ASSUME RunnerInv, NEW c \in Calls, ProcessStep(c)
  PROVE  \E new : JobOK(new) /\ Becomes(c, new)
<1> DEFINE j == job[c]
<1>1. JobOK(j) /\ j.at = "running" /\ j \in Processes
  BY JobsOK, ProcessOf DEF RunnerInv, ProcessStep, ProcessReady, Is
<1>2. /\ j.got <= MaxOutput /\ j.noise <= MaxNoise /\ j.written = j.got + j.out
      /\ j.got \in 0..(MaxOutput + 1) /\ j.written \in 0..(MaxOutput + 2)
  BY <1>1 DEF JobOK, Processes
<1> HIDE DEF j
<1>3. ASSUME NEW w \in Intents
      PROVE  /\ JobOK([j EXCEPT !.in = 0, !.want = w])
             /\ JobOK([j EXCEPT !.want = w])
             /\ JobOK([j EXCEPT !.err = 1, !.want = w])
  <2>1. /\ [j EXCEPT !.in = 0] \in Processes /\ [j EXCEPT !.want = w] \in Processes
        /\ [j EXCEPT !.err = 1] \in Processes
    BY <1>1, Put
  <2>2. /\ [[j EXCEPT !.in = 0] EXCEPT !.want = w] \in Processes
        /\ [[j EXCEPT !.err = 1] EXCEPT !.want = w] \in Processes
    BY <2>1, Put
  <2>3. \A i \in {[j EXCEPT !.in = 0, !.want = w], [j EXCEPT !.want = w],
                  [j EXCEPT !.err = 1, !.want = w]} :
          i.got = j.got /\ i.noise = j.noise /\ i.written = j.written /\ i.out = j.out
    BY <1>1 DEF Processes
  <2> QED
    BY <1>2, <2>1, <2>2, <2>3, ProcessOK
<1>4. ASSUME NEW w \in Intents, j.out = 0, j.written < MaxOutput + 2
      PROVE  JobOK([j EXCEPT !.out = 1, !.written = @ + 1, !.want = w])
  <2> DEFINE filled == [j EXCEPT !.out = 1]
             counted == [filled EXCEPT !.written = j.written + 1]
             new == [counted EXCEPT !.want = w]
  <2>1. j.written + 1 \in 0..(MaxOutput + 2) /\ j.written + 1 = j.got + 1
    BY <1>2, <1>4, RunnerAssumption
  <2>2. filled \in Processes
    BY <1>1, Put
  <2>3. counted \in Processes
    BY <2>1, <2>2, Put
  <2>4. new \in Processes
    BY <1>4, <2>3, Put
  <2>5. /\ new.got = j.got /\ new.noise = j.noise
        /\ new.written = j.written + 1 /\ new.out = 1
    BY <1>1 DEF Processes
  <2>6. new = [j EXCEPT !.out = 1, !.written = @ + 1, !.want = w]
    OBVIOUS
  <2> HIDE DEF new
  <2> QED
    BY <1>2, <2>1, <2>4, <2>5, <2>6, ProcessOK
<1>5. ASSUME NEW to \in {"exited", "failed"}
      PROVE  JobOK([j EXCEPT !.at = to])
  BY <1>1, <1>2, <1>5, Put, ProcessOK DEF Processes
<1> QED
  BY <1>3, <1>4, <1>5 DEF ProcessStep, ProcessReady, j

LEMMA WriteInputOK ==
  ASSUME RunnerInv, NEW c \in Calls, WriteInput(c)
  PROVE  \E new : JobOK(new) /\ Becomes(c, new)
<1> DEFINE j == job[c]
           filled == [j EXCEPT !.in = 1]
           new == [filled EXCEPT !.left = j.left - 1]
<1>1. /\ JobOK(j) /\ j \in Processes /\ j.left > 0
      /\ j.at \in {"running", "exited", "failed"}
  BY JobsOK, ProcessOf DEF RunnerInv, WriteInput, InputReady, Is
<1>2. j.got <= MaxOutput /\ j.noise <= MaxNoise /\ j.written = j.got + j.out
  BY <1>1 DEF JobOK
<1>3. j.left - 1 \in 0..MaxInput
  BY <1>1, RunnerAssumption DEF Processes
<1> HIDE DEF j
<1>4. filled \in Processes
  BY <1>1, Put
<1>5. new \in Processes
  BY <1>3, <1>4, Put
<1>6. new.got = j.got /\ new.noise = j.noise /\ new.written = j.written /\ new.out = j.out
  BY <1>1 DEF Processes
<1>7. new = [j EXCEPT !.in = 1, !.left = @ - 1]
  OBVIOUS
<1> HIDE DEF new
<1>8. JobOK(new)
  BY <1>2, <1>5, <1>6, ProcessOK
<1> QED
  BY <1>7, <1>8, RefusedOK DEF WriteInput, InputReady, j

\* A chunk that is read is counted, and the one beyond the limit kills.
LEMMA ReadOutputOK ==
  ASSUME RunnerInv, NEW c \in Calls, ReadOutput(c)
  PROVE  \E new : JobOK(new) /\ Becomes(c, new)
<1> DEFINE j == job[c]
           to == IF j.got + 1 > MaxOutput THEN "killing" ELSE j.at
           emptied == [j EXCEPT !.out = 0]
           counted == [emptied EXCEPT !.got = j.got + 1]
           new == [counted EXCEPT !.at = to]
<1>1. JobOK(j) /\ j \in Processes /\ j.out > 0 /\ j.at \in {"running", "exited", "failed"}
  BY JobsOK, ProcessOf DEF RunnerInv, ReadOutput, OutputReady, Communicating
<1>2. /\ j.got <= MaxOutput /\ j.noise <= MaxNoise /\ j.written = j.got + 1
      /\ j.got \in Nat
  BY <1>1, RunnerAssumption DEF JobOK, Processes
<1>3. /\ j.got + 1 \in 0..(MaxOutput + 1)
      /\ to \in {"running", "exited", "failed", "killing"}
      /\ to # "killing" => j.got + 1 <= MaxOutput
  BY <1>1, <1>2, RunnerAssumption
<1>4. new = [j EXCEPT !.out = 0, !.got = @ + 1,
               !.at = IF j.got + 1 > MaxOutput THEN "killing" ELSE @]
  OBVIOUS
<1>5. Becomes(c, new)
  BY <1>4 DEF ReadOutput
<1> HIDE DEF j, to
<1>6. emptied \in Processes
  BY <1>1, Put
<1>7. counted \in Processes
  BY <1>3, <1>6, Put
<1>8. new \in Processes
  BY <1>3, <1>7, Put
<1>9. /\ new.got = j.got + 1 /\ new.noise = j.noise /\ new.at = to
      /\ new.written = j.written /\ new.out = 0
  BY <1>1 DEF Processes
<1> HIDE DEF new
<1>10. JobOK(new)
  BY <1>2, <1>3, <1>8, <1>9, ProcessOK
<1> QED
  BY <1>5, <1>10

LEMMA ReadNoiseOK ==
  ASSUME RunnerInv, NEW c \in Calls, ReadNoise(c)
  PROVE  \E new : JobOK(new) /\ Becomes(c, new)
<1> DEFINE j == job[c]
           to == IF j.noise + 1 > MaxNoise THEN "killing" ELSE j.at
           emptied == [j EXCEPT !.err = 0]
           counted == [emptied EXCEPT !.noise = j.noise + 1]
           new == [counted EXCEPT !.at = to]
<1>1. JobOK(j) /\ j \in Processes /\ j.at \in {"running", "exited", "failed"}
  BY JobsOK, ProcessOf DEF RunnerInv, ReadNoise, NoiseReady, Communicating
<1>2. /\ j.got <= MaxOutput /\ j.noise <= MaxNoise /\ j.written = j.got + j.out
      /\ j.noise \in Nat
  BY <1>1, RunnerAssumption DEF JobOK, Processes
<1>3. /\ j.noise + 1 \in 0..(MaxNoise + 1)
      /\ to \in {"running", "exited", "failed", "killing"}
      /\ to # "killing" => j.noise + 1 <= MaxNoise
  BY <1>1, <1>2, RunnerAssumption
<1>4. new = [j EXCEPT !.err = 0, !.noise = @ + 1,
               !.at = IF j.noise + 1 > MaxNoise THEN "killing" ELSE @]
  OBVIOUS
<1>5. Becomes(c, new)
  BY <1>4 DEF ReadNoise
<1> HIDE DEF j, to
<1>6. emptied \in Processes
  BY <1>1, Put
<1>7. counted \in Processes
  BY <1>3, <1>6, Put
<1>8. new \in Processes
  BY <1>3, <1>7, Put
<1>9. /\ new.got = j.got /\ new.noise = j.noise + 1 /\ new.at = to
      /\ new.written = j.written /\ new.out = j.out
  BY <1>1 DEF Processes
<1> HIDE DEF new
<1>10. JobOK(new)
  BY <1>2, <1>3, <1>8, <1>9, ProcessOK
<1> QED
  BY <1>5, <1>10

LEMMA RunnerOK ==
  ASSUME RunnerInv, NEW c \in Calls, Runner(c)
  PROVE  \E new : JobOK(new) /\ Becomes(c, new)
<1> DEFINE j == job[c]
<1>1. JobOK(j)
  BY JobsOK DEF RunnerInv
<1>2. CASE Timeout(c)
  <2>1. j \in Processes
    BY <1>1, <1>2, ProcessOf DEF Timeout, Communicating
  <2>2. [j EXCEPT !.at = "killing"] \in Processes /\ [j EXCEPT !.at = "killing"].at = "killing"
    BY <2>1 DEF Processes
  <2>3. JobOK([j EXCEPT !.at = "killing"])
    BY <2>2, ProcessOK
  <2> QED
    BY <1>2, <2>3 DEF Timeout
<1>3. CASE Kill(c)
  BY <1>3, RefusedOK DEF Kill
<1>4. CASE Collect(c)
  <2>1. j \in Processes /\ j.got <= MaxOutput /\ j.written = j.got + j.out /\ j.out = 0
    BY <1>1, <1>4, ProcessOf DEF Collect, JobOK
  <2>2. JobOK(Collected(j))
    BY <2>1, RunnerAssumption DEF JobOK, Jobs, Processes, Outputs, Collected
  <2> QED
    BY <1>4, <2>2, RefusedOK DEF Collect
<1> QED
  BY <1>2, <1>3, <1>4, WriteInputOK, ReadOutputOK, ReadNoiseOK DEF Runner

LEMMA BecomesKeeps ==
  ASSUME RunnerInv, NEW c \in Calls, NEW new, JobOK(new), Becomes(c, new), IInv'
  PROVE  RunnerInv'
<1>1. job \in [Calls -> Jobs] /\ \A d \in Calls : JobOK(job[d])
  BY JobsOK DEF RunnerInv
<1>2. job' \in [Calls -> Jobs] /\ \A d \in Calls : JobOK(job'[d])
  BY <1>1 DEF Becomes, JobOK
<1>3. TypeOK'
  BY DEF IInv
<1> HIDE DEF Jobs, JobOK
<1>4. (RunnerTypeOK /\ ReadSoFar /\ OutputIsComplete)'
  BY <1>2, <1>3 DEF RunnerTypeOK, ReadSoFar, OutputIsComplete, Communicating, Is, JobOK, Jobs
<1> QED
  BY <1>4 DEF RunnerInv

LEMMA NextRunnerInv == RunnerInv /\ [RunnerNext]_runnerVars => RunnerInv'
<1> SUFFICES ASSUME RunnerInv, [RunnerNext]_runnerVars PROVE RunnerInv'
  OBVIOUS
<1>1. IInv'
  BY NextRefines, NextKeepsIInv DEF RunnerInv
<1>2. CASE UNCHANGED job
  <2>1. TypeOK'
    BY <1>1 DEF IInv
  <2> QED
    BY <1>1, <1>2, <2>1
    DEF RunnerInv, RunnerTypeOK, ReadSoFar, OutputIsComplete, Communicating, Is
<1>3. ASSUME NEW c \in Calls, Submit(c) \/ Runner(c) \/ ProcessStep(c)
      PROVE  RunnerInv'
  <2>1. \E new : JobOK(new) /\ Becomes(c, new)
    BY <1>3, SubmitOK, RefusedOK, RunnerOK, ProcessStepOK DEF Submit
  <2> QED
    BY <1>1, <2>1, BecomesKeeps
<1> QED
  BY <1>2, <1>3
  DEF RunnerNext, GatewayStep, GatewayExecute, AllDone, runnerVars

LEMMA InitRunnerInv == RunnerInit => RunnerInv
<1> SUFFICES ASSUME RunnerInit PROVE RunnerInv
  OBVIOUS
<1>1. IInv /\ TypeOK
  BY InitEstablishesIInv DEF RunnerInit, IInv
<1>2. job \in [Calls -> Jobs] /\ \A c \in Calls : JobOK(job[c])
  BY RefusedOK DEF RunnerInit, JobOK
<1> QED
  BY <1>1, <1>2, JobsOK DEF RunnerInv

\* The inductive invariant of the gateway with its runner.
THEOREM RunnerInvariant == RunnerSpec => []RunnerInv
  BY InitRunnerInv, NextRunnerInv, PTL DEF RunnerSpec

\* Jobs keep their types: no pipe overflows, no counter passes its limit.
THEOREM RunnerTypeCorrect == RunnerSpec => []RunnerTypeOK
<1>1. RunnerInv => RunnerTypeOK
  BY DEF RunnerInv
<1> QED
  BY <1>1, RunnerInvariant, PTL

\* The runner accepts an output only when it is whole and within the limit,
\* for every limit and whatever the process writes, and when.
THEOREM OutputsAreComplete == RunnerSpec => []OutputIsComplete
<1>1. RunnerInv => OutputIsComplete
  BY DEF RunnerInv
<1> QED
  BY <1>1, RunnerInvariant, PTL

\* What _read_bounded has not read yet is in the pipe or not written, so a process
\* that finds its stdout empty is still below the bound on what it may write.
LEMMA PipesMove ==
  ASSUME RunnerInv, NEW c \in Calls, Is(c, "running"), job[c].want # "hang"
  PROVE  ProcessReady(c) \/ InputReady(c) \/ OutputReady(c) \/ NoiseReady(c)
<1> DEFINE j == job[c]
<1>1. JobOK(j) /\ j \in Processes /\ j.at = "running"
  BY JobsOK, ProcessOf DEF RunnerInv, Is
<1>2. /\ j.want \in Intents /\ j.left \in Nat /\ j.in \in 0..1 /\ j.out \in 0..1 /\ j.err \in 0..1
      /\ j.got \in Nat /\ j.got <= MaxOutput /\ j.written = j.got + j.out
  BY <1>1, RunnerAssumption DEF JobOK, Processes
<1>3. CASE j.want = "read"
  <2>1. CASE j.in > 0 \/ j.left = 0
    BY <1>3, <2>1 DEF ProcessReady
  <2>2. CASE j.in = 0 /\ j.left > 0
    BY <2>2 DEF InputReady
  <2> QED
    BY <1>2, <2>1, <2>2
<1>4. CASE j.want = "out"
  <2>1. CASE j.out = 0
    <3>1. j.written < MaxOutput + 2
      BY <1>2, <2>1, RunnerAssumption
    <3> QED
      BY <1>4, <2>1, <3>1 DEF ProcessReady
  <2>2. CASE j.out > 0
    BY <1>1, <2>2 DEF OutputReady, Communicating
  <2> QED
    BY <1>2, <2>1, <2>2
<1>5. CASE j.want = "err"
  <2>1. CASE j.err = 0
    BY <1>5, <2>1 DEF ProcessReady
  <2>2. CASE j.err > 0
    BY <1>1, <2>2 DEF NoiseReady, Communicating
  <2> QED
    BY <1>2, <2>1, <2>2
<1>6. CASE j.want \in {"exit", "fail"}
  BY <1>6 DEF ProcessReady
<1> QED
  BY <1>2, <1>3, <1>4, <1>5, <1>6 DEF Intents

\* _communicate_bounded writes and reads at once: whatever the sizes of input,
\* output and noise, the process and the three coroutines never all wait for each
\* other.
THEOREM PipesNeverDeadlock == RunnerSpec => []NoPipeDeadlock
<1>1. RunnerInv => NoPipeDeadlock
  BY PipesMove DEF NoPipeDeadlock
<1> QED
  BY <1>1, RunnerInvariant, PTL

\* With the runner behind it, run_extension_action still starts an extension
\* once per key, and its rows and its GitHub actions agree.
THEOREM RunnerKeepsPromises ==
  RunnerSpec => [](AtMostOneExecution /\ SucceededMeansPerformed /\ NoExtraActions)
<1>1. RunnerInv => AtMostOneExecution /\ SucceededMeansPerformed /\ NoExtraActions
  BY DEF RunnerInv, IInv
<1> QED
  BY <1>1, RunnerInvariant, PTL

\* And it still implements IdempotentRuns.
THEOREM RunnerRefinement == RunnerSpec => ImplementsIdempotentRuns
<1>1. Init => Abstract!Init
  BY DEF Init, Abstract!Init, NoRun
<1>2. IInv /\ [Next]_vars => [Abstract!Next]_<<phaseOf, performed>>
  <2> SUFFICES ASSUME IInv, [Next]_vars
               PROVE  Abstract!Next \/ UNCHANGED <<phaseOf, performed>>
    OBVIOUS
  <2>1. CASE UNCHANGED vars
    BY <2>1 DEF vars, phaseOf
  <2> QED
    BY <2>1, StepRefines DEF Next, Done, vars, phaseOf
<1>3. RunnerInv => IInv
  BY DEF RunnerInv
<1> QED
  BY <1>1, <1>2, <1>3, RunnerInvariant, ImplementsExtensionActions, PTL
  DEF ImplementsIdempotentRuns, Abstract!Spec, phaseOf
=============================================================================
