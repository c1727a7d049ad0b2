-------------------------- MODULE ExtensionActions --------------------------
(***************************************************************************)
(* JenkinsService.run_extension_action and the extension_runs table it     *)
(* races on.  A call is one invocation of the operation; a client that     *)
(* retries makes another call with the same idempotency key.  Every await  *)
(* that touches the table, the extension runner or GitHub is a step.       *)
(***************************************************************************)
EXTENDS Integers

CONSTANTS
  Calls,        \* invocations of run_extension_action
  Keys,         \* idempotency keys
  KeyOf,        \* the key each call carries
  NoCall,       \* the owner of an absent run
  MaxActions    \* most GitHub actions an extension's output requests

ASSUME CallAssumption ==
  /\ KeyOf \in [Calls -> Keys]
  /\ NoCall \notin Calls
  /\ MaxActions \in Nat

VARIABLES
  runs,       \* extension_runs: the row stored under each key
  pc,         \* where each call is
  pending,    \* requested_github_actions a call has still to execute
  requested,  \* history: actions requested by the output of the key's run
  executed,   \* history: times the extension container was started for a key
  performed   \* history: GitHub actions performed for a key

vars == <<runs, pc, pending, requested, executed, performed>>

Statuses == {"absent", "running", "succeeded", "failed"}
InFlight == {"create", "execute", "act", "failing"}
Locations == {"idle"} \cup InFlight \cup {"returned", "raised"}

\* The identity of a run (its UUID) is the call that created it.
NoRun == [owner |-> NoCall, status |-> "absent"]
Run(c, s) == [owner |-> c, status |-> s]

TypeOK ==
  /\ runs \in [Keys -> [owner : Calls \cup {NoCall}, status : Statuses]]
  /\ pc \in [Calls -> Locations]
  /\ pending \in [Calls -> Nat]
  /\ requested \in [Keys -> Nat]
  /\ executed \in [Keys -> Nat]
  /\ performed \in [Keys -> Nat]

Init ==
  /\ runs = [k \in Keys |-> NoRun]
  /\ pc = [c \in Calls |-> "idle"]
  /\ pending = [c \in Calls |-> 0]
  /\ requested = [k \in Keys |-> 0]
  /\ executed = [k \in Keys |-> 0]
  /\ performed = [k \in Keys |-> 0]

Goto(c, location) == pc' = [pc EXCEPT ![c] = location]

SaveLastWriterWins(stored, run) == run

\* INSERT ... ON CONFLICT (idempotency_key): the row is replaced only by the
\* run that owns it, and the stored row is what the caller gets back.
SaveExtensionRun(stored, run) ==
  IF stored = NoRun \/ stored.owner = run.owner THEN run ELSE stored

Save(c, status) ==
  runs' = [runs EXCEPT ![KeyOf[c]] = SaveExtensionRun(@, Run(c, status))]

\* get_extension_run_by_key, then the repository and the manifest, either of
\* which may be unknown.
Lookup(c) ==
  /\ pc[c] = "idle"
  /\ \/ runs[KeyOf[c]] # NoRun /\ Goto(c, "returned")
     \/ runs[KeyOf[c]] = NoRun /\ (Goto(c, "create") \/ Goto(c, "raised"))
  /\ UNCHANGED <<runs, pending, requested, executed, performed>>

CreateIgnoringTheStoredRun(c) ==
  /\ pc[c] = "create"
  /\ Save(c, "running")
  /\ Goto(c, "execute")
  /\ UNCHANGED <<pending, requested, executed, performed>>

\* The claim: a call whose run is not the stored one returns the stored one.
Create(c) ==
  /\ pc[c] = "create"
  /\ Save(c, "running")
  /\ Goto(c, IF runs'[KeyOf[c]].owner = c THEN "execute" ELSE "returned")
  /\ UNCHANGED <<pending, requested, executed, performed>>

\* The container runs, and its output is validated; either may fail.
Execute(c) ==
  /\ pc[c] = "execute"
  /\ executed' = [executed EXCEPT ![KeyOf[c]] = @ + 1]
  /\ \/ Goto(c, "failing") /\ UNCHANGED <<pending, requested>>
     \/ \E n \in 0..MaxActions :
          /\ pending' = [pending EXCEPT ![c] = n]
          /\ requested' = [requested EXCEPT ![KeyOf[c]] = n]
          /\ Goto(c, "act")
  /\ UNCHANGED <<runs, performed>>

ActRetriesALostAnswer(c) ==
  /\ pc[c] = "act" /\ pending[c] > 0 /\ performed[KeyOf[c]] <= MaxActions
  /\ performed' = [performed EXCEPT ![KeyOf[c]] = @ + 1]
  /\ \/ pending' = [pending EXCEPT ![c] = @ - 1]
     \/ UNCHANGED pending
  /\ UNCHANGED <<runs, pc, requested, executed>>

\* One requested action: performed and audited; denied or refused; or
\* performed although its answer or its audit record was lost.
Act(c) ==
  /\ pc[c] = "act" /\ pending[c] > 0
  /\ \/ /\ performed' = [performed EXCEPT ![KeyOf[c]] = @ + 1]
        /\ pending' = [pending EXCEPT ![c] = @ - 1]
        /\ UNCHANGED pc
     \/ UNCHANGED <<performed, pending>> /\ Goto(c, "failing")
     \/ /\ performed' = [performed EXCEPT ![KeyOf[c]] = @ + 1]
        /\ UNCHANGED pending
        /\ Goto(c, "failing")
  /\ UNCHANGED <<runs, requested, executed>>

FinishBeforeTheLastAction(c) ==
  /\ pc[c] = "act" /\ pending[c] <= 1
  /\ Save(c, "succeeded")
  /\ Goto(c, "returned")
  /\ UNCHANGED <<pending, requested, executed, performed>>

\* The run is saved as succeeded and returned, unless the audit record that
\* follows raises.  When the save raises, whether or not it was committed, the
\* same run goes down the failure path.
Finish(c) ==
  /\ pc[c] = "act" /\ pending[c] = 0
  /\ \/ Save(c, "succeeded") /\ \E to \in {"returned", "raised", "failing"} : Goto(c, to)
     \/ UNCHANGED runs /\ Goto(c, "failing")
  /\ UNCHANGED <<pending, requested, executed, performed>>

\* except Exception: the run is saved as failed (unless that save raises
\* too) and the error is raised to the caller.
Fail(c) ==
  /\ pc[c] = "failing"
  /\ Save(c, "failed") \/ UNCHANGED runs
  /\ Goto(c, "raised")
  /\ UNCHANGED <<pending, requested, executed, performed>>

\* The gateway stops, or the call's task is cancelled (CancelledError is not
\* an Exception): nothing is cleaned up.
Interrupt(c) ==
  /\ pc[c] \in InFlight
  /\ Goto(c, "raised")
  /\ UNCHANGED <<runs, pending, requested, executed, performed>>

Step(c) ==
  Lookup(c) \/ Create(c) \/ Execute(c) \/ Act(c) \/ Finish(c) \/ Fail(c)

Done ==
  /\ \A c \in Calls : pc[c] \in {"returned", "raised"}
  /\ UNCHANGED vars

Next == (\E c \in Calls : Step(c) \/ Interrupt(c)) \/ Done

\* A coroutine that is not waiting for ever on a peer (every await in it has a
\* timeout) is resumed by the event loop.
Fairness == \A c \in Calls : WF_vars(Step(c))

Spec == Init /\ [][Next]_vars /\ Fairness

-----------------------------------------------------------------------------
\* Racing and repeated calls of run_extension_action with one idempotency key
\* start the extension's container at most once.
AtMostOneExecution == \A k \in Keys : executed[k] <= 1

\* A stored run reads "succeeded" only when every GitHub action its output
\* requested has been performed, whatever failed or died on the way.
SucceededMeansPerformed ==
  \A k \in Keys :
    runs[k].status = "succeeded" => executed[k] = 1 /\ performed[k] = requested[k]

\* No more GitHub actions are performed for a key than one output of the
\* extension requested, over all the calls that carry the key.
NoExtraActions == \A k \in Keys : performed[k] <= requested[k]

\* Every call is answered, with a run or with an error, though the run it
\* finds may have been left "running" by an interrupted call.
EveryCallAnswered ==
  \A c \in Calls : pc[c] \in InFlight ~> pc[c] \in {"returned", "raised"}

Abstract == INSTANCE IdempotentRuns
              WITH phase <- [k \in Keys |-> runs[k].status], effects <- performed

\* run_extension_action implements the promise of the extension_runs table:
\* one claim per key, effects only under a running claim, no reopening.
ImplementsIdempotentRuns == Abstract!Spec
=============================================================================
