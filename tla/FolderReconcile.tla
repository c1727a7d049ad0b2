--------------------------- MODULE FolderReconcile ---------------------------
(***************************************************************************)
(* JenkinsClient._ensure_repository_folder for one repository: a legacy    *)
(* workflow job at the repository's path is renamed to "--legacy", and a   *)
(* folder takes its place; then _rebind_legacy_job rewrites the path in    *)
(* the stored builds of that job, over which _refresh_build may write an   *)
(* older copy.  Jenkins (external) changes its namespace at once but shows *)
(* the change later, so every read may be stale; the code polls within a   *)
(* bounded window.  The calls of one gateway process share a lock; a       *)
(* gateway that was restarted, or an operator, is not bound by it.  Every  *)
(* request to Jenkins or to the store is a step.                           *)
(***************************************************************************)
EXTENDS Integers

CONSTANTS
  Calls,       \* calls of ensure_job in the gateway
  NoCall,      \* nobody holds the lock
  Attempts,    \* polls of each loop, 6 in the code
  MaxFaults,   \* bound: requests to Jenkins that fail for their own reasons
  MaxCrashes,  \* bound: restarts of the gateway
  MaxRefreshes \* refreshes of a legacy build until it is found finished

ASSUME ReconcileAssumption ==
  /\ NoCall \notin Calls
  /\ Attempts \in Nat \ {0}
  /\ MaxFaults \in Nat
  /\ MaxCrashes \in Nat
  /\ MaxRefreshes \in Nat

VARIABLES
  item,     \* Jenkins: the class of the item at each path
  shown,    \* Jenkins: the class a read of the path returns
  lock,     \* the call that holds _repository_locks[repository]
  call,     \* where each call is, with what it read
  row,      \* the path in the stored build of the legacy job, if there is one
  copy,     \* the path in the copy of it that a refresh holds
  refreshes,
  faults, crashes,
  legacy,   \* history: there was a legacy job when this began
  foreign,  \* history: there was an item of another type
  excuse    \* history: calls that met a stale read, a fault or a foreign item

vars == <<item, shown, lock, call, row, copy, refreshes, faults, crashes, legacy, foreign, excuse>>
jenkins == <<item, shown>>
stored == <<row, copy, refreshes>>
histories == <<faults, crashes, legacy, foreign, excuse>>

Where == {"repository", "legacy"}
Classes == {"none", "folder", "workflow", "other"}
InLock == {"look", "lookLegacy", "rename", "poll", "pollLegacy", "check", "create", "last"}
Locations == {"idle", "waiting"} \cup InLock \cup {"bind", "returned", "raised"}

At(at) == [at |-> at, current |-> "none", attempt |-> 0]

TypeOK ==
  /\ item \in [Where -> Classes]
  /\ shown \in [Where -> Classes]
  /\ lock \in Calls \cup {NoCall}
  /\ call \in [Calls -> [at : Locations, current : Classes, attempt : 0..(Attempts - 1)]]
  /\ row \in Where \cup {"none"} /\ copy \in Where \cup {"none"}
  /\ refreshes \in 0..MaxRefreshes
  /\ faults \in 0..MaxFaults /\ crashes \in 0..MaxCrashes
  /\ legacy \in BOOLEAN /\ foreign \in BOOLEAN
  /\ excuse \subseteq Calls

\* The repository is new, was migrated before, still has its aggregate job, or
\* an item of another type is in the way at one of the paths.  A migration that
\* was cut off may have left the stored path as it was.
Init ==
  /\ item \in {[repository |-> r, legacy |-> l] :
                 r \in {"none", "workflow", "other"}, l \in {"none", "other"}}
              \cup {[repository |-> "folder", legacy |-> "workflow"]}
  /\ shown = item
  /\ lock = NoCall
  /\ call = [c \in Calls |-> At("idle")]
  /\ faults = 0 /\ crashes = 0
  /\ legacy = (\E p \in Where : item[p] = "workflow")
  /\ foreign = (\E p \in Where : item[p] = "other")
  /\ excuse = IF foreign THEN Calls ELSE {}
  /\ \/ ~legacy /\ row = "none"
     \/ legacy /\ row = "repository"
     \/ item["legacy"] = "workflow" /\ row = "legacy"
  /\ copy = "none" /\ refreshes = 0

-----------------------------------------------------------------------------
\* Jenkins' view of a path catches up.
Settle(p) ==
  /\ shown[p] # item[p]
  /\ shown' = [shown EXCEPT ![p] = item[p]]
  /\ UNCHANGED <<item, lock, call, stored, histories>>

\* A reconciler outside the gateway creates the folder.
OutsiderCreates ==
  /\ item["repository"] = "none"
  /\ item' = [item EXCEPT !["repository"] = "folder"]
  /\ UNCHANGED <<shown, lock, call, stored, histories>>

-----------------------------------------------------------------------------
Goto(c, at) == call' = [call EXCEPT ![c] = At(at)]
Continue(c, at) == Goto(c, at) /\ UNCHANGED lock

\* "async with lock" releases it however the block is left.
Leave(c, how) == Goto(c, how) /\ lock' = NoCall

\* A read of path p by c: what Jenkins shows, which may be out of date.
Reads(c, p) ==
  /\ excuse' = IF shown[p] # item[p] THEN excuse \cup {c} ELSE excuse
  /\ UNCHANGED <<item, shown, stored, faults, crashes, legacy, foreign>>

\* An update, a scan or an event of the repository, and later the next one.
Start(c) ==
  /\ call[c].at \in {"idle", "returned", "raised"}
  /\ Goto(c, "waiting")
  /\ excuse' = IF foreign THEN excuse ELSE excuse \ {c}
  /\ UNCHANGED <<jenkins, lock, stored, faults, crashes, legacy, foreign>>

Acquire(c) ==
  /\ call[c].at = "waiting" /\ lock = NoCall
  /\ lock' = c
  /\ Goto(c, "look")
  /\ UNCHANGED <<jenkins, stored, histories>>

LookRefusesHalfMigrated(c) ==
  /\ call[c].at = "look"
  /\ \/ shown["repository"] = "folder" /\ Leave(c, "bind")
     \/ shown["repository"] = "other" /\ Leave(c, "raised")
     \/ shown["repository"] = "workflow" /\ Continue(c, "lookLegacy")
     \/ shown["repository"] = "none" /\ shown["legacy"] = "none" /\ Continue(c, "check")
     \/ shown["repository"] = "none" /\ shown["legacy"] # "none" /\ Leave(c, "raised")
  /\ Reads(c, "repository")

Look(c) ==
  /\ call[c].at = "look"
  /\ \/ shown["repository"] = "folder" /\ Leave(c, "bind")
     \/ shown["repository"] = "other" /\ Leave(c, "raised")
     \/ shown["repository"] = "workflow" /\ Continue(c, "lookLegacy")
     \/ shown["repository"] = "none" /\ Continue(c, "check")
  /\ Reads(c, "repository")

LookLegacy(c) ==
  /\ call[c].at = "lookLegacy"
  /\ \/ shown["legacy"] \in {"folder", "other"} /\ Leave(c, "raised")
     \/ shown["legacy"] = "none" /\ Continue(c, "rename")
     \/ shown["legacy"] = "workflow" /\ Continue(c, "poll")
  /\ Reads(c, "legacy")

RenameByDeletion(c) ==
  /\ call[c].at = "rename"
  /\ item' = [item EXCEPT !["repository"] = "none"]
  /\ Continue(c, "poll")
  /\ UNCHANGED <<shown, stored, histories>>

\* doRename moves whatever is at the path, unless the new name is taken.
Rename(c) ==
  /\ call[c].at = "rename"
  /\ \/ /\ item["repository"] # "none" /\ item["legacy"] = "none"
        /\ item' = [repository |-> "none", legacy |-> item["repository"]]
        /\ Continue(c, "poll")
     \/ /\ item["repository"] = "none" \/ item["legacy"] # "none"
        /\ Leave(c, "raised")
        /\ UNCHANGED item
  /\ UNCHANGED <<shown, stored, histories>>

\* The first loop reads both paths, one after the other.
Poll(c) ==
  /\ call[c].at = "poll"
  /\ call' = [call EXCEPT ![c].at = "pollLegacy", ![c].current = shown["repository"]]
  /\ UNCHANGED lock
  /\ Reads(c, "repository")

PollLegacyReturnsEarly(c) ==
  /\ call[c].at = "pollLegacy"
  /\ LET current == call[c].current
         old == shown["legacy"]
     IN
     \/ current = "folder" /\ Leave(c, "bind")
     \/ current = "none" /\ old = "workflow" /\ Leave(c, "bind")
     \/ /\ <<current, old>> \in {<<"workflow", "none">>, <<"workflow", "workflow">>,
                                <<"none", "none">>}
        /\ Leave(c, "raised")
  /\ Reads(c, "legacy")

PollLegacy(c) ==
  /\ call[c].at = "pollLegacy"
  /\ LET current == call[c].current
         old == shown["legacy"]
     IN
     \/ current = "folder" /\ Leave(c, "bind")
     \/ current = "none" /\ old = "workflow" /\ Continue(c, "check")
     \/ /\ current = "other" \/ (current # "folder" /\ old \in {"folder", "other"})
        /\ Leave(c, "raised")
     \/ /\ <<current, old>> \in {<<"workflow", "none">>, <<"workflow", "workflow">>,
                                <<"none", "none">>}
        /\ IF call[c].attempt + 1 < Attempts
           THEN /\ call' = [call EXCEPT ![c].at = "poll", ![c].attempt = @ + 1]
                /\ UNCHANGED lock
           ELSE Leave(c, "raised")
  /\ Reads(c, "legacy")

\* The second loop: is the folder there?  If nothing is, create it.
Check(c) ==
  /\ call[c].at = "check"
  /\ \/ shown["repository"] = "folder" /\ Leave(c, "bind")
     \/ shown["repository"] \in {"workflow", "other"} /\ Leave(c, "raised")
     \/ /\ shown["repository"] = "none"
        /\ call' = [call EXCEPT ![c].at = "create"]
        /\ UNCHANGED lock
  /\ Reads(c, "repository")

NextCheck(c) ==
  /\ IF call[c].attempt + 1 < Attempts
     THEN call' = [call EXCEPT ![c].at = "check", ![c].attempt = @ + 1]
     ELSE Goto(c, "last")
  /\ UNCHANGED lock

CreateRaisesOnConflict(c) ==
  /\ call[c].at = "create"
  /\ \/ /\ item["repository"] = "none"
        /\ item' = [item EXCEPT !["repository"] = "folder"]
        /\ NextCheck(c)
     \/ item["repository"] # "none" /\ Leave(c, "raised") /\ UNCHANGED item
  /\ UNCHANGED <<shown, stored, histories>>

\* createItem is refused where an item exists; that error is only remembered.
Create(c) ==
  /\ call[c].at = "create"
  /\ item' = IF item["repository"] = "none"
             THEN [item EXCEPT !["repository"] = "folder"] ELSE item
  /\ NextCheck(c)
  /\ UNCHANGED <<shown, stored, histories>>

Last(c) ==
  /\ call[c].at = "last"
  /\ IF shown["repository"] = "folder" THEN Leave(c, "bind") ELSE Leave(c, "raised")
  /\ Reads(c, "repository")

\* rebind_jenkins_job: one UPDATE of the rows that name the repository's path.
Rebound(path) == IF path = "repository" THEN "legacy" ELSE path

\* The child job is reconciled as well, and _rebind_legacy_job updates the path
\* in the stored builds of the legacy job.
Rebind(c) ==
  /\ call[c].at = "bind"
  /\ row' = Rebound(row)
  /\ Goto(c, "returned")
  /\ UNCHANGED <<jenkins, lock, copy, refreshes, histories>>

\* _refresh_build of the legacy build reads its row, asks Jenkins, and writes the
\* whole row back, or leaves it (it raised, or the build was not found).
RefreshRead ==
  /\ row # "none" /\ copy = "none" /\ refreshes < MaxRefreshes
  /\ copy' = row
  /\ refreshes' = refreshes + 1
  /\ UNCHANGED <<jenkins, lock, call, row, histories>>

RefreshSave ==
  /\ copy # "none"
  /\ row' = copy \/ UNCHANGED row
  /\ copy' = "none"
  /\ UNCHANGED <<jenkins, lock, call, refreshes, histories>>

\* A request fails in transit or in Jenkins.  The call raises, except for a
\* createItem, whose HTTP error, with or without its effect, ends one round.
Fault(c) ==
  /\ call[c].at \in InLock \cup {"bind"} /\ faults < MaxFaults
  /\ faults' = faults + 1
  /\ excuse' = excuse \cup {c}
  /\ \/ call[c].at \in InLock /\ Leave(c, "raised") /\ UNCHANGED item
     \/ call[c].at = "bind" /\ Continue(c, "raised") /\ UNCHANGED item
     \/ call[c].at = "create" /\ NextCheck(c) /\ UNCHANGED item
     \/ /\ call[c].at = "rename" /\ item["repository"] # "none" /\ item["legacy"] = "none"
        /\ item' = [repository |-> "none", legacy |-> item["repository"]]
        /\ Leave(c, "raised")
  /\ UNCHANGED <<shown, stored, crashes, legacy, foreign>>

\* The gateway restarts: its calls and its lock are gone, Jenkins is not.
Crash ==
  /\ crashes < MaxCrashes
  /\ crashes' = crashes + 1
  /\ lock' = NoCall
  /\ call' = [c \in Calls |-> IF call[c].at \in {"returned", "raised"} THEN call[c] ELSE At("idle")]
  /\ copy' = "none"
  /\ UNCHANGED <<jenkins, row, refreshes, faults, legacy, foreign, excuse>>

Step(c) ==
  \/ Acquire(c) \/ Look(c) \/ LookLegacy(c) \/ Rename(c) \/ Poll(c) \/ PollLegacy(c)
  \/ Check(c) \/ Create(c) \/ Last(c) \/ Rebind(c)

Next ==
  \/ \E c \in Calls : Start(c) \/ Step(c) \/ Fault(c)
  \/ \E p \in Where : Settle(p)
  \/ RefreshRead \/ RefreshSave
  \/ OutsiderCreates \/ Crash

\* Requests have a timeout and the lock is fair; the repository goes on having
\* events; the view of Jenkins settles.
Fairness ==
  /\ \A c \in Calls : SF_vars(Step(c)) /\ WF_vars(Start(c))
  /\ \A p \in Where : WF_vars(Settle(p))
  /\ WF_vars(RefreshSave)

Spec == Init /\ [][Next]_vars /\ Fairness

-----------------------------------------------------------------------------
\* The history of a legacy job survives: whatever is interrupted, raced or read
\* stale, exactly one of the two paths holds it, and a stored build that was
\* rebound to the legacy path finds it there.
LegacyJobKept ==
  legacy =>
    /\ \E p \in Where : \A q \in Where : item[q] = "workflow" <=> q = p
    /\ row = "legacy" => item["legacy"] = "workflow"

\* ensure_job goes on to the child job only when the repository's folder is
\* there and visible.
ReturnMeansFolder ==
  \A c \in Calls : call[c].at \in {"bind", "returned"} => item["repository"] = "folder"

\* Without a stale read, a failing request or a foreign item a call succeeds,
\* also when a folder created by a concurrent reconciler wins.
NoSpuriousFailure ==
  \A c \in Calls : call[c].at = "raised" => c \in excuse

\* What a migration has reached is not lost again: no call that acts on a stale
\* read moves or replaces the folder, and a build whose path is rebound while no
\* refresh holds the older one keeps the new path.
MigrationStays ==
  [][/\ item["repository"] = "folder" => item'["repository"] = "folder"
     /\ row = "legacy" /\ copy # "repository" => row' = "legacy" /\ copy' # "repository"]_vars

\* A migration that a restart, a fault or an expired window cut off anywhere is
\* completed by the calls that follow, and none of them waits for ever for the
\* lock.  The stored builds end up at the path of their job, although a refresh
\* may write an older path back.
MigrationCompletes ==
  ~foreign ~> [](item["repository"] = "folder" /\ (legacy => row = "legacy"))
=============================================================================
