------------------------ MODULE FolderReconcileProofs ------------------------
(***************************************************************************)
(* LegacyJobKept, ReturnMeansFolder, NoSpuriousFailure and MigrationStays  *)
(* of FolderReconcile for any number of calls, polls, faults and restarts. *)
(***************************************************************************)
EXTENDS FolderReconcile, TLAPS

Kept(it) == \E p \in Where : \A q \in Where : it[q] = "workflow" <=> q = p

\* What Jenkins holds: workflow jobs and foreign items are those of the
\* beginning, nothing but a workflow job is ever moved to the legacy path, and a
\* folder that is shown is there.
Namespace ==
  /\ legacy => Kept(item)
  /\ ~legacy => \A p \in Where : item[p] # "workflow" /\ shown[p] # "workflow"
  /\ item["legacy"] # "folder"
  /\ ~foreign => \A p \in Where : item[p] # "other"
  /\ shown["repository"] = "folder" => item["repository"] = "folder"

\* Who is past the lock holds it.
Exclusion == \A c \in Calls : call[c].at \in InLock => lock = c

\* A stored path is rebound only to where the job is.
StoredPaths ==
  /\ row = "legacy" => item["legacy"] = "workflow"
  /\ copy = "legacy" => item["legacy"] = "workflow"
  /\ ~legacy => row = "none" /\ copy = "none"

Migrating == {"lookLegacy", "rename", "poll", "pollLegacy"}

\* Only a repository that had a legacy job is migrated, and what a call has read
\* of a folder stays true.
Progress ==
  \A c \in Calls :
    /\ call[c].at \in Migrating => legacy
    /\ call[c].current = "folder" => item["repository"] = "folder"
    /\ call[c].at \in {"bind", "returned"} => item["repository"] = "folder"

\* What a call without an excuse can rely on, since its reads were true and it
\* holds the lock.
Honest ==
  /\ foreign => excuse = Calls
  /\ \A c \in Calls \ excuse :
       /\ call[c].at = "lookLegacy" => item["repository"] = "workflow"
       /\ call[c].at = "rename" => item["repository"] = "workflow" /\ item["legacy"] = "none"
       /\ call[c].at \in {"poll", "pollLegacy"} =>
            item["repository"] \in {"none", "folder"} /\ item["legacy"] = "workflow"
       /\ call[c].at = "pollLegacy" => call[c].current \in {"none", "folder"}
       /\ call[c].at \in {"check", "create"} => item["repository"] \in {"none", "folder"}
       /\ call[c].at = "check" /\ call[c].attempt > 0 => item["repository"] = "folder"
       /\ call[c].at = "last" => item["repository"] = "folder"
       /\ call[c].at # "raised"

IInv == TypeOK /\ Namespace /\ Exclusion /\ StoredPaths /\ Progress /\ Honest

-----------------------------------------------------------------------------
\* Every action keeps the invariant, one conjunct at a time.
LEMMA LookStep ==
  ASSUME IInv, NEW c \in Calls, Look(c)
  PROVE  IInv'
<1> USE ReconcileAssumption DEF IInv, TypeOK, Look, Leave, Continue, Goto,
      Reads, At, jenkins, stored, histories, Where, Classes, InLock, Locations
<1>1. TypeOK'
  OBVIOUS
<1>2. Namespace'
  BY DEF Namespace, Kept, Progress, Migrating
<1>3. Exclusion'
  BY DEF Exclusion
<1>4. StoredPaths'
  BY DEF StoredPaths, Namespace, Kept, Progress, Migrating
<1>5. Progress'
  BY DEF Progress, Namespace, Kept, Migrating
<1>6. Honest'
  BY DEF Honest, Namespace, Kept, Exclusion, Progress, Migrating
<1>7. QED
  BY <1>1, <1>2, <1>3, <1>4, <1>5, <1>6

LEMMA LookLegacyStep ==
  ASSUME IInv, NEW c \in Calls, LookLegacy(c)
  PROVE  IInv'
<1> USE ReconcileAssumption DEF IInv, TypeOK, LookLegacy, Leave, Continue,
      Goto, Reads, At, jenkins, stored, histories, Where, Classes, InLock,
      Locations
<1>1. TypeOK'
  OBVIOUS
<1>2. Namespace'
  BY DEF Namespace, Kept, Progress, Migrating
<1>3. Exclusion'
  BY DEF Exclusion
<1>4. StoredPaths'
  BY DEF StoredPaths, Namespace, Kept, Progress, Migrating
<1>5. Progress'
  BY DEF Progress, Namespace, Kept, Migrating
<1>6. Honest'
  BY DEF Honest, Namespace, Kept, Exclusion, Progress, Migrating
<1>7. QED
  BY <1>1, <1>2, <1>3, <1>4, <1>5, <1>6

LEMMA RenameStep ==
  ASSUME IInv, NEW c \in Calls, Rename(c)
  PROVE  IInv'
<1> USE ReconcileAssumption DEF IInv, TypeOK, Rename, Leave, Continue, Goto,
      At, jenkins, stored, histories, Where, Classes, InLock, Locations
<1>1. TypeOK'
  OBVIOUS
<1>2. Namespace'
  BY DEF Namespace, Kept, Progress, Migrating
<1>3. Exclusion'
  BY DEF Exclusion
<1>4. StoredPaths'
  BY DEF StoredPaths, Namespace, Kept, Progress, Migrating
<1>5. Progress'
  BY DEF Progress, Namespace, Kept, Migrating
<1>6. Honest'
  BY DEF Honest, Namespace, Kept, Exclusion, Progress, Migrating
<1>7. QED
  BY <1>1, <1>2, <1>3, <1>4, <1>5, <1>6

LEMMA PollStep ==
  ASSUME IInv, NEW c \in Calls, Poll(c)
  PROVE  IInv'
<1> USE ReconcileAssumption DEF IInv, TypeOK, Poll, Reads, At, jenkins, stored,
      histories, Where, Classes, InLock, Locations
<1>1. TypeOK'
  <2>1. "pollLegacy" \in Locations /\ shown["repository"] \in Classes
    OBVIOUS
  <2>2. call' \in [Calls -> [at : Locations, current : Classes, attempt : 0..(Attempts - 1)]]
    <3> HIDE DEF Locations, Classes, Where, InLock
    <3> QED BY <2>1
  <2>3. excuse' \subseteq Calls
    OBVIOUS
  <2> QED
    BY <2>2, <2>3
<1>2. Namespace'
  BY DEF Namespace, Kept, Progress, Migrating
<1>3. Exclusion'
  BY DEF Exclusion
<1>4. StoredPaths'
  BY DEF StoredPaths, Namespace, Kept, Progress, Migrating
<1>5. Progress'
  BY DEF Progress, Namespace, Kept, Migrating
<1>6. Honest'
  BY DEF Honest, Namespace, Kept, Exclusion, Progress, Migrating
<1>7. QED
  BY <1>1, <1>2, <1>3, <1>4, <1>5, <1>6

LEMMA PollLegacyStep ==
  ASSUME IInv, NEW c \in Calls, PollLegacy(c)
  PROVE  IInv'
<1> USE ReconcileAssumption DEF IInv, TypeOK, PollLegacy, Leave, Continue,
      Goto, Reads, At, jenkins, stored, histories, Where, Classes, InLock,
      Locations
<1>1. TypeOK'
  OBVIOUS
<1>2. Namespace'
  BY DEF Namespace, Kept, Progress, Migrating
<1>3. Exclusion'
  BY DEF Exclusion
<1>4. StoredPaths'
  BY DEF StoredPaths, Namespace, Kept, Progress, Migrating
<1>5. Progress'
  BY DEF Progress, Namespace, Kept, Migrating
<1>6. Honest'
  BY DEF Honest, Namespace, Kept, Exclusion, Progress, Migrating
<1>7. QED
  BY <1>1, <1>2, <1>3, <1>4, <1>5, <1>6

LEMMA CheckStep ==
  ASSUME IInv, NEW c \in Calls, Check(c)
  PROVE  IInv'
<1> USE ReconcileAssumption DEF IInv, TypeOK, Check, Leave, Goto, Reads, At,
      jenkins, stored, histories, Where, Classes, InLock, Locations
<1>1. TypeOK'
  OBVIOUS
<1>2. Namespace'
  BY DEF Namespace, Kept, Progress, Migrating
<1>3. Exclusion'
  BY DEF Exclusion
<1>4. StoredPaths'
  BY DEF StoredPaths, Namespace, Kept, Progress, Migrating
<1>5. Progress'
  BY DEF Progress, Namespace, Kept, Migrating
<1>6. Honest'
  BY DEF Honest, Namespace, Kept, Exclusion, Progress, Migrating
<1>7. QED
  BY <1>1, <1>2, <1>3, <1>4, <1>5, <1>6

LEMMA CreateStep ==
  ASSUME IInv, NEW c \in Calls, Create(c)
  PROVE  IInv'
<1> USE ReconcileAssumption DEF IInv, TypeOK, Create, NextCheck, Goto, At,
      jenkins, stored, histories, Where, Classes, InLock, Locations
<1>1. TypeOK'
  OBVIOUS
<1>2. Namespace'
  BY DEF Namespace, Kept, Progress, Migrating
<1>3. Exclusion'
  BY DEF Exclusion
<1>4. StoredPaths'
  BY DEF StoredPaths, Namespace, Kept, Progress, Migrating
<1>5. Progress'
  BY DEF Progress, Namespace, Kept, Migrating
<1>6. Honest'
  BY DEF Honest, Namespace, Kept, Exclusion, Progress, Migrating
<1>7. QED
  BY <1>1, <1>2, <1>3, <1>4, <1>5, <1>6

LEMMA LastStep ==
  ASSUME IInv, NEW c \in Calls, Last(c)
  PROVE  IInv'
<1> USE ReconcileAssumption DEF IInv, TypeOK, Last, Leave, Goto, Reads, At,
      jenkins, stored, histories, Where, Classes, InLock, Locations
<1>1. TypeOK'
  OBVIOUS
<1>2. Namespace'
  BY DEF Namespace, Kept, Progress, Migrating
<1>3. Exclusion'
  BY DEF Exclusion
<1>4. StoredPaths'
  BY DEF StoredPaths, Namespace, Kept, Progress, Migrating
<1>5. Progress'
  BY DEF Progress, Namespace, Kept, Migrating
<1>6. Honest'
  BY DEF Honest, Namespace, Kept, Exclusion, Progress, Migrating
<1>7. QED
  BY <1>1, <1>2, <1>3, <1>4, <1>5, <1>6

LEMMA RebindStep ==
  ASSUME IInv, NEW c \in Calls, Rebind(c)
  PROVE  IInv'
<1> USE ReconcileAssumption DEF IInv, TypeOK, Rebind, Rebound, Goto, At,
      jenkins, stored, histories, Where, Classes, InLock, Locations
<1>1. TypeOK'
  OBVIOUS
<1>2. Namespace'
  BY DEF Namespace, Kept, Progress, Migrating
<1>3. Exclusion'
  BY DEF Exclusion
<1>4. StoredPaths'
  BY DEF StoredPaths, Namespace, Kept, Progress, Migrating
<1>5. Progress'
  BY DEF Progress, Namespace, Kept, Migrating
<1>6. Honest'
  BY DEF Honest, Namespace, Kept, Exclusion, Progress, Migrating
<1>7. QED
  BY <1>1, <1>2, <1>3, <1>4, <1>5, <1>6

LEMMA StartStep ==
  ASSUME IInv, NEW c \in Calls, Start(c)
  PROVE  IInv'
<1> USE ReconcileAssumption DEF IInv, TypeOK, Start, Goto, At, jenkins, stored,
      histories, Where, Classes, InLock, Locations
<1>1. TypeOK'
  OBVIOUS
<1>2. Namespace'
  BY DEF Namespace, Kept, Progress, Migrating
<1>3. Exclusion'
  BY DEF Exclusion
<1>4. StoredPaths'
  BY DEF StoredPaths, Namespace, Kept, Progress, Migrating
<1>5. Progress'
  BY DEF Progress, Namespace, Kept, Migrating
<1>6. Honest'
  BY DEF Honest, Namespace, Kept, Exclusion, Progress, Migrating
<1>7. QED
  BY <1>1, <1>2, <1>3, <1>4, <1>5, <1>6

LEMMA AcquireStep ==
  ASSUME IInv, NEW c \in Calls, Acquire(c)
  PROVE  IInv'
<1> USE ReconcileAssumption DEF IInv, TypeOK, Acquire, Goto, At, jenkins,
      stored, histories, Where, Classes, InLock, Locations
<1>1. TypeOK'
  OBVIOUS
<1>2. Namespace'
  BY DEF Namespace, Kept, Progress, Migrating
<1>3. Exclusion'
  BY DEF Exclusion
<1>4. StoredPaths'
  BY DEF StoredPaths, Namespace, Kept, Progress, Migrating
<1>5. Progress'
  BY DEF Progress, Namespace, Kept, Migrating
<1>6. Honest'
  BY DEF Honest, Namespace, Kept, Exclusion, Progress, Migrating
<1>7. QED
  BY <1>1, <1>2, <1>3, <1>4, <1>5, <1>6

LEMMA FaultStep ==
  ASSUME IInv, NEW c \in Calls, Fault(c)
  PROVE  IInv'
<1> USE ReconcileAssumption DEF IInv, TypeOK, Fault, NextCheck, Leave,
      Continue, Goto, At, jenkins, stored, histories, Where, Classes, InLock,
      Locations
<1>1. TypeOK'
  OBVIOUS
<1>2. Namespace'
  BY DEF Namespace, Kept, Progress, Migrating
<1>3. Exclusion'
  BY DEF Exclusion
<1>4. StoredPaths'
  BY DEF StoredPaths, Namespace, Kept, Progress, Migrating
<1>5. Progress'
  BY DEF Progress, Namespace, Kept, Migrating
<1>6. Honest'
  BY DEF Honest, Namespace, Kept, Exclusion, Progress, Migrating
<1>7. QED
  BY <1>1, <1>2, <1>3, <1>4, <1>5, <1>6

LEMMA SettleStep ==
  ASSUME IInv, NEW p \in Where, Settle(p)
  PROVE  IInv'
<1> USE ReconcileAssumption DEF IInv, TypeOK, Settle, jenkins, stored,
      histories, Where, Classes, InLock, Locations
<1>1. TypeOK'
  OBVIOUS
<1>2. Namespace'
  BY DEF Namespace, Kept
<1>3. Exclusion'
  BY DEF Exclusion
<1>4. StoredPaths'
  BY DEF StoredPaths, Namespace, Kept
<1>5. Progress'
  BY DEF Progress, Namespace, Kept, Migrating
<1>6. Honest'
  BY DEF Honest, Namespace, Kept, Migrating
<1>7. QED
  BY <1>1, <1>2, <1>3, <1>4, <1>5, <1>6

LEMMA OutsiderStep ==
  ASSUME IInv, OutsiderCreates
  PROVE  IInv'
<1> USE ReconcileAssumption DEF IInv, TypeOK, OutsiderCreates, jenkins, stored,
      histories, Where, Classes, InLock, Locations
<1>1. TypeOK'
  OBVIOUS
<1>2. Namespace'
  BY DEF Namespace, Kept
<1>3. Exclusion'
  BY DEF Exclusion
<1>4. StoredPaths'
  BY DEF StoredPaths, Namespace, Kept
<1>5. Progress'
  BY DEF Progress, Namespace, Kept, Migrating
<1>6. Honest'
  BY DEF Honest, Namespace, Kept, Migrating
<1>7. QED
  BY <1>1, <1>2, <1>3, <1>4, <1>5, <1>6

LEMMA RefreshReadStep ==
  ASSUME IInv, RefreshRead
  PROVE  IInv'
<1> USE ReconcileAssumption DEF IInv, TypeOK, RefreshRead, jenkins, stored,
      histories, Where, Classes, InLock, Locations
<1>1. TypeOK'
  OBVIOUS
<1>2. Namespace'
  BY DEF Namespace, Kept
<1>3. Exclusion'
  BY DEF Exclusion
<1>4. StoredPaths'
  BY DEF StoredPaths, Namespace, Kept
<1>5. Progress'
  BY DEF Progress, Namespace, Kept, Migrating
<1>6. Honest'
  BY DEF Honest, Namespace, Kept, Migrating
<1>7. QED
  BY <1>1, <1>2, <1>3, <1>4, <1>5, <1>6

LEMMA RefreshSaveStep ==
  ASSUME IInv, RefreshSave
  PROVE  IInv'
<1> USE ReconcileAssumption DEF IInv, TypeOK, RefreshSave, jenkins, stored,
      histories, Where, Classes, InLock, Locations
<1>1. TypeOK'
  OBVIOUS
<1>2. Namespace'
  BY DEF Namespace, Kept
<1>3. Exclusion'
  BY DEF Exclusion
<1>4. StoredPaths'
  BY DEF StoredPaths, Namespace, Kept
<1>5. Progress'
  BY DEF Progress, Namespace, Kept, Migrating
<1>6. Honest'
  BY DEF Honest, Namespace, Kept, Migrating
<1>7. QED
  BY <1>1, <1>2, <1>3, <1>4, <1>5, <1>6

LEMMA CrashStep ==
  ASSUME IInv, Crash
  PROVE  IInv'
<1> USE ReconcileAssumption DEF IInv, TypeOK, Crash, At, jenkins, stored,
      histories, Where, Classes, InLock, Locations
<1>1. TypeOK'
  OBVIOUS
<1>2. Namespace'
  BY DEF Namespace, Kept
<1>3. Exclusion'
  BY DEF Exclusion
<1>4. StoredPaths'
  BY DEF StoredPaths, Namespace, Kept
<1>5. Progress'
  BY DEF Progress, Namespace, Kept, Migrating
<1>6. Honest'
  BY DEF Honest, Namespace, Kept, Migrating
<1>7. QED
  BY <1>1, <1>2, <1>3, <1>4, <1>5, <1>6

LEMMA StutterStep ==
  ASSUME IInv, UNCHANGED vars
  PROVE  IInv'
<1> USE ReconcileAssumption DEF IInv, TypeOK, vars, jenkins, stored, histories,
      Where, Classes, InLock, Locations
<1>1. TypeOK'
  OBVIOUS
<1>2. Namespace'
  BY DEF Namespace, Kept
<1>3. Exclusion'
  BY DEF Exclusion
<1>4. StoredPaths'
  BY DEF StoredPaths, Namespace, Kept
<1>5. Progress'
  BY DEF Progress, Namespace, Kept, Migrating
<1>6. Honest'
  BY DEF Honest, Namespace, Kept, Migrating
<1>7. QED
  BY <1>1, <1>2, <1>3, <1>4, <1>5, <1>6

-----------------------------------------------------------------------------
LEMMA InitInv == Init => IInv
<1> SUFFICES ASSUME Init PROVE IInv
  OBVIOUS
<1> USE ReconcileAssumption DEF Init, At, Where, Classes, InLock, Locations
<1>1. TypeOK
  BY DEF TypeOK
<1>2. Namespace
  BY DEF Namespace, Kept
<1>3. Exclusion
  BY DEF Exclusion
<1>4. StoredPaths
  BY DEF StoredPaths
<1>5. Progress
  BY DEF Progress, Migrating
<1>6. Honest
  BY DEF Honest
<1>7. QED
  BY <1>1, <1>2, <1>3, <1>4, <1>5, <1>6 DEF IInv

LEMMA NextInv == IInv /\ [Next]_vars => IInv'
<1> SUFFICES ASSUME IInv, [Next]_vars PROVE IInv'
  OBVIOUS
<1>1. ASSUME NEW c \in Calls, Start(c) PROVE IInv'
  BY <1>1, StartStep
<1>2. ASSUME NEW c \in Calls, Step(c) PROVE IInv'
  BY <1>2, AcquireStep, LookStep, LookLegacyStep, RenameStep, PollStep, PollLegacyStep,
     CheckStep, CreateStep, LastStep, RebindStep DEF Step
<1>3. ASSUME NEW c \in Calls, Fault(c) PROVE IInv'
  BY <1>3, FaultStep
<1>4. ASSUME NEW p \in Where, Settle(p) PROVE IInv'
  BY <1>4, SettleStep
<1>5. CASE RefreshRead \/ RefreshSave \/ OutsiderCreates \/ Crash
  BY <1>5, RefreshReadStep, RefreshSaveStep, OutsiderStep, CrashStep
<1>6. CASE UNCHANGED vars
  BY <1>6, StutterStep
<1>7. QED
  BY <1>1, <1>2, <1>3, <1>4, <1>5, <1>6 DEF Next

\* The inductive invariant of the reconciliation of a repository's folder: it
\* holds initially and every request, view update, restart and fault keeps it.
THEOREM Invariant == Spec => []IInv
  BY InitInv, NextInv, PTL DEF Spec

\* _ensure_repository_folder never loses or doubles a legacy job, and a stored
\* build that rebind_jenkins_job moved finds its job at the legacy path.
THEOREM JobKept == Spec => []LegacyJobKept
<1>1. IInv => LegacyJobKept
  BY DEF IInv, Namespace, Kept, StoredPaths, LegacyJobKept
<1>2. QED
  BY <1>1, Invariant, PTL

\* _ensure_repository_folder returns only when the folder exists in Jenkins,
\* however stale the reads it decided on were.
THEOREM FolderThere == Spec => []ReturnMeansFolder
<1>1. IInv => ReturnMeansFolder
  BY DEF IInv, Progress, ReturnMeansFolder
<1>2. QED
  BY <1>1, Invariant, PTL

\* A call of _ensure_repository_folder that raised had met a stale read, a
\* failing request or an item of a type it does not manage.
THEOREM FailureExcused == Spec => []NoSpuriousFailure
<1>1. IInv => NoSpuriousFailure
  BY DEF IInv, Honest, NoSpuriousFailure
<1>2. QED
  BY <1>1, Invariant, PTL

-----------------------------------------------------------------------------
StaysStep ==
  /\ item["repository"] = "folder" => item'["repository"] = "folder"
  /\ row = "legacy" /\ copy # "repository" => row' = "legacy" /\ copy' # "repository"

\* A folder is at the repository's path only when the legacy job has left it.  So
\* a rename that was decided on before finds its target taken.
LEMMA FolderNotMoved ==
  ASSUME IInv, NEW c \in Calls, call[c].at = "rename", item["repository"] = "folder"
  PROVE  item["legacy"] = "workflow"
BY DEF IInv, Progress, Migrating, Namespace, Kept, Where

LEMMA StepStays ==
  ASSUME IInv, NEW c \in Calls, Start(c) \/ Step(c) \/ Fault(c)
  PROVE  StaysStep
<1> USE DEF IInv, TypeOK, StaysStep, jenkins, stored
<1>1. CASE Start(c)
  BY <1>1 DEF Start
<1>2. CASE Acquire(c)
  BY <1>2 DEF Acquire
<1>3. CASE Look(c) \/ LookLegacy(c) \/ Poll(c) \/ PollLegacy(c) \/ Check(c) \/ Last(c)
  BY <1>3 DEF Look, LookLegacy, Poll, PollLegacy, Check, Last, Reads
<1>4. CASE Rename(c)
  BY <1>4, FolderNotMoved DEF Rename
<1>5. CASE Create(c)
  BY <1>5 DEF Create
<1>6. CASE Rebind(c)
  BY <1>6 DEF Rebind, Rebound
<1>7. CASE Fault(c)
  BY <1>7, FolderNotMoved DEF Fault
<1> QED BY <1>1, <1>2, <1>3, <1>4, <1>5, <1>6, <1>7 DEF Step

\* What _ensure_repository_folder and _rebind_legacy_job have reached stays
\* reached, whatever stale reads other calls act on and however often they fail:
\* the folder is not moved, and a rebound build keeps its path unless a refresh
\* still holds the old one.  MigrationCompletes adds that it is reached.
THEOREM MigrationIsKept == Spec => MigrationStays
<1>1. IInv /\ [Next]_vars => StaysStep \/ UNCHANGED vars
  <2> SUFFICES ASSUME IInv, Next PROVE StaysStep
    OBVIOUS
  <2>1. ASSUME NEW c \in Calls, Start(c) \/ Step(c) \/ Fault(c) PROVE StaysStep
    BY <2>1, StepStays
  <2>2. ASSUME NEW p \in Where, Settle(p) PROVE StaysStep
    BY <2>2 DEF Settle, StaysStep, stored
  <2>3. CASE RefreshRead
    BY <2>3 DEF RefreshRead, StaysStep, jenkins
  <2>4. CASE RefreshSave
    BY <2>4 DEF RefreshSave, StaysStep, jenkins, IInv, TypeOK, Where
  <2>5. CASE OutsiderCreates
    BY <2>5 DEF OutsiderCreates, StaysStep, stored
  <2>6. CASE Crash
    BY <2>6 DEF Crash, StaysStep, jenkins
  <2> QED BY <2>1, <2>2, <2>3, <2>4, <2>5, <2>6 DEF Next
<1> QED
  BY <1>1, Invariant, PTL DEF Spec, MigrationStays, StaysStep
=============================================================================
