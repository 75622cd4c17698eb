------------------------ MODULE EnvironmentSyncProofs ------------------------
(***************************************************************************)
(* What is true of EnvironmentSync for every set of environments and rows:  *)
(* types, one active row per environment, and one sync per environment when *)
(* nobody cancels a job and the clean-up meets no task that still runs.     *)
(***************************************************************************)
EXTENDS EnvironmentSync, TLAPS

USE EnvOfAssumption, NoJobAssumption

\* Nobody takes a row away from a task that still works on it.
RowsAreLeftAlone == "cancel" \notin Faults /\ "slow" \notin Faults

-----------------------------------------------------------------------------
(* What a step does to the rows: it may end any of them, and makes at most one *)
(* active, one that the index admits.                                         *)

EndsRows ==
    \A j \in Jobs : status'[j] \in Active => status[j] \in Active

ActivatesOne ==
    \E j \in Jobs : /\ AdmitsActive(j)
                    /\ \A k \in Jobs \ {j} : status'[k] = status[k]

\* Setting one row to a value that is not active ends rows only.
LEMMA SettingEnds ==
    ASSUME TypeOK, NEW j \in Jobs, NEW value, value \notin Active,
           status' = [status EXCEPT ![j] = value]
    PROVE  EndsRows
BY DEF TypeOK, EndsRows

\* Setting a row that the index admits changes no other row.
LEMMA SettingActivates ==
    ASSUME TypeOK, NEW j \in Jobs, NEW value, AdmitsActive(j),
           status' = [status EXCEPT ![j] = value]
    PROVE  ActivatesOne
BY DEF TypeOK, ActivatesOne, AdmitsActive

\* What the last write of a task does: it ends its row or is lost.
LEMMA EndingEnds ==
    ASSUME TypeOK, NEW j \in Jobs, NEW outcome, outcome \notin Active,
           SetEnded(j, outcome)
    PROVE  EndsRows
<1>1. CASE status' = [status EXCEPT ![j] = outcome]
  BY <1>1, SettingEnds
<1>2. CASE UNCHANGED status
  BY <1>2 DEF EndsRows
<1>3. CASE status' = [status EXCEPT ![j] = "failed"]
  BY <1>3, SettingEnds DEF Active
<1> QED BY <1>1, <1>2, <1>3 DEF SetEnded

\* Work, the only action of a task, split into what it does to the rows.
LEMMA WorkOnRows ==
    ASSUME TypeOK, NEW j \in Jobs, Work(j)
    PROVE  EndsRows \/ ActivatesOne
<1>1. CASE Start(j)
  <2>1. CASE SetRunning(j)
    BY <2>1, SettingActivates DEF SetRunning
  <2>2. CASE SetRunningFails(j)
    BY <2>2 DEF SetRunningFails, EndsRows
  <2> QED BY <1>1, <2>1, <2>2 DEF Start
<1>2. CASE Discover(j)
  BY <1>2 DEF Discover, EndsRows
<1>3. CASE Batch(j)
  BY <1>3, SettingActivates DEF Batch, SetRunning
<1>4. CASE LastBatch(j)
  <2>1. CASE SetRunning(j)
    BY <2>1, SettingActivates DEF SetRunning
  <2>2. CASE SetRunningFails(j)
    BY <2>2 DEF SetRunningFails, EndsRows
  <2> QED BY <1>4, <2>1, <2>2 DEF LastBatch
<1>5. CASE SyncFails(j)
  BY <1>5 DEF SyncFails, EndsRows
<1>6. CASE Finish(j)
  BY <1>6, EndingEnds DEF Finish, Active
<1>7. CASE Fail(j)
  BY <1>7, EndingEnds DEF Fail, Active
<1> QED BY <1>1, <1>2, <1>3, <1>4, <1>5, <1>6, <1>7 DEF Work

\* Every step ends rows or makes one active.
LEMMA StepOnRows ==
    ASSUME TypeOK, [Next]_vars
    PROVE  EndsRows \/ ActivatesOne
<1>1. ASSUME NEW j \in Jobs, Request(j)
      PROVE  ActivatesOne
  BY <1>1, SettingActivates DEF Request, Insert
<1>2. ASSUME NEW j \in Jobs, List(j)
      PROVE  ActivatesOne
  BY <1>2, SettingActivates DEF List, Insert
<1>3. ASSUME NEW j \in Jobs, Cancel(j)
      PROVE  EndsRows
  BY <1>3, SettingEnds DEF Cancel, Active
<1>4. ASSUME NEW j \in Jobs, Work(j)
      PROVE  EndsRows \/ ActivatesOne
  BY <1>4, WorkOnRows
<1>5. ASSUME NEW j \in Jobs, SchedulerStarts(j)
      PROVE  ActivatesOne
  BY <1>5, SettingActivates DEF SchedulerStarts, Insert
<1>6. ASSUME NEW j \in Jobs, Clean(j)
      PROVE  EndsRows
  <2>1. status' = [status EXCEPT ![j] = "completed"]
        \/ status' = [status EXCEPT ![j] = "failed"]
    BY <1>6 DEF Clean, CleanPending, CleanRunning
  <2> QED BY <2>1, SettingEnds DEF Active
<1>7. ASSUME NEW e \in Environments, SchedulerRefused(e)
      PROVE  EndsRows
  BY <1>7, SettingEnds DEF SchedulerRefused, Active
<1>8. CASE Crash
  BY <1>8 DEF Crash, EndsRows
<1>9. CASE UNCHANGED vars
  BY <1>9 DEF vars, EndsRows
<1> QED BY <1>1, <1>2, <1>3, <1>4, <1>5, <1>6, <1>7, <1>8, <1>9 DEF Next

-----------------------------------------------------------------------------
(* Types.                                                                  *)

LEMMA InitTypes == Init => TypeOK
BY DEF Init, TypeOK

LEMMA TypesKept ==
    ASSUME TypeOK, [Next]_vars
    PROVE  TypeOK'
<1> USE DEF TypeOK, Active, Live
<1>1. ASSUME NEW j \in Jobs, Request(j) \/ List(j) \/ Cancel(j)
      PROVE  TypeOK'
  BY <1>1 DEF Request, List, Cancel, Insert
<1>2. ASSUME NEW j \in Jobs, Start(j) \/ Discover(j) \/ Batch(j) \/ SyncFails(j)
      PROVE  TypeOK'
  BY <1>2 DEF Start, Discover, Batch, SyncFails, SetRunning, SetRunningFails
<1>3. ASSUME NEW j \in Jobs, LastBatch(j)
      PROVE  TypeOK'
  BY <1>3 DEF LastBatch, SetRunning, SetRunningFails
<1>4. ASSUME NEW j \in Jobs, Finish(j) \/ Fail(j)
      PROVE  TypeOK'
  BY <1>4 DEF Finish, Fail, SetEnded
<1>5. ASSUME NEW j \in Jobs, SchedulerStarts(j)
      PROVE  TypeOK'
  BY <1>5 DEF SchedulerStarts, Insert
<1>6. ASSUME NEW j \in Jobs, Clean(j)
      PROVE  TypeOK'
  BY <1>6 DEF Clean, CleanPending, CleanRunning
<1>7. ASSUME NEW e \in Environments, SchedulerRefused(e)
      PROVE  TypeOK'
  BY <1>7 DEF SchedulerRefused
<1>8. CASE Crash
  BY <1>8 DEF Crash
<1>9. CASE UNCHANGED vars
  BY <1>9 DEF vars
<1> QED BY <1>1, <1>2, <1>3, <1>4, <1>5, <1>6, <1>7, <1>8, <1>9 DEF Next, Work

\* Rows, tasks and the scheduler's variable keep their types, whatever fails.
THEOREM TypeCorrect == Spec => []TypeOK
BY InitTypes, TypesKept, PTL DEF Spec

-----------------------------------------------------------------------------
(* One active row per environment.                                         *)

LEMMA OneActiveKept ==
    ASSUME TypeOK, OneActiveJob, [Next]_vars
    PROVE  OneActiveJob'
<1>1. CASE EndsRows
  BY <1>1 DEF EndsRows, OneActiveJob
<1>2. CASE ActivatesOne
  <2>1. PICK j \in Jobs : /\ AdmitsActive(j)
                          /\ \A k \in Jobs \ {j} : status'[k] = status[k]
    BY <1>2 DEF ActivatesOne
  <2>2. SUFFICES ASSUME NEW k \in Jobs, NEW l \in Jobs, EnvOf[k] = EnvOf[l],
                        status'[k] \in Active, status'[l] \in Active, k # l
                 PROVE  FALSE
    BY DEF OneActiveJob
  <2>3. CASE k = j
    BY <2>1, <2>2, <2>3 DEF AdmitsActive
  <2>4. CASE l = j
    BY <2>1, <2>2, <2>4 DEF AdmitsActive
  <2>5. CASE k # j /\ l # j
    BY <2>1, <2>2, <2>5 DEF OneActiveJob
  <2> QED BY <2>3, <2>4, <2>5
<1> QED BY <1>1, <1>2, StepOnRows

\* The partial unique index keeps a second sync job of an environment from being
\* pending or running, though tasks set cancelled and cleaned-up rows to running
\* again (canonical_env_sync_service.py) and every write may fail.
THEOREM OneActive == Spec => []OneActiveJob
<1>1. Init => OneActiveJob
  BY DEF Init, OneActiveJob, Active
<1> QED BY <1>1, TypeCorrect, OneActiveKept, PTL DEF Spec

-----------------------------------------------------------------------------
(* One sync per environment.                                               *)

\* The scheduler refuses only when none of its tasks is live, so it fails a row
\* whose work is over.
LEMMA RefusedIsOver ==
    ASSUME TypeOK, CurrentIsScheduled, NEW e \in Environments, SchedulerRefused(e)
    PROVE  task[current] \notin Live
BY DEF TypeOK, CurrentIsScheduled, SchedulerRefused, SchedulerIdle

LEMMA LiveKept ==
    ASSUME TypeOK, SyncInv, RowsAreLeftAlone, [Next]_vars
    PROVE  LiveIsActive'
<1> USE DEF TypeOK, SyncInv, LiveIsActive, Active, Live
<1>1. ASSUME NEW j \in Jobs, Request(j) \/ List(j)
      PROVE  LiveIsActive'
  BY <1>1 DEF Request, List, Insert
<1>2. ASSUME NEW j \in Jobs, Cancel(j)
      PROVE  LiveIsActive'
  BY <1>2 DEF Cancel, RowsAreLeftAlone
<1>3. ASSUME NEW j \in Jobs, Start(j) \/ Discover(j) \/ Batch(j) \/ SyncFails(j)
      PROVE  LiveIsActive'
  BY <1>3 DEF Start, Discover, Batch, SyncFails, SetRunning, SetRunningFails
<1>4. ASSUME NEW j \in Jobs, LastBatch(j)
      PROVE  LiveIsActive'
  BY <1>4 DEF LastBatch, SetRunning, SetRunningFails
<1>5. ASSUME NEW j \in Jobs, Finish(j) \/ Fail(j)
      PROVE  LiveIsActive'
  BY <1>5 DEF Finish, Fail, SetEnded
<1>6. ASSUME NEW j \in Jobs, SchedulerStarts(j)
      PROVE  LiveIsActive'
  BY <1>6 DEF SchedulerStarts, Insert
<1>7. ASSUME NEW j \in Jobs, Clean(j)
      PROVE  LiveIsActive'
  BY <1>7 DEF Clean, CleanPending, CleanRunning, Stale, RowsAreLeftAlone
<1>8. ASSUME NEW e \in Environments, SchedulerRefused(e)
      PROVE  LiveIsActive'
  BY <1>8, RefusedIsOver DEF SchedulerRefused
<1>9. CASE Crash
  BY <1>9 DEF Crash
<1>10. CASE UNCHANGED vars
  BY <1>10 DEF vars
<1> QED
  BY <1>1, <1>2, <1>3, <1>4, <1>5, <1>6, <1>7, <1>8, <1>9, <1>10 DEF Next, Work

LEMMA CurrentKept ==
    ASSUME CurrentIsScheduled, [Next]_vars
    PROVE  CurrentIsScheduled'
BY DEF CurrentIsScheduled, Next, vars, Request, List, Cancel, Work, Start, Discover,
       Batch, LastBatch, SyncFails, Finish, Fail, SchedulerStarts, Clean, CleanPending,
       CleanRunning, SchedulerRefused, Crash

\* A live task keeps its row active and an environment has one active row.
LEMMA ExclusionFollows == SyncInv => OneSyncPerEnvironment
BY DEF SyncInv, OneActiveJob, LiveIsActive, OneSyncPerEnvironment

LEMMA SyncInvariant == RowsAreLeftAlone => (Spec => []SyncInv)
<1>1. Init => SyncInv
  BY DEF Init, SyncInv, OneActiveJob, LiveIsActive, CurrentIsScheduled, Active, Live
<1>2. RowsAreLeftAlone /\ TypeOK /\ SyncInv /\ [Next]_vars => SyncInv'
  BY OneActiveKept, LiveKept, CurrentKept DEF SyncInv
<1>3. CASE RowsAreLeftAlone
  BY <1>1, <1>2, <1>3, TypeCorrect, PTL DEF Spec
<1> QED BY <1>3

\* While nobody cancels a sync job and no task outlasts the clean-up, the scheduler
\* and the users' requests never synchronise an environment twice at a time, with
\* failing writes, failing syncs and crashes.
THEOREM Exclusion == RowsAreLeftAlone => (Spec => []OneSyncPerEnvironment)
BY SyncInvariant, ExclusionFollows, PTL

-----------------------------------------------------------------------------
(* Exclusive execution, as a refinement.                                   *)

LEMMA TaskHasRowKept ==
    ASSUME TypeOK, TaskHasRow, [Next]_vars
    PROVE  TaskHasRow'
<1> USE DEF TypeOK, TaskHasRow, Active, Live
<1>1. ASSUME NEW j \in Jobs, Request(j) \/ List(j) \/ Cancel(j)
      PROVE  TaskHasRow'
  BY <1>1 DEF Request, List, Cancel, Insert
<1>2. ASSUME NEW j \in Jobs, Start(j) \/ Discover(j) \/ Batch(j) \/ SyncFails(j)
      PROVE  TaskHasRow'
  BY <1>2 DEF Start, Discover, Batch, SyncFails, SetRunning, SetRunningFails
<1>3. ASSUME NEW j \in Jobs, LastBatch(j)
      PROVE  TaskHasRow'
  BY <1>3 DEF LastBatch, SetRunning, SetRunningFails
<1>4. ASSUME NEW j \in Jobs, Finish(j) \/ Fail(j)
      PROVE  TaskHasRow'
  BY <1>4 DEF Finish, Fail, SetEnded
<1>5. ASSUME NEW j \in Jobs, SchedulerStarts(j)
      PROVE  TaskHasRow'
  BY <1>5 DEF SchedulerStarts, Insert
<1>6. ASSUME NEW j \in Jobs, Clean(j)
      PROVE  TaskHasRow'
  BY <1>6 DEF Clean, CleanPending, CleanRunning
<1>7. ASSUME NEW e \in Environments, SchedulerRefused(e)
      PROVE  TaskHasRow'
  BY <1>7 DEF SchedulerRefused
<1>8. CASE Crash
  BY <1>8 DEF Crash
<1>9. CASE UNCHANGED vars
  BY <1>9 DEF vars
<1> QED BY <1>1, <1>2, <1>3, <1>4, <1>5, <1>6, <1>7, <1>8, <1>9 DEF Next, Work

At == [e \in Environments |-> {j \in Jobs : EnvOf[j] = e /\ task[j] \in Live}]
Over == {j \in Jobs : task[j] = "ended"}

\* A step that starts no task leaves each as it is, or at work, or ends it.
TasksGoOn ==
    \A j \in Jobs : \/ task'[j] = task[j]
                    \/ task[j] \in Live /\ task'[j] \in Live \cup {"ended"}

LEMMA OtherStepsGoOn ==
    ASSUME TypeOK, [Next]_vars,
           \A j \in Jobs : ~Request(j) /\ ~SchedulerStarts(j)
    PROVE  TasksGoOn
<1> USE DEF TypeOK, TasksGoOn, Live
<1>1. ASSUME NEW j \in Jobs, List(j) \/ Cancel(j) \/ Batch(j) \/ Clean(j)
      PROVE  TasksGoOn
  BY <1>1 DEF List, Cancel, Batch, Clean, CleanPending, CleanRunning
<1>2. ASSUME NEW j \in Jobs, Start(j) \/ Discover(j) \/ LastBatch(j) \/ SyncFails(j)
      PROVE  TasksGoOn
  BY <1>2 DEF Start, Discover, LastBatch, SyncFails
<1>3. ASSUME NEW j \in Jobs, Finish(j) \/ Fail(j)
      PROVE  TasksGoOn
  BY <1>3 DEF Finish, Fail
<1>4. ASSUME NEW e \in Environments, SchedulerRefused(e)
      PROVE  TasksGoOn
  BY <1>4 DEF SchedulerRefused
<1>5. CASE Crash
  BY <1>5 DEF Crash
<1>6. CASE UNCHANGED vars
  BY <1>6 DEF vars
<1> QED BY <1>1, <1>2, <1>3, <1>4, <1>5, <1>6 DEF Next, Work

\* Such a step ends the work of some environments, of none if all go on.
LEMMA GoingOnEnds ==
    ASSUME TypeOK, OneSyncPerEnvironment, TasksGoOn
    PROVE  Exclusive!Next
<1> DEFINE ended == {e \in Environments : At'[e] # At[e]}
<1>0. \A e \in Environments :
         /\ At[e] = {j \in Jobs : EnvOf[j] = e /\ task[j] \in Live}
         /\ At'[e] = {j \in Jobs : EnvOf[j] = e /\ task'[j] \in Live}
  BY DEF At
<1>1. \A e \in Environments : At'[e] \subseteq At[e]
  BY <1>0 DEF TasksGoOn, Live
<1>2. \A e \in ended : At'[e] = {}
  <2> SUFFICES ASSUME NEW e \in ended, NEW j \in At'[e] PROVE FALSE
    OBVIOUS
  <2>1. \A k \in At[e] : k = j
    BY <1>0, <1>1 DEF OneSyncPerEnvironment
  <2> QED BY <1>1, <2>1
<1>3. At' = [e \in Environments |-> IF e \in ended THEN {} ELSE At[e]]
  BY <1>2 DEF At
<1>4. Over' = Over \cup UNION {At[e] : e \in ended}
  <2>1. ASSUME NEW j \in Jobs
        PROVE  j \in Over' <=> j \in Over \/ \E e \in ended : j \in At[e]
    <3>1. EnvOf[j] \in Environments
      OBVIOUS
    <3>2. task[j] \in Live => (j \in At'[EnvOf[j]] <=> task'[j] # "ended")
      BY <1>0, <3>1 DEF TasksGoOn, Live
    <3>3. \A e \in Environments : j \in At[e] <=> e = EnvOf[j] /\ task[j] \in Live
      BY <1>0
    <3>4. (\E e \in ended : j \in At[e]) <=> task[j] \in Live /\ task'[j] = "ended"
      <4>1. ASSUME NEW e \in ended, j \in At[e]
            PROVE  task[j] \in Live /\ task'[j] = "ended"
        BY <1>2, <3>2, <3>3, <4>1
      <4>2. ASSUME task[j] \in Live, task'[j] = "ended"
            PROVE  EnvOf[j] \in ended /\ j \in At[EnvOf[j]]
        BY <3>1, <3>2, <3>3, <4>2
      <4> QED BY <4>1, <4>2
    <3> QED BY <3>4 DEF Over, TasksGoOn, Live
  <2>2. \A e \in ended : At[e] \subseteq Jobs
    BY <1>0
  <2> QED BY <2>1, <2>2 DEF Over
<1>5. \E S \in SUBSET Environments :
         /\ Over' = Over \cup UNION {At[e] : e \in S}
         /\ At' = [e \in Environments |-> IF e \in S THEN {} ELSE At[e]]
  <2>1. ended \in SUBSET Environments
    OBVIOUS
  <2> HIDE DEF ended
  <2> QED BY <1>3, <1>4, <2>1
<1> QED BY <1>5 DEF Exclusive!Next, Exclusive!End, At, Over

\* A request, or the scheduler, starts a new row's task where the index finds no
\* active row and so, as live tasks keep theirs active, nobody at work.
LEMMA BeginStarts ==
    ASSUME TypeOK, SyncInv, TaskHasRow, NEW j \in Jobs, Insert(j), NEW step \in Live,
           task' = [task EXCEPT ![j] = step]
    PROVE  Exclusive!Next
<1> DEFINE e == EnvOf[j]
<1>1. e \in Environments
  OBVIOUS
<1>2. task[j] = "none" /\ task'[j] = step
  BY DEF Insert, TaskHasRow, TypeOK
<1>3. At[e] = {}
  BY <1>1, <1>2 DEF At, Insert, AdmitsActive, SyncInv, LiveIsActive, Live
<1>4. \A f \in Environments : j \notin At[f]
  BY <1>2 DEF At, Live
<1>5. \A f \in Environments : At'[f] = IF f = e THEN {j} ELSE At[f]
  <2> SUFFICES ASSUME NEW f \in Environments, NEW k \in Jobs
               PROVE  k \in At'[f] <=> k \in IF f = e THEN {j} ELSE At[f]
    BY <1>1 DEF At
  <2>1. CASE k = j
    BY <1>2, <1>4, <2>1 DEF At
  <2>2. CASE k # j
    <3>1. task'[k] = task[k]
      BY <2>2 DEF TypeOK
    <3> QED BY <1>3, <2>2, <3>1 DEF At
  <2> QED BY <2>1, <2>2
<1>6. At' = [At EXCEPT ![e] = {j}]
  BY <1>1, <1>5 DEF At
<1>7. Over' = Over /\ j \notin Over
  BY <1>2 DEF Over, TypeOK, Live
<1> QED BY <1>1, <1>3, <1>4, <1>6, <1>7 DEF Exclusive!Next, Exclusive!Start, At, Over

LEMMA StepExclusive ==
    ASSUME TypeOK, SyncInv, TaskHasRow, [Next]_vars
    PROVE  Exclusive!Next
<1>1. ASSUME NEW j \in Jobs, Request(j) \/ SchedulerStarts(j)
      PROVE  Exclusive!Next
  BY <1>1, BeginStarts DEF Request, SchedulerStarts, Live
<1>2. ASSUME \A j \in Jobs : ~Request(j) /\ ~SchedulerStarts(j)
      PROVE  Exclusive!Next
  BY <1>2, OtherStepsGoOn, GoingOnEnds, ExclusionFollows
<1> QED BY <1>1, <1>2

\* While rows are left alone, users, the scheduler and crashes together carry out the
\* jobs of an environment one at a time, and none twice: the behaviours of the sync
\* jobs are among those of exclusive execution.
THEOREM ExclusiveOnce == RowsAreLeftAlone => (Spec => SyncsExclusively)
<1> SUFFICES ASSUME RowsAreLeftAlone PROVE Spec => SyncsExclusively
  OBVIOUS
<1>1. Init => Exclusive!Init
  BY DEF Init, Live, Exclusive!Init
<1>2. Init => TaskHasRow
  BY DEF Init, TaskHasRow
<1>3. TypeOK /\ SyncInv /\ TaskHasRow /\ [Next]_vars => Exclusive!Next
  BY StepExclusive
<1> QED
  BY <1>1, <1>2, <1>3, TypeCorrect, SyncInvariant, TaskHasRowKept, PTL
     DEF Spec, SyncsExclusively, Exclusive!Spec

=============================================================================
