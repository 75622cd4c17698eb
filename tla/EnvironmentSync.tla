--------------------------- MODULE EnvironmentSync ---------------------------
(***************************************************************************)
(* The synchronisation of environments with n8n: the requests of users     *)
(* (app/services/sync_orchestrator_service.py), the background tasks they   *)
(* start, the scheduler (app/services/canonical_sync_scheduler.py), and     *)
(* what cancels and cleans up their jobs (background_job_service.py).      *)
(*                                                                         *)
(* An action is a segment between two suspensions: reading, checking and   *)
(* inserting a job row happens in one.  A job that no task works on is     *)
(* what keeps an environment from being synchronised.                      *)
(*                                                                         *)
(* Faults:  "sync"    the n8n instance fails a sync                         *)
(*          "write"   an insert or update of a job row fails                *)
(*          "listing" GET /workflows reads through to n8n                   *)
(*          "cancel"  users cancel jobs                                     *)
(*          "slow"    a task takes longer than the clean-up allows          *)
(*          "crash"   the process dies                                      *)
(***************************************************************************)
CONSTANTS
    Environments,
    Jobs,      \* rows of background_jobs that can be created: bounds the syncs
    EnvOf,     \* the resource_id of each row
    NoJob,     \* the scheduler's variable job before its first assignment
    Faults     \* which failures this instance exhibits

ASSUME EnvOfAssumption == EnvOf \in [Jobs -> Environments]
ASSUME NoJobAssumption == NoJob \notin Jobs
ASSUME FaultsAssumption ==
    Faults \subseteq {"sync", "write", "listing", "cancel", "slow", "crash"}

VARIABLES
    status,     \* BackgroundJobStatus of each row, "none" before it is created
    full,       \* the rows whose progress is at 100 %
    task,       \* what the code that works on a row is doing
    scheduled,  \* the rows the scheduler created
    current     \* the scheduler's local variable job, kept from loop to loop

vars == <<status, full, task, scheduled, current>>

Active == {"pending", "running"}
Live == {"queued", "discovering", "syncing", "finishing", "failing"}

TypeOK ==
    /\ status \in [Jobs -> {"none", "completed", "failed", "cancelled"} \cup Active]
    /\ full \subseteq Jobs
    /\ task \in [Jobs -> {"none", "ended"} \cup Live]
    /\ scheduled \subseteq Jobs
    /\ current \in Jobs \cup {NoJob}

Init ==
    /\ status = [j \in Jobs |-> "none"]
    /\ full = {}
    /\ task = [j \in Jobs |-> "none"]
    /\ scheduled = {}
    /\ current = NoJob

-----------------------------------------------------------------------------
(* The job rows.                                                           *)

\* Mutant: the unique index covers running rows only.
AdmitsActiveRunning(j) ==
    \A k \in Jobs \ {j} : EnvOf[k] = EnvOf[j] => status[k] # "running"

\* Mutant: the unique index covers inserts only.
AdmitsActiveOnInsert(j) ==
    \/ status[j] # "none"
    \/ \A k \in Jobs \ {j} : EnvOf[k] = EnvOf[j] => status[k] \notin Active

\* The partial unique index on pending and running rows of an environment: an
\* insert or update that makes j active fails while another row is.
AdmitsActive(j) ==
    \A k \in Jobs \ {j} : EnvOf[k] = EnvOf[j] => status[k] \notin Active

\* create_job.
Insert(j) ==
    /\ status[j] = "none"
    /\ AdmitsActive(j)
    /\ status' = [status EXCEPT ![j] = "pending"]

\* update_job_status to running.
SetRunning(j) ==
    /\ AdmitsActive(j)
    /\ status' = [status EXCEPT ![j] = "running"]

\* The same, raising.
SetRunningFails(j) ==
    /\ ~AdmitsActive(j) \/ "write" \in Faults
    /\ UNCHANGED status

\* The last update_job_status of a task; a failing one is logged, or the
\* except block writes "failed" instead.
SetEnded(j, outcome) ==
    \/ status' = [status EXCEPT ![j] = outcome]
    \/ /\ "write" \in Faults
       /\ \/ UNCHANGED status
          \/ status' = [status EXCEPT ![j] = "failed"]

-----------------------------------------------------------------------------
(* Requests.                                                               *)

\* request_sync: an active job is returned and nothing changes, so is a job that
\* the index reveals; else a new one is created and its task queued.
Request(j) ==
    /\ Insert(j)
    /\ task' = [task EXCEPT ![j] = "queued"]
    /\ UNCHANGED <<full, scheduled, current>>

\* get_workflows creates a job to refresh its cache, without a task.
List(j) ==
    /\ "listing" \in Faults
    /\ Insert(j)
    /\ UNCHANGED <<full, task, scheduled, current>>

\* cancel_job, which tells the task nothing.
Cancel(j) ==
    /\ "cancel" \in Faults
    /\ status[j] \in Active
    /\ status' = [status EXCEPT ![j] = "cancelled"]
    /\ UNCHANGED <<full, task, scheduled, current>>

-----------------------------------------------------------------------------
(* The work on a job: a queued task of a request, or the scheduler's loop.  *)

Start(j) ==
    /\ task[j] = "queued"
    /\ \/ SetRunning(j) /\ task' = [task EXCEPT ![j] = "discovering"]
       \/ SetRunningFails(j) /\ task' = [task EXCEPT ![j] = "failing"]
    /\ UNCHANGED <<full, scheduled, current>>

\* n8n answers with its workflows; without any there is no batch.
Discover(j) ==
    /\ task[j] = "discovering"
    /\ \E step \in {"syncing", "finishing"} : task' = [task EXCEPT ![j] = step]
    /\ UNCHANGED <<status, full, scheduled, current>>

\* A batch of sync_environment writes "running" whatever the row says.
Batch(j) ==
    /\ task[j] = "syncing"
    /\ SetRunning(j)
    /\ UNCHANGED <<full, task, scheduled, current>>

\* The last batch, or one whose write raises and ends the sync.
LastBatch(j) ==
    /\ task[j] = "syncing"
    /\ \/ /\ SetRunning(j)
          /\ task' = [task EXCEPT ![j] = "finishing"]
          /\ full' = full \cup {j}
       \/ /\ SetRunningFails(j)
          /\ task' = [task EXCEPT ![j] = "failing"]
          /\ UNCHANGED full
    /\ UNCHANGED <<scheduled, current>>

\* A call to n8n raises.
SyncFails(j) ==
    /\ "sync" \in Faults
    /\ task[j] \in {"discovering", "syncing", "finishing"}
    /\ task' = [task EXCEPT ![j] = "failing"]
    /\ UNCHANGED <<status, full, scheduled, current>>

\* Mutant: the word for a deployment's success is written to the job.
FinishSuccess(j) ==
    /\ task[j] = "finishing"
    /\ SetEnded(j, "success")
    /\ task' = [task EXCEPT ![j] = "ended"]
    /\ UNCHANGED <<full, scheduled, current>>

Finish(j) ==
    /\ task[j] = "finishing"
    /\ SetEnded(j, "completed")
    /\ task' = [task EXCEPT ![j] = "ended"]
    /\ UNCHANGED <<full, scheduled, current>>

Fail(j) ==
    /\ task[j] = "failing"
    /\ SetEnded(j, "failed")
    /\ task' = [task EXCEPT ![j] = "ended"]
    /\ UNCHANGED <<full, scheduled, current>>

-----------------------------------------------------------------------------
(* The scheduler.  Which environments are due is left open: last_sync_at    *)
(* and the debounce only delay it.                                         *)

SchedulerIdle == \A j \in scheduled : task[j] \notin Live

\* The row stays pending until the first batch.
SchedulerStarts(j) ==
    /\ SchedulerIdle
    /\ Insert(j)
    /\ task' = [task EXCEPT ![j] = "discovering"]
    /\ scheduled' = scheduled \cup {j}
    /\ current' = j
    /\ UNCHANGED full

\* create_job raises: the except block fails the job that the variable still
\* holds from an earlier environment, if it was ever assigned.
SchedulerRefused(e) ==
    /\ SchedulerIdle
    /\ (\E k \in Jobs : EnvOf[k] = e /\ status[k] \in Active) \/ "write" \in Faults
    /\ current \in Jobs
    /\ status' = [status EXCEPT ![current] = "failed"]
    /\ UNCHANGED <<full, task, scheduled, current>>

-----------------------------------------------------------------------------
(* cleanup_stale_jobs, every five minutes.                                 *)

Stale(j) == task[j] \in Live => "slow" \in Faults

\* Mutant: only rows that were started are cleaned up.
CleanPendingStarted(j) ==
    /\ status[j] = "pending"
    /\ task[j] # "none"
    /\ Stale(j)
    /\ status' = [status EXCEPT ![j] = "failed"]
    /\ UNCHANGED <<full, task, scheduled, current>>

\* Created more than an hour ago and not started.
CleanPending(j) ==
    /\ status[j] = "pending"
    /\ Stale(j)
    /\ status' = [status EXCEPT ![j] = "failed"]
    /\ UNCHANGED <<full, task, scheduled, current>>

\* At 100 % for five minutes, else running for a day.
CleanRunning(j) ==
    /\ status[j] = "running"
    /\ Stale(j)
    /\ \/ j \in full /\ status' = [status EXCEPT ![j] = "completed"]
       \/ status' = [status EXCEPT ![j] = "failed"]
    /\ UNCHANGED <<full, task, scheduled, current>>

\* The process dies and restarts: tasks and the scheduler's variable are gone.
Crash ==
    /\ "crash" \in Faults
    /\ \E j \in Jobs : task[j] \in Live
    /\ task' = [j \in Jobs |-> IF task[j] \in Live THEN "ended" ELSE task[j]]
    /\ current' = NoJob
    /\ UNCHANGED <<status, full, scheduled>>

-----------------------------------------------------------------------------

Work(j) ==
    \/ Start(j) \/ Discover(j) \/ Batch(j) \/ LastBatch(j)
    \/ SyncFails(j) \/ Finish(j) \/ Fail(j)
Clean(j) == CleanPending(j) \/ CleanRunning(j)

Next ==
    \/ \E j \in Jobs :
          \/ Request(j) \/ List(j) \/ Cancel(j)
          \/ Work(j)
          \/ SchedulerStarts(j)
          \/ Clean(j)
    \/ \E e \in Environments : SchedulerRefused(e)
    \/ Crash

Spec == Init /\ [][Next]_vars

\* A sync has finitely many batches and every call of it a timeout; the clean-up
\* runs periodically.
FairSpec ==
    Spec /\ \A j \in Jobs : /\ WF_vars(Start(j)) /\ WF_vars(Discover(j))
                            /\ WF_vars(LastBatch(j)) /\ WF_vars(Finish(j))
                            /\ WF_vars(Fail(j)) /\ WF_vars(Clean(j))

-----------------------------------------------------------------------------
(* Safety.                                                                 *)

\* "Duplicate jobs are impossible via DB constraint": an environment has one
\* pending or running sync job, though cancelled and cleaned-up jobs are set to
\* running again by their tasks.
OneActiveJob ==
    \A j, k \in Jobs :
        EnvOf[j] = EnvOf[k] /\ status[j] \in Active /\ status[k] \in Active => j = k

\* Two syncs of one environment never run at once, whoever starts them: a live
\* task keeps its row active, which request_sync and the scheduler respect.
OneSyncPerEnvironment ==
    \A j, k \in Jobs :
        EnvOf[j] = EnvOf[k] /\ task[j] \in Live /\ task[k] \in Live => j = k

\* A job is at work from the moment its task is queued, or the scheduler starts it,
\* to its last write.
Exclusive == INSTANCE ExclusiveExecution WITH
    Works <- Jobs,
    work <- [e \in Environments |-> {j \in Jobs : EnvOf[j] = e /\ task[j] \in Live}],
    past <- {j \in Jobs : task[j] = "ended"}

\* Requests, the scheduler and crashes together carry out an environment's jobs one
\* at a time, and none twice.
SyncsExclusively == Exclusive!Spec

\* A row that blocks its environment does not block it for ever, whatever
\* crashes, fails to be written or was never started.
BlockedEnds == \A j \in Jobs : status[j] \in Active ~> status[j] \notin Active

-----------------------------------------------------------------------------
(* The inductive invariant behind OneSyncPerEnvironment.                   *)

LiveIsActive == \A j \in Jobs : task[j] \in Live => status[j] \in Active
CurrentIsScheduled == current \in scheduled \cup {NoJob}
SyncInv == OneActiveJob /\ LiveIsActive /\ CurrentIsScheduled

\* What is not created has no task.
TaskHasRow == \A j \in Jobs : status[j] = "none" => task[j] = "none"
=============================================================================
