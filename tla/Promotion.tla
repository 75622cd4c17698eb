----------------------------- MODULE Promotion -----------------------------
(***************************************************************************)
(* Promotions, the deployments and background jobs they create, and the    *)
(* background tasks that carry them out (app/api/endpoints/promotions.py,  *)
(* app/api/endpoints/deployments.py, app/services/deployment_scheduler.py, *)
(* app/services/promotion_lock_service.py and the job updates of           *)
(* app/services/background_job_service.py).                                *)
(*                                                                         *)
(* The server is one asyncio event loop whose database client is           *)
(* synchronous: a handler runs without interruption between two calls that *)
(* really suspend (an HTTP call to n8n or GitHub).  One action is one such  *)
(* segment.  A database call may raise ("db" \in Faults); the action then  *)
(* takes effect up to that call and continues in the handler's except      *)
(* block.  "lookup" \in Faults lets the first read of execute_deployment   *)
(* raise, and "crash" \in Faults lets the process die and restart.         *)
(***************************************************************************)
EXTENDS Naturals, FiniteSets

CONSTANTS
    Stages,          \* pipeline stages: a (pipeline, source, target) triple
    Environments,    \* target environments
    Target,          \* the target environment of a stage
    ApprovalStages,  \* the stages whose approvals.require_approval is set
    MaxPromotions,   \* bound on promotions; ids are in creation order
    MaxDeployments,  \* bound on deployments
    MaxJobs,         \* bound on background jobs
    Faults           \* which failures this instance exhibits

ASSUME StageAssumption ==
    /\ Target \in [Stages -> Environments]
    /\ ApprovalStages \subseteq Stages

ASSUME BoundAssumption ==
    /\ MaxPromotions \in Nat
    /\ MaxDeployments \in Nat
    /\ MaxJobs \in Nat

ASSUME FaultAssumption == Faults \subseteq {"db", "lookup", "crash"}

VARIABLES
    promo,  \* the promotions table
    dep,    \* the deployments table
    job,    \* the background_jobs rows of type promotion_execute
    run     \* the tasks of the process that carry out a promotion

vars == <<promo, dep, job, run>>

Promotions  == 1 .. MaxPromotions
Deployments == 1 .. MaxDeployments
Jobs        == 1 .. MaxJobs

\* A row that has not been inserted has status "none"; 0 is a null reference.
PromotionStatus ==
    {"pending", "pending_approval", "approved", "rejected", "running",
     "completed", "failed", "cancelled"}
DeploymentStatus == {"scheduled", "running", "success", "failed", "canceled"}
BackgroundJobStatus == {"pending", "running", "completed", "failed", "cancelled"}

\* Where a task is suspended.  "queued" is a background task added to the
\* response; "approving" is the approval handler waiting for its snapshot.
\* In "recorded" it is not suspended: deployment and promotion have the result,
\* and the job has not.
BackgroundPcs == {"queued", "snapshot", "executing", "post"}
RunPcs == BackgroundPcs \cup {"none", "approving", "recorded"}
Outcomes == {"unknown", "completed", "failed"}

NoStage == "none"

PromotionTable ==
    [Promotions -> [status : PromotionStatus \cup {"none"},
                    stage : Stages \cup {NoStage},
                    approved : BOOLEAN]]
DeploymentTable ==
    [Deployments -> [status : DeploymentStatus \cup {"none"},
                     stage : Stages \cup {NoStage},
                     workflowsOf : Promotions \cup {0},
                     deleted : BOOLEAN]]
JobTable ==
    [Jobs -> [status : BackgroundJobStatus \cup {"none"},
              promotion : Promotions \cup {0},
              deployment : Deployments \cup {0}]]
TaskTable ==
    [Promotions -> [pc : RunPcs,
                    job : Jobs \cup {0},
                    deployment : Deployments \cup {0},
                    outcome : Outcomes]]

TypeOK ==
    /\ promo \in PromotionTable
    /\ dep \in DeploymentTable
    /\ job \in JobTable
    /\ run \in TaskTable

NoRun == [pc |-> "none", job |-> 0, deployment |-> 0, outcome |-> "unknown"]

Init ==
    /\ promo = [p \in Promotions |->
                   [status |-> "none", stage |-> NoStage, approved |-> FALSE]]
    /\ dep = [d \in Deployments |->
                 [status |-> "none", stage |-> NoStage,
                  workflowsOf |-> 0, deleted |-> FALSE]]
    /\ job = [j \in Jobs |->
                 [status |-> "none", promotion |-> 0, deployment |-> 0]]
    /\ run = [p \in Promotions |-> NoRun]

-----------------------------------------------------------------------------
(* Rows and queries.                                                       *)

NewPromotion(p) ==
    promo[p].status = "none" /\ \A q \in 1 .. (p - 1) : promo[q].status # "none"
NewDeployment(d) ==
    dep[d].status = "none" /\ \A e \in 1 .. (d - 1) : dep[e].status # "none"
NewJob(j) ==
    job[j].status = "none" /\ \A k \in 1 .. (j - 1) : job[k].status # "none"

\* The lock is the status column: an environment is locked while a promotion
\* to it is "running" (get_active_promotion_for_environment).  Its caller is
\* always pending or approved, so it never finds itself.
RunningFor(e) ==
    {q \in Promotions : promo[q].status = "running" /\ Target[promo[q].stage] = e}

\* Mutant: the lock compares pipeline stages, not target environments.
LockFreeByStage(p) ==
    \A q \in Promotions : promo[q].status = "running" => promo[q].stage # promo[p].stage

LockFree(p) == RunningFor(Target[promo[p].stage]) = {}

\* Mutant: the query of the cancel endpoint forgets the status filter.
CandidatesAnyStatus(s) ==
    {q \in Promotions : promo[q].stage = s /\ promo[q].status # "none"}

\* The pending or approved promotions of a stage, and the newest of them: how
\* the scheduler and the cancel endpoint find "the" promotion of a deployment.
Candidates(s) ==
    {q \in Promotions : promo[q].stage = s /\ promo[q].status \in {"pending", "approved"}}

Latest(q, S) == q \in S /\ \A r \in S : r <= q

\* Mutant: a promotion may be executed before its approval.
ExecutableUnapproved(p) == promo[p].status \in {"pending", "approved", "pending_approval"}

\* Mutant: a failed promotion may be executed again.
ExecutableRetry(p) == promo[p].status \in {"pending", "approved", "failed"}

Executable(p) == promo[p].status \in {"pending", "approved"}

PromotionRow(s, st) == [status |-> st, stage |-> s, approved |-> FALSE]
DeploymentRow(s, st, p) ==
    [status |-> st, stage |-> s, workflowsOf |-> p, deleted |-> FALSE]
JobRow(p, d) == [status |-> "pending", promotion |-> p, deployment |-> d]

SetPromotion(p, st) == promo' = [promo EXCEPT ![p].status = st]
SetDeployment(d, st) == dep' = [dep EXCEPT ![d].status = st]
SetJob(j, st) == job' = [job EXCEPT ![j].status = st]

InitialStatus(s) == IF s \in ApprovalStages THEN "pending_approval" ELSE "pending"

-----------------------------------------------------------------------------
(* Requests.                                                               *)

\* initiate_deployment after its validation passed; an earlier return writes
\* nothing.
Initiate(p, s) ==
    /\ NewPromotion(p)
    /\ promo' = [promo EXCEPT ![p] = PromotionRow(s, InitialStatus(s))]
    /\ UNCHANGED <<dep, job, run>>

\* execute_deployment without scheduled_at: no call between the lock check and
\* the write of "running" suspends.  The drift check and the selection check
\* only return early.
ExecuteNow(p, d, j) ==
    /\ Executable(p)
    /\ LockFree(p)
    /\ NewDeployment(d)
    /\ NewJob(j)
    /\ SetPromotion(p, "running")
    /\ dep' = [dep EXCEPT ![d] = DeploymentRow(promo[p].stage, "running", p)]
    /\ job' = [job EXCEPT ![j] = JobRow(p, d)]
    /\ run' = [run EXCEPT ![p] = [NoRun EXCEPT !.pc = "queued", !.job = j,
                                               !.deployment = d]]

\* execute_deployment with scheduled_at: an approved promotion goes back to
\* pending and stays executable.
ExecuteScheduled(p, d, j) ==
    /\ Executable(p)
    /\ LockFree(p)
    /\ NewDeployment(d)
    /\ NewJob(j)
    /\ SetPromotion(p, "pending")
    /\ dep' = [dep EXCEPT ![d] = DeploymentRow(promo[p].stage, "scheduled", p)]
    /\ job' = [job EXCEPT ![j] = JobRow(p, d)]
    /\ UNCHANGED run

\* A call of execute_deployment raises after n writes (create_job,
\* update_promotion, create_deployment, create_deployment_workflows_batch), or
\* with none done even before the lock check.  The except block marks the
\* promotion failed, unless that write raises too.
ExecuteAborted(p, d, j, n, scheduled, recorded) ==
    /\ "db" \in Faults
    /\ Executable(p)
    /\ n >= 1 => LockFree(p)
    /\ NewDeployment(d)
    /\ NewJob(j)
    /\ job' = IF n >= 1 THEN [job EXCEPT ![j] = JobRow(p, 0)] ELSE job
    /\ dep' = IF n >= 3
              THEN [dep EXCEPT ![d] =
                      DeploymentRow(promo[p].stage,
                                    IF scheduled THEN "scheduled" ELSE "running",
                                    IF n >= 4 THEN p ELSE 0)]
              ELSE dep
    /\ promo' = [promo EXCEPT ![p].status =
                    CASE recorded -> "failed"
                      [] ~recorded /\ n >= 2 -> IF scheduled THEN "pending" ELSE "running"
                      [] OTHER -> @]
    /\ UNCHANGED run

\* get_promotion raises on a transient error, before the status check: the
\* except block marks the promotion failed whatever its status is.
ExecuteLookupFails(p) ==
    /\ "lookup" \in Faults
    /\ promo[p].status # "none"
    /\ SetPromotion(p, "failed")
    /\ UNCHANGED <<dep, job, run>>

\* approve_deployment with action approve: "approved" and then "running" with
\* no suspension in between and no lock check; it suspends in the snapshot.
Approve(p) ==
    /\ promo[p].status = "pending_approval"
    /\ promo' = [promo EXCEPT ![p].status = "running", ![p].approved = TRUE]
    /\ run' = [run EXCEPT ![p] = [NoRun EXCEPT !.pc = "approving"]]
    /\ UNCHANGED <<dep, job>>

\* The write of "running" raises: the except block returns, and the promotion
\* stays approved, which execute_deployment accepts.
ApproveAborted(p) ==
    /\ "db" \in Faults
    /\ promo[p].status = "pending_approval"
    /\ promo' = [promo EXCEPT ![p].status = "approved", ![p].approved = TRUE]
    /\ UNCHANGED <<dep, job, run>>

\* The snapshot of the approval handler ends.  Whether it failed or not the
\* except block returns: execute_promotion is called without its required
\* target_pre_snapshot_id.  The promotion's status is not written.
ApproveReturns(p) ==
    /\ run[p].pc = "approving"
    /\ run' = [run EXCEPT ![p].pc = "none"]
    /\ UNCHANGED <<promo, dep, job>>

Reject(p) ==
    /\ promo[p].status = "pending_approval"
    /\ SetPromotion(p, "rejected")
    /\ UNCHANGED <<dep, job, run>>

-----------------------------------------------------------------------------
(* Deployments.                                                            *)

Rerunnable(d) ==
    /\ dep[d].status \in {"failed", "canceled", "success"}
    /\ ~dep[d].deleted
    /\ dep[d].workflowsOf # 0

\* rerun_deployment: no lock check, and "running" whatever the approval rule
\* of the stage says.  The background task is called without its required
\* tenant_id, so it ends before its first statement.  No deployment_workflows
\* rows are written for the new deployment.
Rerun(d, p, e, j) ==
    /\ Rerunnable(d)
    /\ NewPromotion(p)
    /\ NewDeployment(e)
    /\ NewJob(j)
    /\ promo' = [promo EXCEPT ![p] = PromotionRow(dep[d].stage, "running")]
    /\ dep' = [dep EXCEPT ![e] = DeploymentRow(dep[d].stage, "running", 0)]
    /\ job' = [job EXCEPT ![j] = JobRow(p, e)]
    /\ UNCHANGED run

\* A write of rerun_deployment raises after n earlier writes (create_promotion,
\* create_job, update_promotion, create_deployment); nothing is undone.
RerunAborted(d, p, e, j, n) ==
    /\ "db" \in Faults
    /\ Rerunnable(d)
    /\ NewPromotion(p)
    /\ NewDeployment(e)
    /\ NewJob(j)
    /\ n >= 1
    /\ promo' = [promo EXCEPT ![p] =
                    PromotionRow(dep[d].stage,
                                 IF n >= 3 THEN "running"
                                           ELSE InitialStatus(dep[d].stage))]
    /\ job' = IF n >= 2 THEN [job EXCEPT ![j] = JobRow(p, 0)] ELSE job
    /\ dep' = IF n >= 4 THEN [dep EXCEPT ![e] = DeploymentRow(dep[d].stage, "running", 0)]
                        ELSE dep
    /\ UNCHANGED run

\* The scheduler finds a due deployment and no promotion it could belong to.
SchedulerFindsNone(d) ==
    /\ dep[d].status = "scheduled"
    /\ Candidates(dep[d].stage) = {}
    /\ SetDeployment(d, "failed")
    /\ UNCHANGED <<promo, job, run>>

SchedulerReady(d, p) ==
    /\ dep[d].status = "scheduled"
    /\ Latest(p, Candidates(dep[d].stage))
    /\ LockFree(p)

\* The scheduler starts a due deployment (deleted ones too: the query does not
\* look at deleted_at) with the newest candidate.  The task is created without
\* its required tenant_id: the call raises after the deployment and the
\* promotion were set to running, and the except block fails the deployment.
SchedulerStarts(d, p, j) ==
    /\ SchedulerReady(d, p)
    /\ NewJob(j)
    /\ SetPromotion(p, "running")
    /\ SetDeployment(d, "failed")
    /\ job' = [job EXCEPT ![j] = JobRow(p, d)]
    /\ UNCHANGED run

\* A write of the scheduler raises after n earlier writes (create_job,
\* update_deployment, update_promotion, update_job_status); "recorded" says
\* whether the write of the except block works.  After all four the task is not
\* created, and it is that write that raises.
SchedulerAborted(d, p, j, n, recorded) ==
    /\ "db" \in Faults
    /\ SchedulerReady(d, p)
    /\ NewJob(j)
    /\ n = 4 => ~recorded
    /\ promo' = IF n >= 3 THEN [promo EXCEPT ![p].status = "running"] ELSE promo
    /\ dep' = [dep EXCEPT ![d].status =
                 CASE recorded -> "failed"
                   [] ~recorded /\ n >= 2 -> "running"
                   [] OTHER -> @]
    /\ job' = IF n >= 1 THEN [job EXCEPT ![j] = JobRow(p, IF n = 4 THEN d ELSE 0)] ELSE job
    /\ UNCHANGED run

\* cancel_scheduled_deployment cancels the newest candidate along with the
\* deployment; a failure of that second part is logged and dropped.
CancelScheduled(d) ==
    /\ dep[d].status = "scheduled"
    /\ ~dep[d].deleted
    /\ SetDeployment(d, "canceled")
    /\ \/ \E p \in Promotions :
             /\ Latest(p, Candidates(dep[d].stage))
             /\ SetPromotion(p, "cancelled")
       \/ /\ Candidates(dep[d].stage) = {} \/ "db" \in Faults
          /\ UNCHANGED promo
    /\ UNCHANGED <<job, run>>

\* delete_deployment (soft).  A successful deployment must be a day old.
Delete(d) ==
    /\ dep[d].status \notin {"none", "running"}
    /\ ~dep[d].deleted
    /\ dep' = [dep EXCEPT ![d].deleted = TRUE]
    /\ UNCHANGED <<promo, job, run>>

\* A running deployment is more than an hour old when it is listed, read, or
\* met by startup_event.
StaleDeployment(d) ==
    /\ dep[d].status = "running"
    /\ SetDeployment(d, "failed")
    /\ UNCHANGED <<promo, job, run>>

\* Mutant: the repair takes every ended job for a completed one.
RepairFromEndedJob(d) ==
    /\ dep[d].status = "running"
    /\ \E p \in Promotions, j \in Jobs :
          /\ Latest(p, {q \in Promotions : promo[q].stage = dep[d].stage})
          /\ Latest(j, {k \in Jobs : job[k].promotion = p})
          /\ job[j].deployment = d
          /\ job[j].status \in {"failed", "completed", "cancelled"}
          /\ SetDeployment(d, IF job[j].status = "failed" THEN "failed" ELSE "success")
    /\ UNCHANGED <<promo, job, run>>

\* get_deployment repairs a running deployment from the newest job of the
\* newest promotion of its stage, when that job says it is this deployment's.
RepairFromJob(d) ==
    /\ dep[d].status = "running"
    /\ \E p \in Promotions, j \in Jobs :
          /\ Latest(p, {q \in Promotions : promo[q].stage = dep[d].stage})
          /\ Latest(j, {k \in Jobs : job[k].promotion = p})
          /\ job[j].deployment = d
          /\ job[j].status \in {"failed", "completed"}
          /\ SetDeployment(d, IF job[j].status = "failed" THEN "failed" ELSE "success")
    /\ UNCHANGED <<promo, job, run>>

-----------------------------------------------------------------------------
(* The background task, _execute_promotion_background.                     *)

\* The task starts: the job is set to running whatever it is now, and the task
\* suspends in create_pre_promotion_snapshot.
StartTask(p) ==
    /\ run[p].pc = "queued"
    /\ SetJob(run[p].job, "running")
    /\ run' = [run EXCEPT ![p].pc = "snapshot"]
    /\ UNCHANGED <<promo, dep>>

\* The snapshot exists: update_progress sets the job to running again, and
\* execute_promotion begins to change the target environment.
SnapshotTaken(p) ==
    /\ run[p].pc = "snapshot"
    /\ SetJob(run[p].job, "running")
    /\ run' = [run EXCEPT ![p].pc = "executing"]
    /\ UNCHANGED <<promo, dep>>

\* execute_promotion returns COMPLETED or FAILED; the task suspends in
\* create_post_promotion_snapshot.
WorkflowsExecuted(p, result) ==
    /\ run[p].pc = "executing"
    /\ run' = [run EXCEPT ![p].pc = "post", ![p].outcome = result]
    /\ UNCHANGED <<promo, dep, job>>

\* Mutant: the promotion's result is stored as the deployment's status.
DeploymentResultRaw(p) == run[p].outcome

DeploymentResult(p) == IF run[p].outcome = "completed" THEN "success" ELSE "failed"

\* The post snapshot exists: the deployment gets its result, then the promotion.
RecordResult(p) ==
    /\ run[p].pc = "post"
    /\ SetDeployment(run[p].deployment, DeploymentResult(p))
    /\ SetPromotion(p, run[p].outcome)
    /\ run' = [run EXCEPT ![p].pc = "recorded"]
    /\ UNCHANGED job

\* Mutant: the job completes whatever the result is.
FinishTaskCompletes(p) ==
    /\ run[p].pc = "recorded"
    /\ SetJob(run[p].job, "completed")
    /\ run' = [run EXCEPT ![p].pc = "none"]
    /\ UNCHANGED <<promo, dep>>

\* ... and the job last.
FinishTask(p) ==
    /\ run[p].pc = "recorded"
    /\ SetJob(run[p].job, run[p].outcome)
    /\ run' = [run EXCEPT ![p].pc = "none"]
    /\ UNCHANGED <<promo, dep>>

\* Mutant: the except block forgets the promotion.
ExceptWritesNoPromotion(pc) == {{"job", "deployment"}}

\* The except block fails the job, the promotion and the deployment in this
\* order.  Its first write is not protected and the others share one try, so a
\* prefix of them takes effect; a failed snapshot has failed the job, the
\* deployment and the promotion before.
ExceptWrites(pc) ==
    IF "db" \in Faults
    THEN {{}, {"job"}, {"job", "promotion"}, {"job", "promotion", "deployment"}}
         \cup (IF pc = "snapshot" THEN {{"job", "deployment"}} ELSE {})
    ELSE {{"job", "promotion", "deployment"}}

\* Whether the deployment has its result when the write of the promotion raises.
DeploymentRecorded(pc) == IF "db" \in Faults /\ pc = "post" THEN BOOLEAN ELSE {FALSE}

\* The task ends in its except block: a snapshot fails, execute_promotion
\* raises, or a write raises, that of the job after the promotion has its result
\* too.  Nothing but a write can raise in "queued" and "recorded".
TaskFails(p, recorded, written) ==
    /\ run[p].pc \in BackgroundPcs \cup {"recorded"}
    /\ run[p].pc \in {"queued", "recorded"} => "db" \in Faults
    /\ recorded \in DeploymentRecorded(run[p].pc)
    /\ written \in ExceptWrites(run[p].pc)
    /\ IF "job" \in written THEN SetJob(run[p].job, "failed") ELSE UNCHANGED job
    /\ dep' = [dep EXCEPT ![run[p].deployment].status =
                  CASE "deployment" \in written -> "failed"
                    [] "deployment" \notin written /\ recorded -> DeploymentResult(p)
                    [] OTHER -> @]
    /\ IF "promotion" \in written THEN SetPromotion(p, "failed") ELSE UNCHANGED promo
    /\ run' = [run EXCEPT ![p].pc = "none"]

-----------------------------------------------------------------------------
(* Jobs, and the process.                                                  *)

\* cancel_job: the row only; no task reads it.
CancelJob(j) ==
    /\ job[j].status \in {"pending", "running"}
    /\ SetJob(j, "cancelled")
    /\ UNCHANGED <<promo, dep, run>>

\* cleanup_stale_jobs, a job running for more than 24 hours: the deployment
\* fails with it, the promotion keeps its status.
CleanupRunning(j) ==
    /\ job[j].status = "running"
    /\ SetJob(j, "failed")
    /\ dep' = IF job[j].deployment # 0
              THEN [dep EXCEPT ![job[j].deployment].status = "failed"]
              ELSE dep
    /\ UNCHANGED <<promo, run>>

\* cleanup_stale_jobs, a job pending for more than an hour.  A queued task
\* starts as soon as the response is sent, so its job never gets that old.
CleanupPending(j) ==
    /\ job[j].status = "pending"
    /\ \A p \in Promotions : run[p].pc = "queued" => run[p].job # j
    /\ SetJob(j, "failed")
    /\ UNCHANGED <<promo, dep, run>>

\* The process dies and restarts: every task is lost, the tables are not.
Crash ==
    /\ "crash" \in Faults
    /\ \E p \in Promotions : run[p].pc # "none"
    /\ run' = [p \in Promotions |-> [run[p] EXCEPT !.pc = "none"]]
    /\ UNCHANGED <<promo, dep, job>>

-----------------------------------------------------------------------------
Request(p) ==
    \/ \E s \in Stages : Initiate(p, s)
    \/ \E d \in Deployments, j \in Jobs :
          \/ ExecuteNow(p, d, j)
          \/ ExecuteScheduled(p, d, j)
          \/ \E n \in 0 .. 4, scheduled, recorded \in BOOLEAN :
                ExecuteAborted(p, d, j, n, scheduled, recorded)
    \/ ExecuteLookupFails(p)
    \/ Approve(p)
    \/ ApproveAborted(p)
    \/ Reject(p)

DeploymentStep(d) ==
    \/ \E p \in Promotions, e \in Deployments, j \in Jobs :
          \/ Rerun(d, p, e, j)
          \/ \E n \in 1 .. 4 : RerunAborted(d, p, e, j, n)
    \/ SchedulerFindsNone(d)
    \/ \E p \in Promotions, j \in Jobs :
          \/ SchedulerStarts(d, p, j)
          \/ \E n \in 0 .. 4, recorded \in BOOLEAN : SchedulerAborted(d, p, j, n, recorded)
    \/ CancelScheduled(d)
    \/ Delete(d)
    \/ StaleDeployment(d)
    \/ RepairFromJob(d)

TaskStep(p) ==
    \/ ApproveReturns(p)
    \/ StartTask(p)
    \/ SnapshotTaken(p)
    \/ \E result \in {"completed", "failed"} : WorkflowsExecuted(p, result)
    \/ RecordResult(p)
    \/ FinishTask(p)
    \/ \E recorded \in BOOLEAN, written \in SUBSET {"job", "promotion", "deployment"} :
          TaskFails(p, recorded, written)

JobStep(j) == CancelJob(j) \/ CleanupRunning(j) \/ CleanupPending(j)

\* Between the last two writes of a task nobody else runs.
Undivided == \A p \in Promotions : run[p].pc # "recorded"
Goes(p) == run[p].pc = "recorded" \/ Undivided

Next ==
    \/ \E p \in Promotions : Goes(p) /\ TaskStep(p)
    \/ Undivided /\ \E p \in Promotions : Request(p)
    \/ Undivided /\ \E d \in Deployments : DeploymentStep(d)
    \/ Undivided /\ \E j \in Jobs : JobStep(j)
    \/ Crash

\* Every HTTP call a task waits for has a timeout, so a task that is not killed
\* goes on.
Fairness == \A p \in Promotions : WF_vars(Goes(p) /\ TaskStep(p))

Spec == Init /\ [][Next]_vars
FairSpec == Spec /\ Fairness
-----------------------------------------------------------------------------
(* Safety.                                                                 *)

Working(p) == run[p].pc \in BackgroundPcs

\* At most one background task works on a target environment: two promotions
\* executed at the same time, or one of them while the other's task is
\* suspended, never both change it (the lock check of execute_deployment).
OneTaskPerEnvironment ==
    \A p, q \in Promotions :
        /\ Working(p)
        /\ Working(q)
        /\ Target[promo[p].stage] = Target[promo[q].stage]
        => p = q

\* The promise of the lock, as a specification of its own: execute_deployment starts
\* a promotion only in an environment nobody works on, and no promotion is ever
\* carried out a second time, whatever fails and whoever asks for it.
Exclusive ==
    INSTANCE ExclusiveExecution
        WITH Works <- Promotions,
             work <- [e \in Environments |->
                         {p \in Promotions : Working(p) /\ Target[promo[p].stage] = e}],
             past <- {p \in Promotions : run[p].deployment # 0 /\ ~Working(p)}
ExecutesExclusively == Exclusive!Spec

\* A task at work is visible to the lock: while it is suspended no request,
\* scheduler poll, repair or clean-up moves its promotion out of "running".
WorkingHoldsLock == \A p \in Promotions : Working(p) => promo[p].status = "running"

\* Nothing is changed in an environment behind an approval before somebody
\* approved it, whichever endpoint the work was started from.
WorkIsApproved ==
    \A p \in Promotions :
        Working(p) /\ promo[p].stage \in ApprovalStages => promo[p].approved

\* A deployment is reported successful only if the task that carried out the
\* workflows recorded for it got COMPLETED from execute_promotion, whether the
\* task or get_deployment's repair wrote the status.
SuccessIsEarned ==
    \A d \in Deployments :
        dep[d].status = "success" =>
            \E p \in Promotions :
                /\ dep[d].workflowsOf = p
                /\ run[p].deployment = d
                /\ run[p].outcome = "completed"

\* A completed job, its promotion and its deployment agree: late clean-ups,
\* repairs and cancellations leave no job completed beside a failed deployment.
CompletedJobAgrees ==
    \A j \in Jobs :
        job[j].status = "completed" =>
            /\ job[j].deployment # 0
            /\ dep[job[j].deployment].status = "success"
            /\ promo[job[j].promotion].status = "completed"

\* A promotion that ended stays as it ended: no late task, poll, repair or
\* cancellation revives or rewrites it.  Only its own task, when it cannot give
\* the job the result that the promotion has, at once fails the promotion.
Ended == {"rejected", "completed", "failed", "cancelled"}
EndedStaysEnded ==
    [][\A p \in Promotions :
          promo[p].status \in Ended /\ promo'[p].status # promo[p].status =>
              /\ run[p].pc = "recorded"
              /\ promo[p].status = run[p].outcome
              /\ promo'[p].status = "failed"]_vars

(* Liveness.                                                               *)

\* A task started by execute_deployment ends, and its promotion with it: the
\* environment is unlocked again.
WorkEnds == \A p \in Promotions : Working(p) ~> promo[p].status \in {"completed", "failed"}

-----------------------------------------------------------------------------
(* The inductive invariant behind the safety properties.                   *)

\* A task has its result once it is past execute_promotion, and not before.
OutcomeKnown ==
    \A p \in Promotions :
        /\ run[p].pc \in {"post", "recorded"} => run[p].outcome # "unknown"
        /\ run[p].pc \in BackgroundPcs \ {"post"} => run[p].outcome = "unknown"

\* A row that exists has a stage, and a promotion of an approval stage is only
\* executable once it was approved.
RowOK(p) ==
    /\ promo[p].status # "none" => promo[p].stage \in Stages
    /\ run[p].pc # "none" => promo[p].status # "none"
    /\ Executable(p) /\ promo[p].stage \in ApprovalStages => promo[p].approved
RowsInv == \A p \in Promotions : RowOK(p)

\* A deployment that exists has a stage.
DeploymentsInv ==
    \A d \in Deployments :
        dep[d].status # "none" => dep[d].stage \in Stages

\* The task is not over.
Busy(p) == Working(p) \/ run[p].pc = "recorded"

\* A task, over or not, its job and its deployment point at each other.
TaskOK(p) ==
    /\ Busy(p) => run[p].deployment # 0
    /\ run[p].deployment # 0 =>
          /\ run[p].job # 0
          /\ promo[p].status \in {"running", "completed", "failed"}
          /\ dep[run[p].deployment].status # "none"
          /\ dep[run[p].deployment].workflowsOf = p
          /\ job[run[p].job].status # "none"
          /\ job[run[p].job].promotion = p
          /\ job[run[p].job].deployment = run[p].deployment
TasksInv == \A p \in Promotions : TaskOK(p)

\* Only a task's own job is ever set to running or completed.
JobOK(j) ==
    job[j].status \in {"running", "completed"} =>
        /\ job[j].promotion # 0
        /\ job[j].deployment # 0
        /\ run[job[j].promotion].job = j
        /\ run[job[j].promotion].deployment = job[j].deployment
JobsInv == \A j \in Jobs : JobOK(j)

\* A completed job's task got COMPLETED, also when its promotion was marked failed
\* meanwhile, and is over.
CompletedIsEarned ==
    \A j \in Jobs :
        job[j].status = "completed" =>
            run[job[j].promotion].outcome = "completed" /\ ~Busy(job[j].promotion)

\* What a task has recorded is what it found out.
RecordedInv ==
    \A p \in Promotions :
        run[p].pc = "recorded" =>
            /\ promo[p].status = run[p].outcome
            /\ dep[run[p].deployment].status = DeploymentResult(p)

\* What the safety properties rest on: no row refers to one that does not exist,
\* and a task, its promotion, its job and its deployment stay each other's.
LinksInv == OutcomeKnown /\ RowsInv /\ DeploymentsInv /\ TasksInv /\ JobsInv
=============================================================================
