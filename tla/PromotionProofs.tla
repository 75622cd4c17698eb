-------------------------- MODULE PromotionProofs --------------------------
(***************************************************************************)
(* Proofs about Promotion, for every value of its constants.  WorkInv, the *)
(* types, links and approvals, is inductive whatever fails.  LockInv is    *)
(* inductive relative to it when the first read of execute_deployment does *)
(* not fail; the facts about results rest on both.                         *)
(***************************************************************************)
EXTENDS Promotion, TLAPS

-----------------------------------------------------------------------------
(* Types.                                                                  *)

\* The initial tables are well typed.
LEMMA InitType == Init => TypeOK
  BY DEF Init, TypeOK, PromotionTable, DeploymentTable, JobTable, TaskTable, NoRun,
         RunPcs, BackgroundPcs, Outcomes

\* A deployment keeps its type when its status is set, whichever it is.
LEMMA DeploymentUpdate ==
  ASSUME dep \in DeploymentTable, NEW d, NEW st \in DeploymentStatus
  PROVE  [dep EXCEPT ![d].status = st] \in DeploymentTable
  BY DEF DeploymentTable

\* Every request writes well-typed rows.
LEMMA RequestType ==
  ASSUME TypeOK, NEW p \in Promotions, Request(p)
  PROVE  TypeOK'
  <1> USE DEF TypeOK
  <1>1. ASSUME NEW s \in Stages, Initiate(p, s) PROVE TypeOK'
    BY <1>1 DEF Initiate, PromotionRow, InitialStatus, PromotionTable, PromotionStatus
  <1>2. ASSUME NEW d \in Deployments, NEW j \in Jobs, ExecuteNow(p, d, j) PROVE TypeOK'
    <2>1. promo' \in PromotionTable
      BY <1>2 DEF ExecuteNow, SetPromotion, PromotionTable, PromotionStatus
    <2>2. dep' \in DeploymentTable
      BY <1>2 DEF ExecuteNow, DeploymentRow, DeploymentTable, DeploymentStatus, PromotionTable
    <2>3. job' \in JobTable
      BY <1>2 DEF ExecuteNow, JobRow, JobTable, BackgroundJobStatus
    <2>4. run' \in TaskTable
      BY <1>2 DEF ExecuteNow, NoRun, TaskTable, RunPcs, BackgroundPcs, Outcomes
    <2> QED BY <2>1, <2>2, <2>3, <2>4
  <1>3. ASSUME NEW d \in Deployments, NEW j \in Jobs, ExecuteScheduled(p, d, j) PROVE TypeOK'
    <2>1. promo' \in PromotionTable
      BY <1>3 DEF ExecuteScheduled, SetPromotion, PromotionTable, PromotionStatus
    <2>2. dep' \in DeploymentTable
      BY <1>3 DEF ExecuteScheduled, DeploymentRow, DeploymentTable, DeploymentStatus,
                  PromotionTable
    <2>3. job' \in JobTable
      BY <1>3 DEF ExecuteScheduled, JobRow, JobTable, BackgroundJobStatus
    <2> QED BY <1>3, <2>1, <2>2, <2>3 DEF ExecuteScheduled
  <1>4. ASSUME NEW d \in Deployments, NEW j \in Jobs, NEW n \in 0 .. 4,
               NEW scheduled \in BOOLEAN, NEW recorded \in BOOLEAN,
               ExecuteAborted(p, d, j, n, scheduled, recorded)
        PROVE  TypeOK'
    <2>1. promo' \in PromotionTable
      BY <1>4 DEF ExecuteAborted, PromotionTable, PromotionStatus
    <2>2. dep' \in DeploymentTable
      BY <1>4 DEF ExecuteAborted, DeploymentRow, DeploymentTable, DeploymentStatus,
                  PromotionTable
    <2>3. job' \in JobTable
      BY <1>4 DEF ExecuteAborted, JobRow, JobTable, BackgroundJobStatus
    <2> QED BY <1>4, <2>1, <2>2, <2>3 DEF ExecuteAborted
  <1>5. CASE ExecuteLookupFails(p)
    BY <1>5 DEF ExecuteLookupFails, SetPromotion, PromotionTable, PromotionStatus
  <1>6. CASE Approve(p)
    <2>1. promo' \in PromotionTable
      BY <1>6 DEF Approve, PromotionTable, PromotionStatus
    <2>2. run' \in TaskTable
      BY <1>6 DEF Approve, NoRun, TaskTable, RunPcs, Outcomes
    <2> QED BY <1>6, <2>1, <2>2 DEF Approve
  <1>7. CASE ApproveAborted(p)
    BY <1>7 DEF ApproveAborted, PromotionTable, PromotionStatus
  <1>8. CASE Reject(p)
    BY <1>8 DEF Reject, SetPromotion, PromotionTable, PromotionStatus
  <1> QED BY <1>1, <1>2, <1>3, <1>4, <1>5, <1>6, <1>7, <1>8 DEF Request

\* So do the deployment endpoints and the scheduler.
LEMMA DeploymentStepType ==
  ASSUME TypeOK, NEW d \in Deployments, DeploymentStep(d)
  PROVE  TypeOK'
  <1> USE DEF TypeOK
  <1>1. ASSUME NEW p \in Promotions, NEW e \in Deployments, NEW j \in Jobs,
               Rerun(d, p, e, j)
        PROVE  TypeOK'
    <2>1. promo' \in PromotionTable
      BY <1>1 DEF Rerun, PromotionRow, PromotionTable, PromotionStatus, DeploymentTable
    <2>2. dep' \in DeploymentTable
      BY <1>1 DEF Rerun, DeploymentRow, DeploymentTable, DeploymentStatus
    <2>3. job' \in JobTable
      BY <1>1 DEF Rerun, JobRow, JobTable, BackgroundJobStatus
    <2> QED BY <1>1, <2>1, <2>2, <2>3 DEF Rerun
  <1>2. ASSUME NEW p \in Promotions, NEW e \in Deployments, NEW j \in Jobs, NEW n \in 1 .. 4,
               RerunAborted(d, p, e, j, n)
        PROVE  TypeOK'
    <2>1. promo' \in PromotionTable
      BY <1>2 DEF RerunAborted, PromotionRow, InitialStatus, PromotionTable, PromotionStatus,
                  DeploymentTable
    <2>2. dep' \in DeploymentTable
      BY <1>2 DEF RerunAborted, DeploymentRow, DeploymentTable, DeploymentStatus
    <2>3. job' \in JobTable
      BY <1>2 DEF RerunAborted, JobRow, JobTable, BackgroundJobStatus
    <2> QED BY <1>2, <2>1, <2>2, <2>3 DEF RerunAborted
  <1>3. CASE SchedulerFindsNone(d)
    BY <1>3 DEF SchedulerFindsNone, SetDeployment, DeploymentTable, DeploymentStatus
  <1>4. ASSUME NEW p \in Promotions, NEW j \in Jobs, SchedulerStarts(d, p, j) PROVE TypeOK'
    <2>1. promo' \in PromotionTable
      BY <1>4 DEF SchedulerStarts, SetPromotion, PromotionTable, PromotionStatus
    <2>2. dep' \in DeploymentTable
      BY <1>4 DEF SchedulerStarts, SetDeployment, DeploymentTable, DeploymentStatus
    <2>3. job' \in JobTable
      BY <1>4 DEF SchedulerStarts, JobRow, JobTable, BackgroundJobStatus
    <2> QED BY <1>4, <2>1, <2>2, <2>3 DEF SchedulerStarts
  <1>5. ASSUME NEW p \in Promotions, NEW j \in Jobs, NEW n \in 0 .. 4,
               NEW recorded \in BOOLEAN, SchedulerAborted(d, p, j, n, recorded)
        PROVE  TypeOK'
    <2>1. promo' \in PromotionTable
      BY <1>5 DEF SchedulerAborted, PromotionTable, PromotionStatus
    <2>2. dep' \in DeploymentTable
      BY <1>5 DEF SchedulerAborted, DeploymentTable, DeploymentStatus
    <2>3. job' \in JobTable
      BY <1>5 DEF SchedulerAborted, JobRow, JobTable, BackgroundJobStatus
    <2> QED BY <1>5, <2>1, <2>2, <2>3 DEF SchedulerAborted
  <1>6. CASE CancelScheduled(d)
    <2>1. promo' \in PromotionTable
      BY <1>6 DEF CancelScheduled, SetPromotion, PromotionTable, PromotionStatus
    <2>2. dep' \in DeploymentTable
      BY <1>6 DEF CancelScheduled, SetDeployment, DeploymentTable, DeploymentStatus
    <2> QED BY <1>6, <2>1, <2>2 DEF CancelScheduled
  <1>7. CASE Delete(d)
    BY <1>7 DEF Delete, DeploymentTable, DeploymentStatus
  <1>8. CASE StaleDeployment(d)
    BY <1>8 DEF StaleDeployment, SetDeployment, DeploymentTable, DeploymentStatus
  <1>9. CASE RepairFromJob(d)
    BY <1>9 DEF RepairFromJob, SetDeployment, DeploymentTable, DeploymentStatus
  <1> QED BY <1>1, <1>2, <1>3, <1>4, <1>5, <1>6, <1>7, <1>8, <1>9 DEF DeploymentStep

\* A task only writes results that its tables know.
LEMMA TaskStepType ==
  ASSUME TypeOK, OutcomeKnown, NEW p \in Promotions, TaskStep(p)
  PROVE  TypeOK'
  <1> USE DEF TypeOK
  <1>1. CASE ApproveReturns(p)
    BY <1>1 DEF ApproveReturns, TaskTable, RunPcs
  <1>2. CASE StartTask(p)
    <2>1. job' \in JobTable
      BY <1>2 DEF StartTask, SetJob, JobTable, BackgroundJobStatus
    <2>2. run' \in TaskTable
      BY <1>2 DEF StartTask, TaskTable, RunPcs, BackgroundPcs
    <2> QED BY <1>2, <2>1, <2>2 DEF StartTask
  <1>3. CASE SnapshotTaken(p)
    <2>1. job' \in JobTable
      BY <1>3 DEF SnapshotTaken, SetJob, JobTable, BackgroundJobStatus
    <2>2. run' \in TaskTable
      BY <1>3 DEF SnapshotTaken, TaskTable, RunPcs, BackgroundPcs
    <2> QED BY <1>3, <2>1, <2>2 DEF SnapshotTaken
  <1>4. ASSUME NEW result \in {"completed", "failed"}, WorkflowsExecuted(p, result)
        PROVE  TypeOK'
    BY <1>4 DEF WorkflowsExecuted, TaskTable, RunPcs, BackgroundPcs, Outcomes
  <1>5. CASE RecordResult(p)
    <2>1. run[p].outcome \in {"completed", "failed"}
      BY <1>5 DEF RecordResult, OutcomeKnown, TaskTable, Outcomes
    <2>2. promo' \in PromotionTable
      BY <1>5, <2>1 DEF RecordResult, SetPromotion, PromotionTable, PromotionStatus
    <2>3. dep' \in DeploymentTable
      BY <1>5 DEF RecordResult, SetDeployment, DeploymentResult, DeploymentTable,
                  DeploymentStatus
    <2>4. run' \in TaskTable
      BY <1>5 DEF RecordResult, TaskTable, RunPcs
    <2> QED BY <1>5, <2>2, <2>3, <2>4 DEF RecordResult
  <1>6. CASE FinishTask(p)
    <2>1. run[p].outcome \in {"completed", "failed"}
      BY <1>6 DEF FinishTask, OutcomeKnown, TaskTable, Outcomes
    <2>2. job' \in JobTable
      BY <1>6, <2>1 DEF FinishTask, SetJob, JobTable, BackgroundJobStatus
    <2>3. run' \in TaskTable
      BY <1>6 DEF FinishTask, TaskTable, RunPcs
    <2> QED BY <1>6, <2>2, <2>3 DEF FinishTask
  <1>7. ASSUME NEW recorded \in BOOLEAN, NEW written \in SUBSET {"job", "promotion", "deployment"},
               TaskFails(p, recorded, written)
        PROVE  TypeOK'
    <2>1. promo' \in PromotionTable
      BY <1>7 DEF TaskFails, SetPromotion, PromotionTable, PromotionStatus
    <2>2. dep' \in DeploymentTable
      <3> DEFINE Set(st) == [dep EXCEPT ![run[p].deployment].status = st]
      <3>1. \A st \in DeploymentStatus : Set(st) \in DeploymentTable
        BY DeploymentUpdate DEF TypeOK
      <3>2. DeploymentResult(p) \in DeploymentStatus /\ "failed" \in DeploymentStatus
        BY DEF DeploymentResult, DeploymentStatus
      <3>3. Set(dep[run[p].deployment].status) = dep
        BY DEF DeploymentTable
      <3>4. dep' \in {Set("failed"), Set(DeploymentResult(p)), Set(dep[run[p].deployment].status)}
        BY <1>7 DEF TaskFails
      <3> QED BY <3>1, <3>2, <3>3, <3>4
    <2>3. job' \in JobTable
      BY <1>7 DEF TaskFails, SetJob, JobTable, BackgroundJobStatus
    <2>4. run' \in TaskTable
      BY <1>7 DEF TaskFails, TaskTable, RunPcs
    <2> QED BY <2>1, <2>2, <2>3, <2>4
  <1> QED BY <1>1, <1>2, <1>3, <1>4, <1>5, <1>6, <1>7 DEF TaskStep

\* And so do cancel_job and the clean-up.
LEMMA JobStepType ==
  ASSUME TypeOK, NEW j \in Jobs, JobStep(j)
  PROVE  TypeOK'
  <1> USE DEF TypeOK
  <1>1. CASE CancelJob(j)
    BY <1>1 DEF CancelJob, SetJob, JobTable, BackgroundJobStatus
  <1>2. CASE CleanupRunning(j)
    <2>1. job' \in JobTable
      BY <1>2 DEF CleanupRunning, SetJob, JobTable, BackgroundJobStatus
    <2>2. dep' \in DeploymentTable
      BY <1>2 DEF CleanupRunning, DeploymentTable, DeploymentStatus
    <2> QED BY <1>2, <2>1, <2>2 DEF CleanupRunning
  <1>3. CASE CleanupPending(j)
    BY <1>3 DEF CleanupPending, SetJob, JobTable, BackgroundJobStatus
  <1> QED BY <1>1, <1>2, <1>3 DEF JobStep

LEMMA CrashType == TypeOK /\ Crash => TypeOK'
  BY DEF Crash, TypeOK, TaskTable, RunPcs

LEMMA NextType == TypeOK /\ OutcomeKnown /\ [Next]_vars => TypeOK'
  <1> SUFFICES ASSUME TypeOK, OutcomeKnown, [Next]_vars PROVE TypeOK'
    OBVIOUS
  <1>1. CASE UNCHANGED vars
    BY <1>1 DEF vars, TypeOK
  <1> QED
    BY <1>1, RequestType, DeploymentStepType, TaskStepType, JobStepType, CrashType DEF Next

\* Only the return of execute_promotion suspends a task in the post snapshot.
LEMMA NextOutcome == TypeOK /\ OutcomeKnown /\ [Next]_vars => OutcomeKnown'
  <1> SUFFICES ASSUME TypeOK, OutcomeKnown, [Next]_vars PROVE OutcomeKnown'
    OBVIOUS
  <1> USE DEF OutcomeKnown, BackgroundPcs
  <1>0. run \in TaskTable
    BY DEF TypeOK
  <1>1. CASE UNCHANGED run
    BY <1>1
  <1>2. ASSUME NEW p \in Promotions, NEW d \in Deployments, NEW j \in Jobs, ExecuteNow(p, d, j)
        PROVE  OutcomeKnown'
    BY <1>0, <1>2 DEF ExecuteNow, NoRun, TaskTable
  <1>3. ASSUME NEW p \in Promotions, Approve(p) PROVE OutcomeKnown'
    BY <1>0, <1>3 DEF Approve, NoRun, TaskTable
  <1>4. ASSUME NEW p \in Promotions, TaskStep(p) PROVE OutcomeKnown'
    <2>1. ASSUME NEW pc \in {"none", "snapshot", "executing", "recorded"},
                 run' = [run EXCEPT ![p].pc = pc],
                 pc \in {"snapshot", "executing"} => run[p].pc \in BackgroundPcs \ {"post"},
                 pc = "recorded" => run[p].pc = "post"
          PROVE  OutcomeKnown'
      BY <1>0, <2>1 DEF TaskTable
    <2>2. ASSUME NEW result \in {"completed", "failed"}, WorkflowsExecuted(p, result)
          PROVE  OutcomeKnown'
      BY <1>0, <2>2 DEF WorkflowsExecuted, TaskTable
    <2> QED
      BY <1>4, <2>1, <2>2 DEF TaskStep, ApproveReturns, StartTask, SnapshotTaken, RecordResult,
                              FinishTask, TaskFails
  <1>5. CASE Crash
    BY <1>0, <1>5 DEF Crash, TaskTable
  <1>6. ASSUME NEW p \in Promotions, Request(p)
        PROVE  \/ UNCHANGED run
               \/ \E d \in Deployments, j \in Jobs : ExecuteNow(p, d, j)
               \/ Approve(p)
    BY <1>6 DEF Request, Initiate, ExecuteScheduled, ExecuteAborted, ExecuteLookupFails,
                ApproveAborted, Reject
  <1>7. ASSUME NEW d \in Deployments, DeploymentStep(d) PROVE UNCHANGED run
    BY <1>7 DEF DeploymentStep, Rerun, RerunAborted, SchedulerFindsNone, SchedulerStarts,
                SchedulerAborted, CancelScheduled, Delete, StaleDeployment, RepairFromJob
  <1>8. ASSUME NEW j \in Jobs, JobStep(j) PROVE UNCHANGED run
    BY <1>8 DEF JobStep, CancelJob, CleanupRunning, CleanupPending
  <1> QED BY <1>1, <1>2, <1>3, <1>4, <1>5, <1>6, <1>7, <1>8 DEF Next, vars

\* Every status, stage and reference the program stores is one its readers
\* know, whatever fails and whenever the process dies.
THEOREM TypeCorrect == Spec => [](TypeOK /\ OutcomeKnown)
  <1>1. Init => OutcomeKnown
    BY DEF Init, OutcomeKnown, NoRun
  <1> QED BY <1>1, InitType, NextType, NextOutcome, PTL DEF Spec

-----------------------------------------------------------------------------
(* Rows and approvals.                                                     *)

RowInv == RowsInv /\ DeploymentsInv /\ WorkIsApproved

\* The steps that start no work and leave what an approval is about: all but
\* ExecuteNow.
ApprovalKept ==
    \A q \in Promotions :
        Working(q)' =>
            /\ Working(q)
            /\ promo'[q].stage = promo[q].stage
            /\ promo'[q].approved = promo[q].approved

LEMMA ApprovalKeptRows ==
  ASSUME WorkIsApproved, ApprovalKept
  PROVE  WorkIsApproved'
  BY DEF ApprovalKept, WorkIsApproved

\* A step that writes no promotion but p.
OnlyRow(p) == \A q \in Promotions \ {p} : promo'[q] = promo[q]

\* RowsInv looks at one promotion at a time.
LEMMA RowWrite ==
  ASSUME RowsInv, NEW p \in Promotions, OnlyRow(p), UNCHANGED run, RowOK(p)'
  PROVE  RowsInv'
  BY DEF OnlyRow, RowsInv, RowOK, Executable

\* A promotion that never had a task, by its status.
Unstarted(p) == promo[p].status \notin {"running", "completed", "failed"}

LEMMA UnstartedIdle ==
  ASSUME TasksInv, NEW p \in Promotions, Unstarted(p)
  PROVE  ~Busy(p) /\ ~Working(p) /\ run[p].deployment = 0
  BY DEF TasksInv, TaskOK, Unstarted, Busy

\* A step that writes one such promotion keeps RowInv.
LEMMA IdleWriteRows ==
  ASSUME RowInv, TasksInv, DeploymentsInv', NEW p \in Promotions, Unstarted(p),
         OnlyRow(p), UNCHANGED run, RowOK(p)'
  PROVE  RowInv'
  <1>1. ApprovalKept
    BY UnstartedIdle DEF ApprovalKept, OnlyRow, Working
  <1> QED BY <1>1, RowWrite, ApprovalKeptRows DEF RowInv

\* A request starts work only in ExecuteNow, for a promotion that may be executed.
LEMMA RequestRows ==
  ASSUME TypeOK, RowInv, TasksInv, NEW p \in Promotions, Request(p)
  PROVE  RowInv'
  <1> USE DEF RowOK, OnlyRow, Unstarted
  <1>0. promo \in PromotionTable /\ dep \in DeploymentTable /\ run \in TaskTable /\ RowsInv
    BY DEF TypeOK, RowInv
  <1>1. UNCHANGED dep => DeploymentsInv'
    BY DEF RowInv, DeploymentsInv
  <1>2. ASSUME NEW d \in Deployments, NEW st, NEW n, promo[p].stage \in Stages,
               dep' = [dep EXCEPT ![d] = DeploymentRow(promo[p].stage, st, n)]
        PROVE  DeploymentsInv'
    BY <1>0, <1>2 DEF DeploymentTable, DeploymentRow, RowInv, DeploymentsInv
  <1>3. ASSUME NEW s \in Stages, Initiate(p, s) PROVE RowInv'
    <2>1. RowOK(p)' /\ OnlyRow(p) /\ Unstarted(p) /\ UNCHANGED run
      BY <1>0, <1>3 DEF Initiate, NewPromotion, PromotionRow, InitialStatus, Executable,
                        RowsInv, RowOK, PromotionTable
    <2> QED BY <1>1, <1>3, <2>1, IdleWriteRows DEF Initiate
  <1>4. ASSUME NEW d \in Deployments, NEW j \in Jobs, ExecuteNow(p, d, j) PROVE RowInv'
    <2>1. OnlyRow(p) /\ promo'[p] = [promo[p] EXCEPT !.status = "running"]
      BY <1>0, <1>4 DEF ExecuteNow, SetPromotion, PromotionTable
    <2>2. run'[p].pc = "queued" /\ \A q \in Promotions \ {p} : run'[q] = run[q]
      BY <1>0, <1>4 DEF ExecuteNow, NoRun, TaskTable
    <2>3. /\ promo[p].status # "none"
          /\ promo[p].stage \in Stages
          /\ promo[p].stage \in ApprovalStages => promo[p].approved
      BY <1>0, <1>4 DEF ExecuteNow, Executable, RowsInv, RowOK
    <2>4. promo'[p].stage = promo[p].stage /\ promo'[p].approved = promo[p].approved
          /\ promo'[p].status = "running"
      BY <1>0, <2>1 DEF PromotionTable
    <2>5. RowsInv'
      BY <1>0, <2>1, <2>2, <2>3, <2>4 DEF RowsInv, RowOK, Executable
    <2>6. WorkIsApproved'
      BY <2>1, <2>2, <2>3, <2>4 DEF RowInv, WorkIsApproved, Working
    <2>7. DeploymentsInv'
      BY <1>2, <1>4, <2>3 DEF ExecuteNow
    <2> QED BY <2>5, <2>6, <2>7 DEF RowInv
  <1>5. ASSUME NEW d \in Deployments, NEW j \in Jobs, ExecuteScheduled(p, d, j) PROVE RowInv'
    <2>1. RowOK(p)' /\ OnlyRow(p) /\ Unstarted(p) /\ promo[p].stage \in Stages
      BY <1>0, <1>5 DEF ExecuteScheduled, SetPromotion, Executable, RowsInv, RowOK, PromotionTable
    <2> QED BY <1>2, <1>5, <2>1, IdleWriteRows DEF ExecuteScheduled
  <1>6. ASSUME NEW d \in Deployments, NEW j \in Jobs, NEW n \in 0 .. 4,
               NEW scheduled \in BOOLEAN, NEW recorded \in BOOLEAN,
               ExecuteAborted(p, d, j, n, scheduled, recorded)
        PROVE  RowInv'
    <2>1. RowOK(p)' /\ OnlyRow(p) /\ Unstarted(p) /\ promo[p].stage \in Stages
      BY <1>0, <1>6 DEF ExecuteAborted, Executable, RowsInv, RowOK, PromotionTable
    <2>2. DeploymentsInv'
      BY <1>1, <1>2, <1>6, <2>1 DEF ExecuteAborted
    <2> QED BY <1>6, <2>1, <2>2, IdleWriteRows DEF ExecuteAborted
  <1>7. CASE Approve(p)
    <2>1. OnlyRow(p) /\ promo'[p].stage = promo[p].stage /\ promo'[p].status = "running"
      BY <1>0, <1>7 DEF Approve, PromotionTable
    <2>2. run'[p].pc = "approving" /\ \A q \in Promotions \ {p} : run'[q] = run[q]
      BY <1>0, <1>7 DEF Approve, NoRun, TaskTable
    <2>3. ApprovalKept
      BY <2>1, <2>2 DEF ApprovalKept, Working, BackgroundPcs
    <2>4. RowsInv'
      BY <1>0, <1>7, <2>1, <2>2 DEF Approve, RowsInv, RowOK, Executable
    <2> QED BY <1>1, <1>7, <2>3, <2>4, ApprovalKeptRows DEF Approve, RowInv
  <1>8. CASE ApproveAborted(p)
    <2>1. RowOK(p)' /\ OnlyRow(p) /\ Unstarted(p) /\ UNCHANGED run
      BY <1>0, <1>8 DEF ApproveAborted, RowsInv, RowOK, Executable, PromotionTable
    <2> QED BY <1>1, <1>8, <2>1, IdleWriteRows DEF ApproveAborted
  <1>9. CASE Reject(p)
    <2>1. RowOK(p)' /\ OnlyRow(p) /\ Unstarted(p) /\ UNCHANGED run
      BY <1>0, <1>9 DEF Reject, SetPromotion, RowsInv, RowOK, Executable, PromotionTable
    <2> QED BY <1>1, <1>9, <2>1, IdleWriteRows DEF Reject
  <1>10. CASE ExecuteLookupFails(p)
    <2>1. /\ OnlyRow(p) /\ UNCHANGED run
          /\ promo'[p].stage = promo[p].stage /\ promo'[p].approved = promo[p].approved
          /\ promo'[p].status = "failed"
      BY <1>0, <1>10 DEF ExecuteLookupFails, SetPromotion, PromotionTable
    <2>2. ApprovalKept
      BY <2>1 DEF ApprovalKept, Working
    <2>3. RowOK(p)'
      BY <1>0, <1>10, <2>1 DEF ExecuteLookupFails, RowsInv, RowOK, Executable
    <2> QED
      BY <1>1, <1>10, <2>1, <2>2, <2>3, RowWrite, ApprovalKeptRows DEF ExecuteLookupFails, RowInv
  <1> QED BY <1>3, <1>4, <1>5, <1>6, <1>7, <1>8, <1>9, <1>10 DEF Request

\* The deployment endpoints and the scheduler never start work.
LEMMA DeploymentStepRows ==
  ASSUME TypeOK, RowInv, TasksInv, NEW d \in Deployments, DeploymentStep(d)
  PROVE  RowInv'
  <1> USE DEF RowOK, OnlyRow, Unstarted
  <1>0. promo \in PromotionTable /\ dep \in DeploymentTable /\ RowsInv /\ DeploymentsInv
    BY DEF TypeOK, RowInv
  <1>1. ASSUME NEW e \in Deployments, NEW st \in DeploymentStatus, NEW s \in Stages,
               dep' = [dep EXCEPT ![e] = DeploymentRow(s, st, 0)]
        PROVE  DeploymentsInv'
    BY <1>0, <1>1 DEF DeploymentTable, DeploymentRow, DeploymentsInv
  <1>2. ASSUME NEW st, dep[d].status # "none", dep' = [dep EXCEPT ![d].status = st]
        PROVE  DeploymentsInv'
    BY <1>0, <1>2 DEF DeploymentTable, DeploymentsInv
  <1>3. ASSUME UNCHANGED <<promo, run>>, DeploymentsInv' PROVE RowInv'
    BY <1>3 DEF RowInv, RowsInv, RowOK, Executable, WorkIsApproved, Working
  <1>4. ASSUME NEW p \in Promotions, NEW e \in Deployments, NEW j \in Jobs, Rerun(d, p, e, j)
        PROVE  RowInv'
    <2>1. dep[d].stage \in Stages
      BY <1>0, <1>4 DEF Rerun, Rerunnable, DeploymentsInv
    <2>2. RowOK(p)' /\ OnlyRow(p) /\ Unstarted(p)
      BY <1>0, <1>4, <2>1 DEF Rerun, NewPromotion, PromotionRow, Executable, PromotionTable
    <2>3. DeploymentsInv'
      BY <1>1, <1>4, <2>1 DEF Rerun, DeploymentStatus
    <2> QED BY <1>4, <2>2, <2>3, IdleWriteRows DEF Rerun
  <1>5. ASSUME NEW p \in Promotions, NEW e \in Deployments, NEW j \in Jobs, NEW n \in 1 .. 4,
               RerunAborted(d, p, e, j, n)
        PROVE  RowInv'
    <2>1. dep[d].stage \in Stages
      BY <1>0, <1>5 DEF RerunAborted, Rerunnable, DeploymentsInv
    <2>2. RowOK(p)' /\ OnlyRow(p) /\ Unstarted(p)
      BY <1>0, <1>5, <2>1 DEF RerunAborted, NewPromotion, PromotionRow, InitialStatus,
                              Executable, RowsInv, RowOK, PromotionTable
    <2>3. DeploymentsInv'
      BY <1>0, <1>1, <1>5, <2>1 DEF RerunAborted, DeploymentStatus, DeploymentsInv
    <2> QED BY <1>5, <2>2, <2>3, IdleWriteRows DEF RerunAborted
  <1>6. CASE SchedulerFindsNone(d)
    BY <1>2, <1>3, <1>6 DEF SchedulerFindsNone, SetDeployment
  <1>7. ASSUME NEW p \in Promotions, SchedulerReady(d, p)
        PROVE  /\ promo[p].status \in {"pending", "approved"}
               /\ dep[d].status # "none"
    BY <1>7 DEF SchedulerReady, Latest, Candidates
  <1>8. ASSUME NEW p \in Promotions, NEW j \in Jobs, SchedulerStarts(d, p, j) PROVE RowInv'
    <2>1. promo[p].status \in {"pending", "approved"} /\ DeploymentsInv'
      BY <1>2, <1>7, <1>8 DEF SchedulerStarts, SetDeployment
    <2>2. RowOK(p)' /\ OnlyRow(p)
      BY <1>0, <1>8, <2>1 DEF SchedulerStarts, SetPromotion, Executable, RowsInv, RowOK,
                              PromotionTable
    <2> QED BY <1>8, <2>1, <2>2, IdleWriteRows DEF SchedulerStarts
  <1>9. ASSUME NEW p \in Promotions, NEW j \in Jobs, NEW n \in 0 .. 4,
               NEW recorded \in BOOLEAN, SchedulerAborted(d, p, j, n, recorded)
        PROVE  RowInv'
    <2>1. promo[p].status \in {"pending", "approved"} /\ DeploymentsInv'
      BY <1>2, <1>7, <1>9 DEF SchedulerAborted
    <2>2. RowOK(p)' /\ OnlyRow(p)
      BY <1>0, <1>9, <2>1 DEF SchedulerAborted, Executable, RowsInv, RowOK, PromotionTable
    <2> QED BY <1>9, <2>1, <2>2, IdleWriteRows DEF SchedulerAborted
  <1>10. CASE CancelScheduled(d)
    <2>1. DeploymentsInv'
      BY <1>2, <1>10 DEF CancelScheduled, SetDeployment
    <2>2. ASSUME NEW p \in Promotions, Latest(p, Candidates(dep[d].stage)),
                 SetPromotion(p, "cancelled")
          PROVE  RowInv'
      <3>1. Unstarted(p)
        BY <2>2 DEF Latest, Candidates
      <3>2. RowOK(p)' /\ OnlyRow(p) /\ UNCHANGED run
        BY <1>0, <1>10, <2>2 DEF CancelScheduled, SetPromotion, Executable, RowsInv, RowOK,
                                 PromotionTable, Latest, Candidates
      <3> QED BY <2>1, <3>1, <3>2, IdleWriteRows
    <2> QED BY <1>3, <1>10, <2>1, <2>2 DEF CancelScheduled
  <1>11. CASE Delete(d)
    <2>1. DeploymentsInv'
      BY <1>0, <1>11 DEF Delete, DeploymentTable, DeploymentsInv
    <2> QED BY <1>3, <1>11, <2>1 DEF Delete
  <1>12. CASE StaleDeployment(d)
    BY <1>2, <1>3, <1>12 DEF StaleDeployment, SetDeployment
  <1>13. CASE RepairFromJob(d)
    BY <1>2, <1>3, <1>13 DEF RepairFromJob, SetDeployment
  <1> QED
    BY <1>4, <1>5, <1>6, <1>8, <1>9, <1>10, <1>11, <1>12, <1>13 DEF DeploymentStep

-----------------------------------------------------------------------------
(* The links between a task, its job and its deployment.                   *)

\* What a step keeps: tasks are not rewritten (they may end), deployments and
\* jobs that exist keep existing and keep what they refer to.
RunsKept ==
    \A q \in Promotions :
        /\ Busy(q)' => Busy(q)
        /\ run'[q].deployment = run[q].deployment
        /\ run'[q].job = run[q].job

DeploymentsKept ==
    \A d \in Deployments :
        dep[d].status # "none" =>
            dep'[d].status # "none" /\ dep'[d].workflowsOf = dep[d].workflowsOf

JobsKept ==
    \A j \in Jobs :
        job[j].status # "none" =>
            /\ job'[j].status # "none"
            /\ job'[j].promotion = job[j].promotion
            /\ job'[j].deployment = job[j].deployment

\* A promotion that has had a task is not written, or gets a task's result.
StartedKept ==
    \A q \in Promotions :
        run[q].deployment # 0 => promo'[q].status \in {"running", "completed", "failed"}

\* No job but a task's own becomes running or completed.
NoNewJob ==
    \A j \in Jobs :
        job'[j].status \in {"running", "completed"} =>
            \/ job[j].status \in {"running", "completed"}
            \/ \E p \in Promotions : run[p].deployment # 0 /\ run[p].job = j

LEMMA LinksKept ==
  ASSUME TypeOK, TasksInv, JobsInv, RunsKept, DeploymentsKept, JobsKept, StartedKept, NoNewJob
  PROVE  TasksInv' /\ JobsInv'
  <1>1. TasksInv'
    BY DEF TypeOK, TaskTable, TasksInv, TaskOK, RunsKept, DeploymentsKept, JobsKept, StartedKept
  <1>2. JobsInv'
    <2>1. ASSUME NEW j \in Jobs, job[j].status \in {"running", "completed"}
          PROVE  /\ job'[j].promotion # 0
                 /\ job'[j].deployment # 0
                 /\ run'[job'[j].promotion].job = j
                 /\ run'[job'[j].promotion].deployment = job'[j].deployment
      BY <2>1 DEF TypeOK, JobTable, JobsInv, JobOK, RunsKept, JobsKept
    <2>2. ASSUME NEW j \in Jobs, NEW p \in Promotions, run[p].deployment # 0, run[p].job = j
          PROVE  /\ job'[j].promotion = p
                 /\ p # 0
                 /\ job'[j].deployment # 0
                 /\ run'[p].job = j
                 /\ run'[p].deployment = job'[j].deployment
      BY <2>2 DEF TasksInv, TaskOK, RunsKept, JobsKept, Promotions
    <2> QED BY <2>1, <2>2 DEF JobsInv, JobOK, NoNewJob
  <1> QED BY <1>1, <1>2

\* Steps that leave every task as it is.
LEMMA RunsUnchanged == UNCHANGED run => RunsKept
  BY DEF RunsKept, Busy, Working

LEMMA DeploymentsUnchanged == UNCHANGED dep => DeploymentsKept
  BY DEF DeploymentsKept

LEMMA DeploymentNew ==
  ASSUME TypeOK, NEW d \in Deployments, NewDeployment(d), NEW row,
         dep' = [dep EXCEPT ![d] = row]
  PROVE  DeploymentsKept
  BY DEF TypeOK, DeploymentTable, DeploymentsKept, NewDeployment

LEMMA DeploymentSet ==
  ASSUME TypeOK, NEW d, NEW st \in DeploymentStatus, dep' = [dep EXCEPT ![d].status = st]
  PROVE  DeploymentsKept
  BY DEF TypeOK, DeploymentTable, DeploymentsKept, DeploymentStatus

LEMMA JobsUnchanged == UNCHANGED job => JobsKept /\ NoNewJob
  BY DEF JobsKept, NoNewJob

LEMMA JobNew ==
  ASSUME TypeOK, NEW j \in Jobs, NewJob(j), NEW p, NEW d, job' = [job EXCEPT ![j] = JobRow(p, d)]
  PROVE  JobsKept /\ NoNewJob
  BY DEF TypeOK, JobTable, JobsKept, NoNewJob, NewJob, JobRow

LEMMA JobEnds ==
  ASSUME TypeOK, NEW j, NEW st \in {"failed", "cancelled"}, job' = [job EXCEPT ![j].status = st]
  PROVE  JobsKept /\ NoNewJob
  BY DEF TypeOK, JobTable, JobsKept, NoNewJob

LEMMA JobResult ==
  ASSUME TypeOK, NEW p \in Promotions, run[p].deployment # 0, NEW st \in BackgroundJobStatus,
         job' = [job EXCEPT ![run[p].job].status = st]
  PROVE  JobsKept /\ NoNewJob
  <1> DEFINE j == run[p].job
  <1>1. ASSUME NEW k \in Jobs
        PROVE  /\ k # j => job'[k] = job[k]
               /\ k = j => job'[k] = [job[k] EXCEPT !.status = st]
    BY <1>1 DEF TypeOK, JobTable
  <1> HIDE DEF j
  <1>2. JobsKept
    BY <1>1 DEF JobsKept, TypeOK, JobTable, BackgroundJobStatus
  <1>3. NoNewJob
    BY <1>1 DEF NoNewJob, j
  <1> QED BY <1>2, <1>3

\* Writing a promotion that never had a task.
LEMMA FreshWrite ==
  ASSUME TypeOK, TasksInv, NEW p \in Promotions, OnlyRow(p), Unstarted(p)
  PROVE  StartedKept
  BY DEF Unstarted, OnlyRow, StartedKept, TasksInv, TaskOK

LEMMA PromotionsUnchanged == TasksInv /\ UNCHANGED promo => StartedKept
  BY DEF StartedKept, TasksInv, TaskOK

\* Only ExecuteNow links a task, to a new deployment and a new job.
LEMMA RequestLinks ==
  ASSUME TypeOK, TasksInv, JobsInv, NEW p \in Promotions, Request(p)
  PROVE  TasksInv' /\ JobsInv'
  <1> USE DEF OnlyRow, Unstarted
  <1>0. /\ promo \in PromotionTable
        /\ dep \in DeploymentTable
        /\ job \in JobTable
        /\ run \in TaskTable
    BY DEF TypeOK
  <1>1. ASSUME OnlyRow(p), Unstarted(p),
               UNCHANGED run, DeploymentsKept, JobsKept, NoNewJob
        PROVE  TasksInv' /\ JobsInv'
    BY <1>1, FreshWrite, RunsUnchanged, LinksKept
  <1>2. ASSUME NEW s \in Stages, Initiate(p, s) PROVE TasksInv' /\ JobsInv'
    <2>1. OnlyRow(p) /\ promo[p].status = "none"
      BY <1>0, <1>2 DEF Initiate, NewPromotion, PromotionTable
    <2> QED BY <1>1, <1>2, <2>1, DeploymentsUnchanged, JobsUnchanged DEF Initiate
  <1>3. ASSUME NEW d \in Deployments, NEW j \in Jobs, ExecuteNow(p, d, j)
        PROVE  TasksInv' /\ JobsInv'
    <2>1. OnlyRow(p) /\ promo'[p].status = "running" /\ run[p].deployment = 0
      BY <1>0, <1>3 DEF ExecuteNow, SetPromotion, Executable, PromotionTable, TasksInv, TaskOK
    <2>2. /\ run'[p].job = j /\ run'[p].deployment = d
          /\ \A q \in Promotions \ {p} : run'[q] = run[q]
      BY <1>0, <1>3 DEF ExecuteNow, NoRun, TaskTable
    <2>3. /\ dep[d].status = "none"
          /\ dep'[d].status = "running"
          /\ dep'[d].workflowsOf = p
          /\ \A e \in Deployments \ {d} : dep'[e] = dep[e]
      BY <1>0, <1>3 DEF ExecuteNow, NewDeployment, DeploymentRow, DeploymentTable
    <2>4. /\ job[j].status = "none"
          /\ job'[j].status = "pending"
          /\ job'[j].promotion = p
          /\ job'[j].deployment = d
          /\ \A k \in Jobs \ {j} : job'[k] = job[k]
      BY <1>0, <1>3 DEF ExecuteNow, NewJob, JobRow, JobTable
    <2>5. j # 0 /\ d # 0
      BY DEF Jobs, Deployments
    <2>6. ASSUME NEW q \in Promotions \ {p}, run[q].deployment # 0
          PROVE  run[q].deployment \in Deployments \ {d} /\ run[q].job \in Jobs \ {j}
      BY <1>0, <2>3, <2>4, <2>6 DEF TasksInv, TaskOK, TaskTable
    <2>7. TasksInv'
      <3>1. ASSUME NEW q \in Promotions \ {p}
            PROVE  TaskOK(q)'
        BY <2>1, <2>2, <2>3, <2>4, <2>6 DEF TasksInv, TaskOK, Busy, Working
      <3> QED BY <2>1, <2>2, <2>3, <2>4, <2>5, <3>1 DEF TasksInv, TaskOK
    <2>8. JobsInv'
      <3>1. ASSUME NEW k \in Jobs \ {j}, job[k].status \in {"running", "completed"}
            PROVE  /\ job[k].promotion \in Promotions \ {p}
                   /\ job[k].deployment # 0
                   /\ run[job[k].promotion].job = k
                   /\ run[job[k].promotion].deployment = job[k].deployment
        BY <1>0, <2>1, <3>1 DEF JobsInv, JobOK, JobTable
      <3> QED BY <2>2, <2>4, <3>1 DEF JobsInv, JobOK
    <2> QED BY <2>7, <2>8
  <1>4. ASSUME NEW d \in Deployments, NEW j \in Jobs, ExecuteScheduled(p, d, j)
        PROVE  TasksInv' /\ JobsInv'
    <2>1. OnlyRow(p) /\ Unstarted(p)
      BY <1>0, <1>4 DEF ExecuteScheduled, SetPromotion, Executable, PromotionTable
    <2>2. DeploymentsKept /\ JobsKept /\ NoNewJob
      BY <1>4, DeploymentNew, JobNew DEF ExecuteScheduled
    <2> QED BY <1>1, <1>4, <2>1, <2>2 DEF ExecuteScheduled
  <1>5. ASSUME NEW d \in Deployments, NEW j \in Jobs, NEW n \in 0 .. 4,
               NEW scheduled \in BOOLEAN, NEW recorded \in BOOLEAN,
               ExecuteAborted(p, d, j, n, scheduled, recorded)
        PROVE  TasksInv' /\ JobsInv'
    <2>1. OnlyRow(p) /\ Unstarted(p)
      BY <1>0, <1>5 DEF ExecuteAborted, Executable, PromotionTable
    <2>2. DeploymentsKept /\ JobsKept /\ NoNewJob
      BY <1>5, DeploymentNew, DeploymentsUnchanged, JobNew, JobsUnchanged DEF ExecuteAborted
    <2> QED BY <1>1, <1>5, <2>1, <2>2 DEF ExecuteAborted
  <1>6. CASE Approve(p)
    <2>1. OnlyRow(p) /\ promo'[p].status = "running" /\ run[p].deployment = 0
      BY <1>0, <1>6 DEF Approve, PromotionTable, TasksInv, TaskOK
    <2>2. run'[p] = [NoRun EXCEPT !.pc = "approving"] /\ \A q \in Promotions \ {p} : run'[q] = run[q]
      BY <1>0, <1>6 DEF Approve, TaskTable
    <2>3. ~Busy(p)' /\ run'[p].deployment = 0
      BY <2>2 DEF NoRun, Busy, Working, BackgroundPcs
    <2>4. TasksInv'
      <3>1. UNCHANGED <<dep, job>>
        BY <1>6 DEF Approve
      <3>2. \A q \in Promotions \ {p} : Busy(q)' => Busy(q)
        BY <2>2 DEF Busy, Working
      <3>3. ASSUME NEW q \in Promotions \ {p}
            PROVE  TaskOK(q)'
        BY <2>1, <2>2, <3>1, <3>2 DEF TasksInv, TaskOK
      <3> QED BY <2>3, <3>3 DEF TasksInv, TaskOK
    <2>5. JobsInv'
      <3>1. ASSUME NEW k \in Jobs, job[k].status \in {"running", "completed"}
            PROVE  job[k].promotion \in Promotions \ {p}
        BY <1>0, <2>1, <3>1 DEF JobsInv, JobOK, JobTable
      <3> QED BY <1>6, <2>2, <3>1 DEF Approve, JobsInv, JobOK
    <2> QED BY <2>4, <2>5
  <1>7. CASE ApproveAborted(p)
    <2>1. OnlyRow(p) /\ promo[p].status = "pending_approval"
      BY <1>0, <1>7 DEF ApproveAborted, PromotionTable
    <2> QED BY <1>1, <1>7, <2>1, DeploymentsUnchanged, JobsUnchanged DEF ApproveAborted
  <1>8. CASE Reject(p)
    <2>1. OnlyRow(p) /\ promo[p].status = "pending_approval"
      BY <1>0, <1>8 DEF Reject, SetPromotion, PromotionTable
    <2> QED BY <1>1, <1>8, <2>1, DeploymentsUnchanged, JobsUnchanged DEF Reject
  <1>9. CASE ExecuteLookupFails(p)
    <2>1. StartedKept
      BY <1>0, <1>9 DEF ExecuteLookupFails, SetPromotion, PromotionTable, StartedKept, TasksInv,
                        TaskOK
    <2> QED
      BY <1>9, <2>1, RunsUnchanged, DeploymentsUnchanged, JobsUnchanged, LinksKept
         DEF ExecuteLookupFails
  <1> QED BY <1>2, <1>3, <1>4, <1>5, <1>6, <1>7, <1>8, <1>9 DEF Request

\* The deployment endpoints and the scheduler touch no task, and no promotion
\* that has had one.
LEMMA DeploymentStepLinks ==
  ASSUME TypeOK, TasksInv, JobsInv, NEW d \in Deployments, DeploymentStep(d)
  PROVE  TasksInv' /\ JobsInv'
  <1> USE DEF OnlyRow, Unstarted
  <1>0. promo \in PromotionTable /\ dep \in DeploymentTable
    BY DEF TypeOK
  <1>1. ASSUME StartedKept, UNCHANGED run, DeploymentsKept, JobsKept, NoNewJob
        PROVE  TasksInv' /\ JobsInv'
    BY <1>1, RunsUnchanged, LinksKept
  <1>2. ASSUME NEW st \in DeploymentStatus, SetDeployment(d, st), UNCHANGED <<promo, job, run>>
        PROVE  TasksInv' /\ JobsInv'
    BY <1>1, <1>2, DeploymentSet, JobsUnchanged, PromotionsUnchanged DEF SetDeployment
  <1>3. ASSUME NEW p \in Promotions, NEW e \in Deployments, NEW j \in Jobs, Rerun(d, p, e, j)
        PROVE  TasksInv' /\ JobsInv'
    <2>1. OnlyRow(p) /\ promo[p].status = "none"
      BY <1>0, <1>3 DEF Rerun, NewPromotion, PromotionTable
    <2>2. DeploymentsKept /\ JobsKept /\ NoNewJob
      BY <1>3, DeploymentNew, JobNew DEF Rerun
    <2> QED BY <1>1, <1>3, <2>1, <2>2, FreshWrite DEF Rerun
  <1>4. ASSUME NEW p \in Promotions, NEW e \in Deployments, NEW j \in Jobs, NEW n \in 1 .. 4,
               RerunAborted(d, p, e, j, n)
        PROVE  TasksInv' /\ JobsInv'
    <2>1. OnlyRow(p) /\ promo[p].status = "none"
      BY <1>0, <1>4 DEF RerunAborted, NewPromotion, PromotionTable
    <2>2. DeploymentsKept /\ JobsKept /\ NoNewJob
      BY <1>4, DeploymentNew, DeploymentsUnchanged, JobNew, JobsUnchanged DEF RerunAborted
    <2> QED BY <1>1, <1>4, <2>1, <2>2, FreshWrite DEF RerunAborted
  <1>5. CASE SchedulerFindsNone(d)
    BY <1>2, <1>5 DEF SchedulerFindsNone, DeploymentStatus
  <1>6. ASSUME NEW p \in Promotions, NEW j \in Jobs, SchedulerStarts(d, p, j)
        PROVE  TasksInv' /\ JobsInv'
    <2>1. OnlyRow(p) /\ promo[p].status \in {"pending", "approved"}
      BY <1>0, <1>6 DEF SchedulerStarts, SetPromotion, SchedulerReady, Latest, Candidates,
                        PromotionTable
    <2>2. DeploymentsKept /\ JobsKept /\ NoNewJob
      BY <1>6, DeploymentSet, JobNew DEF SchedulerStarts, SetDeployment, DeploymentStatus
    <2> QED BY <1>1, <1>6, <2>1, <2>2, FreshWrite DEF SchedulerStarts
  <1>7. ASSUME NEW p \in Promotions, NEW j \in Jobs, NEW n \in 0 .. 4,
               NEW recorded \in BOOLEAN, SchedulerAborted(d, p, j, n, recorded)
        PROVE  TasksInv' /\ JobsInv'
    <2>1. OnlyRow(p) /\ promo[p].status \in {"pending", "approved"}
      BY <1>0, <1>7 DEF SchedulerAborted, SchedulerReady, Latest, Candidates, PromotionTable
    <2>2. JobsKept /\ NoNewJob
      BY <1>7, JobNew, JobsUnchanged DEF SchedulerAborted
    <2>3. DeploymentsKept
      BY <1>0, <1>7 DEF SchedulerAborted, SchedulerReady, DeploymentsKept, DeploymentTable
    <2> QED BY <1>1, <1>7, <2>1, <2>2, <2>3, FreshWrite DEF SchedulerAborted
  <1>8. CASE CancelScheduled(d)
    <2>1. DeploymentsKept /\ JobsKept /\ NoNewJob
      BY <1>8, DeploymentSet, JobsUnchanged DEF CancelScheduled, SetDeployment,
                                                DeploymentStatus
    <2>2. ASSUME NEW p \in Promotions, Latest(p, Candidates(dep[d].stage)),
                 SetPromotion(p, "cancelled")
          PROVE  StartedKept
      BY <1>0, <2>2, FreshWrite DEF SetPromotion, Latest, Candidates, PromotionTable
    <2> QED BY <1>1, <1>8, <2>1, <2>2, PromotionsUnchanged DEF CancelScheduled
  <1>9. CASE Delete(d)
    <2>1. DeploymentsKept
      BY <1>0, <1>9 DEF Delete, DeploymentsKept, DeploymentTable
    <2> QED BY <1>1, <1>9, <2>1, JobsUnchanged, PromotionsUnchanged DEF Delete
  <1>10. CASE StaleDeployment(d)
    BY <1>2, <1>10 DEF StaleDeployment, DeploymentStatus
  <1>11. CASE RepairFromJob(d)
    BY <1>2, <1>11 DEF RepairFromJob, DeploymentStatus
  <1> QED
    BY <1>3, <1>4, <1>5, <1>6, <1>7, <1>8, <1>9, <1>10, <1>11 DEF DeploymentStep

\* A task writes its own job and deployment, and its promotion only to the
\* result.
LEMMA TaskStepLinks ==
  ASSUME TypeOK, OutcomeKnown, TasksInv, JobsInv, NEW p \in Promotions, TaskStep(p)
  PROVE  TasksInv' /\ JobsInv'
  <1>0. promo \in PromotionTable /\ run \in TaskTable
    BY DEF TypeOK
  <1>1. ASSUME RunsKept, DeploymentsKept, JobsKept, NoNewJob, StartedKept
        PROVE  TasksInv' /\ JobsInv'
    BY <1>1, LinksKept
  <1>2. ASSUME NEW pc \in RunPcs, run' = [run EXCEPT ![p].pc = pc],
               pc = "none" \/ Busy(p)
        PROVE  RunsKept
    BY <1>0, <1>2 DEF TaskTable, RunsKept, Busy, Working, BackgroundPcs
  <1>3. Busy(p) => run[p].deployment # 0
    BY DEF TasksInv, TaskOK
  <1>4. ASSUME NEW st \in {"running", "completed", "failed"}, promo' = [promo EXCEPT ![p].status = st]
        PROVE  StartedKept
    BY <1>0, <1>4 DEF PromotionTable, StartedKept, TasksInv, TaskOK
  <1>5. CASE ApproveReturns(p)
    <2>1. RunsKept
      BY <1>2, <1>5 DEF ApproveReturns, RunPcs
    <2> QED
      BY <1>1, <1>5, <2>1, DeploymentsUnchanged, JobsUnchanged, PromotionsUnchanged
         DEF ApproveReturns
  <1>6. CASE StartTask(p)
    <2>1. RunsKept
      BY <1>2, <1>6 DEF StartTask, RunPcs, BackgroundPcs, Busy, Working
    <2>2. JobsKept /\ NoNewJob
      BY <1>3, <1>6, JobResult DEF StartTask, SetJob, Busy, Working, BackgroundPcs, BackgroundJobStatus
    <2> QED BY <1>1, <1>6, <2>1, <2>2, DeploymentsUnchanged, PromotionsUnchanged DEF StartTask
  <1>7. CASE SnapshotTaken(p)
    <2>1. RunsKept
      BY <1>2, <1>7 DEF SnapshotTaken, RunPcs, BackgroundPcs, Busy, Working
    <2>2. JobsKept /\ NoNewJob
      BY <1>3, <1>7, JobResult DEF SnapshotTaken, SetJob, Busy, Working, BackgroundPcs,
                                   BackgroundJobStatus
    <2> QED
      BY <1>1, <1>7, <2>1, <2>2, DeploymentsUnchanged, PromotionsUnchanged DEF SnapshotTaken
  <1>8. ASSUME NEW result \in {"completed", "failed"}, WorkflowsExecuted(p, result)
        PROVE  TasksInv' /\ JobsInv'
    <2>1. RunsKept
      BY <1>0, <1>8 DEF WorkflowsExecuted, TaskTable, RunsKept, Busy, Working, BackgroundPcs
    <2> QED
      BY <1>1, <1>8, <2>1, DeploymentsUnchanged, JobsUnchanged, PromotionsUnchanged
         DEF WorkflowsExecuted
  <1>9. CASE RecordResult(p)
    <2>1. RunsKept
      BY <1>2, <1>9 DEF RecordResult, RunPcs, Busy, Working, BackgroundPcs
    <2>2. run[p].outcome \in {"completed", "failed"}
      BY <1>0, <1>9 DEF RecordResult, OutcomeKnown, TaskTable, Outcomes
    <2>3. DeploymentsKept
      <3>1. DeploymentResult(p) \in DeploymentStatus
        BY DEF DeploymentResult, DeploymentStatus
      <3> QED BY <1>9, <3>1, DeploymentSet DEF RecordResult, SetDeployment
    <2>4. StartedKept
      BY <1>4, <1>9, <2>2 DEF RecordResult, SetPromotion
    <2> QED BY <1>1, <1>9, <2>1, <2>3, <2>4, JobsUnchanged DEF RecordResult
  <1>10. CASE FinishTask(p)
    <2>1. RunsKept
      BY <1>2, <1>10 DEF FinishTask, RunPcs
    <2>2. run[p].outcome \in {"completed", "failed"} /\ run[p].deployment # 0
      BY <1>0, <1>3, <1>10 DEF FinishTask, Busy, OutcomeKnown, TaskTable, Outcomes
    <2>3. JobsKept /\ NoNewJob
      BY <1>10, <2>2, JobResult DEF FinishTask, SetJob, BackgroundJobStatus
    <2> QED
      BY <1>1, <1>10, <2>1, <2>3, DeploymentsUnchanged, PromotionsUnchanged DEF FinishTask
  <1>11. ASSUME NEW recorded \in BOOLEAN, NEW written \in SUBSET {"job", "promotion", "deployment"},
                TaskFails(p, recorded, written)
         PROVE  TasksInv' /\ JobsInv'
    <2>1. RunsKept
      BY <1>2, <1>11 DEF TaskFails, RunPcs
    <2>2. run[p].deployment # 0 /\ promo[p].status \in {"running", "completed", "failed"}
      BY <1>3, <1>11 DEF TaskFails, Busy, Working, TasksInv, TaskOK
    <2>3. JobsKept /\ NoNewJob
      BY <1>11, JobEnds, JobsUnchanged DEF TaskFails, SetJob
    <2>4. DeploymentsKept
      <3> DEFINE Set(st) == [dep EXCEPT ![run[p].deployment].status = st]
      <3>1. dep' \in {Set("failed"), Set(DeploymentResult(p)), Set(dep[run[p].deployment].status)}
        BY <1>11 DEF TaskFails
      <3>2. Set(dep[run[p].deployment].status) = dep
        BY DEF TypeOK, DeploymentTable
      <3>3. DeploymentResult(p) \in DeploymentStatus /\ "failed" \in DeploymentStatus
        BY DEF DeploymentResult, DeploymentStatus
      <3>4. dep' = Set("failed") => DeploymentsKept
        BY <3>3, DeploymentSet
      <3>5. dep' = Set(DeploymentResult(p)) => DeploymentsKept
        BY <3>3, DeploymentSet
      <3> QED BY <3>1, <3>2, <3>4, <3>5, DeploymentsUnchanged
    <2>5. StartedKept
      <3>1. promo'[p].status \in {"running", "completed", "failed"}
            /\ \A q \in Promotions \ {p} : promo'[q] = promo[q]
        BY <1>0, <1>11, <2>2 DEF TaskFails, SetPromotion, PromotionTable
      <3> QED BY <3>1 DEF StartedKept, TasksInv, TaskOK
    <2> QED BY <1>1, <2>1, <2>3, <2>4, <2>5
  <1> QED BY <1>5, <1>6, <1>7, <1>8, <1>9, <1>10, <1>11 DEF TaskStep

\* cancel_job and the clean-up end jobs.
LEMMA JobStepLinks ==
  ASSUME TypeOK, TasksInv, JobsInv, NEW j \in Jobs, JobStep(j)
  PROVE  TasksInv' /\ JobsInv'
  <1>1. UNCHANGED <<promo, run>>
    BY DEF JobStep, CancelJob, CleanupRunning, CleanupPending
  <1>2. JobsKept /\ NoNewJob
    BY JobEnds DEF JobStep, CancelJob, CleanupRunning, CleanupPending, SetJob
  <1>3. DeploymentsKept
    BY DeploymentSet, DeploymentsUnchanged
       DEF JobStep, CancelJob, CleanupRunning, CleanupPending, DeploymentStatus
  <1> QED BY <1>1, <1>2, <1>3, RunsUnchanged, PromotionsUnchanged, LinksKept

LEMMA CrashLinks ==
  ASSUME TypeOK, TasksInv, JobsInv, Crash
  PROVE  TasksInv' /\ JobsInv'
  <1>1. RunsKept
    BY DEF Crash, TypeOK, TaskTable, RunsKept, Busy, Working, BackgroundPcs
  <1> QED
    BY <1>1, DeploymentsUnchanged, JobsUnchanged, PromotionsUnchanged, LinksKept DEF Crash

-----------------------------------------------------------------------------
(* Rows and approvals, for the steps that need the links.                  *)

\* A step that writes no promotion and starts no work keeps RowInv.
LEMMA NoPromotionRows ==
  ASSUME RowInv, UNCHANGED promo, DeploymentsInv',
         \A q \in Promotions : /\ Working(q)' => Working(q)
                               /\ run'[q].pc # "none" => run[q].pc # "none"
  PROVE  RowInv'
  <1>1. ApprovalKept
    BY DEF ApprovalKept
  <1>2. RowsInv'
    BY DEF RowInv, RowsInv, RowOK, Executable
  <1> QED BY <1>1, <1>2, ApprovalKeptRows DEF RowInv

\* A task writes its promotion's status and nothing an approval is about.
LEMMA TaskStepRows ==
  ASSUME TypeOK, OutcomeKnown, RowInv, TasksInv, NEW p \in Promotions, TaskStep(p)
  PROVE  RowInv'
  <1>0. promo \in PromotionTable /\ dep \in DeploymentTable /\ run \in TaskTable
    BY DEF TypeOK
  <1>1. ASSUME NEW pc \in BackgroundPcs, Working(p),
               \A q \in Promotions \ {p} : run'[q] = run[q], run'[p].pc = pc,
               UNCHANGED <<promo, dep>>
        PROVE  RowInv'
    <2>1. DeploymentsInv'
      BY <1>1 DEF RowInv, DeploymentsInv
    <2> QED
      BY <1>1, <2>1, NoPromotionRows DEF Working, BackgroundPcs
  <1>2. ASSUME \A q \in Promotions \ {p} : promo'[q] = promo[q] /\ run'[q] = run[q],
               run'[p].pc \in {"none", "recorded"},
               promo'[p].stage = promo[p].stage, promo'[p].approved = promo[p].approved,
               promo[p].status # "none",
               promo'[p].status \in {"running", "completed", "failed"} \/ UNCHANGED promo,
               DeploymentsInv'
        PROVE  RowInv'
    <2>1. ApprovalKept
      BY <1>2 DEF ApprovalKept, Working, BackgroundPcs
    <2>2. RowsInv'
      BY <1>2 DEF RowInv, RowsInv, RowOK, Executable
    <2> QED BY <1>2, <2>1, <2>2, ApprovalKeptRows DEF RowInv
  <1>3. Busy(p) => /\ promo[p].status \in {"running", "completed", "failed"}
                   /\ run[p].deployment \in Deployments
                   /\ dep[run[p].deployment].status # "none"
    BY <1>0 DEF TasksInv, TaskOK, TaskTable
  <1>4. CASE ApproveReturns(p)
    <2>1. /\ \A q \in Promotions \ {p} : run'[q] = run[q]
          /\ run'[p].pc = "none" /\ promo[p].status # "none"
      BY <1>0, <1>4 DEF ApproveReturns, TaskTable, RowInv, RowsInv, RowOK
    <2>2. DeploymentsInv'
      BY <1>4 DEF ApproveReturns, RowInv, DeploymentsInv
    <2> QED BY <1>2, <1>4, <2>1, <2>2 DEF ApproveReturns
  <1>5. CASE StartTask(p)
    <2>1. /\ Working(p) /\ run'[p].pc = "snapshot"
          /\ \A q \in Promotions \ {p} : run'[q] = run[q]
      BY <1>0, <1>5 DEF StartTask, TaskTable, Working, BackgroundPcs
    <2> QED BY <1>1, <1>5, <2>1 DEF StartTask, BackgroundPcs
  <1>6. CASE SnapshotTaken(p)
    <2>1. /\ Working(p) /\ run'[p].pc = "executing"
          /\ \A q \in Promotions \ {p} : run'[q] = run[q]
      BY <1>0, <1>6 DEF SnapshotTaken, TaskTable, Working, BackgroundPcs
    <2> QED BY <1>1, <1>6, <2>1 DEF SnapshotTaken, BackgroundPcs
  <1>7. ASSUME NEW result \in {"completed", "failed"}, WorkflowsExecuted(p, result)
        PROVE  RowInv'
    <2>1. /\ Working(p) /\ run'[p].pc = "post"
          /\ \A q \in Promotions \ {p} : run'[q] = run[q]
      BY <1>0, <1>7 DEF WorkflowsExecuted, TaskTable, Working, BackgroundPcs
    <2> QED BY <1>1, <1>7, <2>1 DEF WorkflowsExecuted, BackgroundPcs
  <1>8. CASE RecordResult(p)
    <2>1. Busy(p) /\ run[p].outcome \in {"completed", "failed"}
      BY <1>0, <1>8 DEF RecordResult, Busy, Working, BackgroundPcs, OutcomeKnown, TaskTable,
                        Outcomes
    <2>2. /\ \A q \in Promotions \ {p} : promo'[q] = promo[q] /\ run'[q] = run[q]
          /\ run'[p].pc = "recorded"
          /\ promo'[p].stage = promo[p].stage /\ promo'[p].approved = promo[p].approved
          /\ promo'[p].status = run[p].outcome
      BY <1>0, <1>8 DEF RecordResult, SetPromotion, TaskTable, PromotionTable
    <2>3. DeploymentsInv'
      BY <1>0, <1>3, <1>8, <2>1 DEF RecordResult, SetDeployment, DeploymentTable, RowInv,
                                    DeploymentsInv
    <2> QED BY <1>2, <1>3, <2>1, <2>2, <2>3
  <1>9. CASE FinishTask(p)
    <2>1. /\ run'[p].pc = "none" /\ \A q \in Promotions \ {p} : run'[q] = run[q]
          /\ UNCHANGED promo /\ Busy(p)
      BY <1>0, <1>9 DEF FinishTask, TaskTable, Busy
    <2>2. DeploymentsInv'
      BY <1>9 DEF FinishTask, RowInv, DeploymentsInv
    <2> QED BY <1>2, <1>3, <2>1, <2>2
  <1>10. ASSUME NEW recorded \in BOOLEAN, NEW written \in SUBSET {"job", "promotion", "deployment"},
                TaskFails(p, recorded, written)
         PROVE  RowInv'
    <2>1. Busy(p)
      BY <1>10 DEF TaskFails, Busy, Working
    <2>2. /\ \A q \in Promotions \ {p} : promo'[q] = promo[q]
          /\ promo'[p].stage = promo[p].stage /\ promo'[p].approved = promo[p].approved
          /\ promo'[p].status \in {"running", "completed", "failed"}
      BY <1>0, <1>3, <1>10, <2>1 DEF TaskFails, SetPromotion, PromotionTable
    <2>3. run'[p].pc = "none" /\ \A q \in Promotions \ {p} : run'[q] = run[q]
      BY <1>0, <1>10 DEF TaskFails, TaskTable
    <2>4. \A d \in Deployments :
            dep'[d].stage = dep[d].stage /\ (dep[d].status = "none" => dep'[d] = dep[d])
      BY <1>0, <1>3, <1>10, <2>1 DEF TaskFails, DeploymentTable
    <2>5. DeploymentsInv'
      BY <2>4 DEF RowInv, DeploymentsInv
    <2> QED BY <1>2, <1>3, <2>1, <2>2, <2>3, <2>5
  <1> QED BY <1>4, <1>5, <1>6, <1>7, <1>8, <1>9, <1>10 DEF TaskStep

\* The clean-up fails the deployment of a job that was running, so one that
\* exists.
LEMMA JobStepRows ==
  ASSUME TypeOK, RowInv, TasksInv, JobsInv, NEW j \in Jobs, JobStep(j)
  PROVE  RowInv'
  <1>1. UNCHANGED <<promo, run>>
    BY DEF JobStep, CancelJob, CleanupRunning, CleanupPending
  <1>2. ASSUME job[j].status = "running" PROVE dep[job[j].deployment].status # "none"
    BY <1>2 DEF TypeOK, JobTable, JobsInv, JobOK, TasksInv, TaskOK
  <1>3. DeploymentsInv'
    <2>1. CASE UNCHANGED dep
      BY <2>1 DEF RowInv, DeploymentsInv
    <2>2. CASE CleanupRunning(j)
      BY <1>2, <2>2 DEF CleanupRunning, TypeOK, DeploymentTable, RowInv, DeploymentsInv
    <2> QED BY <2>1, <2>2 DEF JobStep, CancelJob, CleanupPending
  <1> QED BY <1>1, <1>3, NoPromotionRows DEF Working

LEMMA CrashRows ==
  ASSUME TypeOK, RowInv, Crash
  PROVE  RowInv'
  <1>1. \A q \in Promotions : ~Working(q)' /\ run'[q].pc = "none"
    BY DEF Crash, TypeOK, TaskTable, Working, BackgroundPcs
  <1>2. DeploymentsInv'
    BY DEF Crash, RowInv, DeploymentsInv
  <1> QED BY <1>1, <1>2, NoPromotionRows DEF Crash

-----------------------------------------------------------------------------
(* What holds whatever fails.                                              *)

WorkInv == TypeOK /\ OutcomeKnown /\ RowInv /\ TasksInv /\ JobsInv

LEMMA InitWork == Init => WorkInv
  <1> SUFFICES ASSUME Init PROVE WorkInv
    OBVIOUS
  <1>1. OutcomeKnown /\ RowInv /\ TasksInv /\ JobsInv
    BY DEF Init, NoRun, OutcomeKnown, RowInv, RowsInv, RowOK, Executable, DeploymentsInv,
           WorkIsApproved, Busy, Working, BackgroundPcs, TasksInv, TaskOK, JobsInv, JobOK
  <1> QED BY <1>1, InitType DEF WorkInv

LEMMA NextWork == WorkInv /\ [Next]_vars => WorkInv'
  <1> SUFFICES ASSUME WorkInv, [Next]_vars PROVE WorkInv'
    OBVIOUS
  <1> USE DEF WorkInv
  <1>1. TypeOK' /\ OutcomeKnown'
    BY NextType, NextOutcome
  <1>2. RowInv' /\ TasksInv' /\ JobsInv'
    <2>1. ASSUME NEW p \in Promotions, Request(p) PROVE RowInv' /\ TasksInv' /\ JobsInv'
      BY <2>1, RequestRows, RequestLinks
    <2>2. ASSUME NEW p \in Promotions, TaskStep(p) PROVE RowInv' /\ TasksInv' /\ JobsInv'
      BY <2>2, TaskStepRows, TaskStepLinks
    <2>3. ASSUME NEW d \in Deployments, DeploymentStep(d)
          PROVE  RowInv' /\ TasksInv' /\ JobsInv'
      BY <2>3, DeploymentStepRows, DeploymentStepLinks
    <2>4. ASSUME NEW j \in Jobs, JobStep(j) PROVE RowInv' /\ TasksInv' /\ JobsInv'
      BY <2>4, JobStepRows, JobStepLinks
    <2>5. CASE Crash
      BY <2>5, CrashRows, CrashLinks
    <2>6. CASE UNCHANGED vars
      BY <2>6, DeploymentsUnchanged, JobsUnchanged, RunsUnchanged, PromotionsUnchanged,
         LinksKept, NoPromotionRows DEF vars, RowInv, DeploymentsInv, Working
    <2> QED BY <2>1, <2>2, <2>3, <2>4, <2>5, <2>6 DEF Next
  <1> QED BY <1>1, <1>2

LEMMA WorkInvariant == Spec => []WorkInv
  <1>1. WorkInv /\ [Next]_vars => WorkInv'
    BY NextWork
  <1> QED BY <1>1, InitWork, PTL DEF Spec

\* No environment behind an approval is changed before the approval, even when the
\* first read of execute_deployment fails and marks a promotion at work failed.
THEOREM ApprovalFirst == Spec => []WorkIsApproved
  <1>1. WorkInv => WorkIsApproved
    BY DEF WorkInv, RowInv
  <1> QED BY <1>1, WorkInvariant, PTL

\* Tasks, promotions, jobs and deployments stay each other's, whatever fails.
THEOREM LinksCorrect == Spec => []LinksInv
  <1>1. WorkInv => LinksInv
    BY DEF WorkInv, RowInv, LinksInv
  <1> QED BY <1>1, WorkInvariant, PTL

-----------------------------------------------------------------------------
(* The lock.  "lookup" \notin Faults: with it OneTaskPerEnvironment does    *)
(* not hold.                                                               *)

LockInv == WorkingHoldsLock /\ OneTaskPerEnvironment

\* The steps that start no work and leave the promotions at work alone.
WorkKept == \A q \in Promotions : Working(q)' => Working(q) /\ promo'[q] = promo[q]

LEMMA WorkKeptLock ==
  ASSUME LockInv, WorkKept
  PROVE  LockInv'
  BY DEF WorkKept, LockInv, WorkingHoldsLock, OneTaskPerEnvironment

\* Writing one promotion that has no task at work is such a step.
LEMMA IdleWrite ==
  ASSUME NEW p \in Promotions, ~Working(p), OnlyRow(p), UNCHANGED run
  PROVE  WorkKept
  BY DEF OnlyRow, WorkKept, Working

\* So is every request but an execution that starts: the promotions they write
\* never had a task.
LEMMA RequestKeepsWork ==
  ASSUME WorkInv, "lookup" \notin Faults, NEW p \in Promotions, Request(p)
  PROVE  WorkKept \/ \E d \in Deployments, j \in Jobs : ExecuteNow(p, d, j)
  <1>0. promo \in PromotionTable /\ run \in TaskTable /\ TasksInv
    BY DEF WorkInv, TypeOK
  <1>1. ASSUME UNCHANGED run, Unstarted(p), OnlyRow(p) PROVE WorkKept
    BY <1>0, <1>1, UnstartedIdle, IdleWrite
  <1>2. ASSUME NEW s \in Stages, Initiate(p, s) PROVE WorkKept
    BY <1>0, <1>1, <1>2 DEF Initiate, NewPromotion, Unstarted, OnlyRow, PromotionTable
  <1>3. ASSUME NEW d \in Deployments, NEW j \in Jobs, ExecuteScheduled(p, d, j) PROVE WorkKept
    BY <1>0, <1>1, <1>3 DEF ExecuteScheduled, SetPromotion, Executable, Unstarted, OnlyRow,
                            PromotionTable
  <1>4. ASSUME NEW d \in Deployments, NEW j \in Jobs, NEW n \in 0 .. 4,
               NEW scheduled \in BOOLEAN, NEW recorded \in BOOLEAN,
               ExecuteAborted(p, d, j, n, scheduled, recorded)
        PROVE  WorkKept
    BY <1>0, <1>1, <1>4 DEF ExecuteAborted, Executable, Unstarted, OnlyRow, PromotionTable
  <1>5. CASE Approve(p)
    <2>1. OnlyRow(p) /\ run'[p].pc = "approving" /\ \A q \in Promotions \ {p} : run'[q] = run[q]
      BY <1>0, <1>5 DEF Approve, OnlyRow, NoRun, PromotionTable, TaskTable
    <2> QED BY <2>1 DEF OnlyRow, WorkKept, Working, BackgroundPcs
  <1>6. CASE ApproveAborted(p) \/ Reject(p)
    BY <1>0, <1>1, <1>6 DEF ApproveAborted, Reject, SetPromotion, Unstarted, OnlyRow,
                            PromotionTable
  <1> QED BY <1>2, <1>3, <1>4, <1>5, <1>6 DEF Request, ExecuteLookupFails

\* The one that starts does so in an environment nobody works on.
LEMMA ExecuteNowLock ==
  ASSUME WorkInv, LockInv, NEW p \in Promotions, NEW d \in Deployments, NEW j \in Jobs,
         ExecuteNow(p, d, j)
  PROVE  LockInv'
  <1>0. promo \in PromotionTable /\ run \in TaskTable
    BY DEF WorkInv, TypeOK
  <1>1. /\ OnlyRow(p)
        /\ promo'[p].stage = promo[p].stage
        /\ promo'[p].status = "running"
    BY <1>0 DEF ExecuteNow, SetPromotion, OnlyRow, PromotionTable
  <1>2. \A q \in Promotions \ {p} : Working(q)' => Working(q) /\ promo'[q] = promo[q]
    BY <1>0, <1>1 DEF ExecuteNow, OnlyRow, Working, TaskTable
  <1>3. WorkingHoldsLock'
    BY <1>1, <1>2 DEF LockInv, WorkingHoldsLock
  <1>4. \A q \in Promotions \ {p} : Working(q) => Target[promo[q].stage] # Target[promo[p].stage]
    BY DEF ExecuteNow, LockFree, RunningFor, LockInv, WorkingHoldsLock
  <1>5. ASSUME NEW q \in Promotions, NEW r \in Promotions, Working(q)', Working(r)',
               Target[promo'[q].stage] = Target[promo'[r].stage]
        PROVE  q = r
    <2>1. CASE q # p /\ r # p
      BY <1>2, <1>5, <2>1 DEF LockInv, OneTaskPerEnvironment
    <2>2. CASE q = p \/ r = p
      BY <1>1, <1>2, <1>4, <1>5, <2>2
    <2> QED BY <2>1, <2>2
  <1> QED BY <1>3, <1>5 DEF LockInv, OneTaskPerEnvironment

\* A task writes its promotion only as it ends.
LEMMA TaskStepKeepsWork ==
  ASSUME WorkInv, NEW p \in Promotions, TaskStep(p)
  PROVE  WorkKept
  <1>0. promo \in PromotionTable /\ run \in TaskTable
    BY DEF WorkInv, TypeOK
  <1>1. \A q \in Promotions \ {p} : promo'[q] = promo[q] /\ run'[q] = run[q]
    BY <1>0 DEF TaskStep, ApproveReturns, StartTask, SnapshotTaken, WorkflowsExecuted,
                RecordResult, FinishTask, TaskFails, SetPromotion, PromotionTable, TaskTable
  <1>2. Working(p)' => Working(p) /\ promo'[p] = promo[p]
    <2>1. \A pc \in {"none", "recorded"} : run' = [run EXCEPT ![p].pc = pc] => ~Working(p)'
      BY <1>0 DEF Working, BackgroundPcs, TaskTable
    <2>2. CASE StartTask(p) \/ SnapshotTaken(p)
               \/ \E result \in {"completed", "failed"} : WorkflowsExecuted(p, result)
      BY <2>2 DEF StartTask, SnapshotTaken, WorkflowsExecuted, Working, BackgroundPcs
    <2> QED BY <2>1, <2>2 DEF TaskStep, ApproveReturns, RecordResult, FinishTask, TaskFails
  <1> QED BY <1>1, <1>2 DEF WorkKept, Working

\* The deployment endpoints and the scheduler write promotions that never had a
\* task.
LEMMA DeploymentStepKeepsWork ==
  ASSUME WorkInv, NEW d \in Deployments, DeploymentStep(d)
  PROVE  WorkKept
  <1>0. promo \in PromotionTable /\ TasksInv
    BY DEF WorkInv, TypeOK
  <1>1. UNCHANGED run
    BY DEF DeploymentStep, Rerun, RerunAborted, SchedulerFindsNone, SchedulerStarts,
           SchedulerAborted, CancelScheduled, Delete, StaleDeployment, RepairFromJob
  <1>2. UNCHANGED promo \/ \E p \in Promotions : Unstarted(p) /\ OnlyRow(p)
    BY <1>0
       DEF DeploymentStep, Rerun, RerunAborted, NewPromotion, SchedulerFindsNone,
           SchedulerStarts, SchedulerAborted, SchedulerReady, CancelScheduled, Delete,
           StaleDeployment, RepairFromJob, Latest, Candidates, SetPromotion, PromotionTable,
           OnlyRow, Unstarted
  <1> QED BY <1>0, <1>1, <1>2, UnstartedIdle, IdleWrite DEF WorkKept, Working

LEMMA NextLock == "lookup" \notin Faults /\ WorkInv /\ LockInv /\ [Next]_vars => LockInv'
  <1> SUFFICES ASSUME "lookup" \notin Faults, WorkInv, LockInv, [Next]_vars PROVE LockInv'
    OBVIOUS
  <1>1. CASE Crash
    BY <1>1, WorkKeptLock DEF Crash, WorkInv, TypeOK, TaskTable, WorkKept, Working, BackgroundPcs
  <1>2. ASSUME UNCHANGED <<promo, run>> PROVE LockInv'
    BY <1>2, WorkKeptLock DEF WorkKept, Working
  <1>3. ASSUME NEW j \in Jobs, JobStep(j) PROVE UNCHANGED <<promo, run>>
    BY <1>3 DEF JobStep, CancelJob, CleanupRunning, CleanupPending
  <1> QED
    BY <1>1, <1>2, <1>3, WorkKeptLock, RequestKeepsWork, ExecuteNowLock, TaskStepKeepsWork,
       DeploymentStepKeepsWork DEF Next, vars

LEMMA LockInvariant == "lookup" \notin Faults => (Spec => []LockInv)
  <1> SUFFICES ASSUME "lookup" \notin Faults PROVE Spec => []LockInv
    OBVIOUS
  <1>1. Init => LockInv
    BY DEF Init, NoRun, LockInv, WorkingHoldsLock, OneTaskPerEnvironment, Working, BackgroundPcs
  <1>2. WorkInv /\ LockInv /\ [Next]_vars => LockInv'
    BY NextLock
  <1> QED BY <1>1, <1>2, WorkInvariant, PTL DEF Spec

\* However many promotions, deployments and environments there are, and
\* whatever writes fail: two background tasks never work on one environment.
THEOREM MutualExclusion == "lookup" \notin Faults => (Spec => []OneTaskPerEnvironment)
  <1>1. LockInv => OneTaskPerEnvironment
    BY DEF LockInv
  <1> QED BY <1>1, LockInvariant, PTL

\* The lock sees every task: its promotion is "running" as long as it works.
THEOREM LockVisible == "lookup" \notin Faults => (Spec => []WorkingHoldsLock)
  <1>1. LockInv => WorkingHoldsLock
    BY DEF LockInv
  <1> QED BY <1>1, LockInvariant, PTL

-----------------------------------------------------------------------------
(* Exclusive execution, as a refinement.                                   *)

WorkIn(e) == {p \in Promotions : Working(p) /\ Target[promo[p].stage] = e}
Past == {p \in Promotions : run[p].deployment # 0 /\ ~Working(p)}

\* A step that starts no work and rewrites no task ends the work of some
\* environments, or of none.
LEMMA WorkKeptEnds ==
  ASSUME WorkInv, LockInv, WorkKept,
         \A q \in Promotions : run'[q].deployment = run[q].deployment
  PROVE  Exclusive!Next
  <1> DEFINE ended == {e \in Environments : WorkIn(e)' # WorkIn(e)}
  <1>1. \A e \in Environments : WorkIn(e)' \subseteq WorkIn(e)
    BY DEF WorkKept, WorkIn
  <1>2. \A e \in ended : WorkIn(e)' = {}
    <2> SUFFICES ASSUME NEW e \in ended, NEW p \in WorkIn(e)' PROVE FALSE
      OBVIOUS
    <2>1. \A q \in WorkIn(e) : q = p
      BY <1>1 DEF LockInv, OneTaskPerEnvironment, WorkIn
    <2> QED BY <1>1, <2>1
  <1>3. \A p \in Promotions : Working(p) => Target[promo[p].stage] \in Environments
    BY StageAssumption DEF WorkInv, RowInv, RowsInv, RowOK, Working, BackgroundPcs
  <1>4. Past' = Past \cup UNION {WorkIn(e) : e \in ended}
    <2>1. ASSUME NEW p \in Promotions, Working(p)
          PROVE  ~Working(p)' <=> \E e \in ended : p \in WorkIn(e)
      <3>1. PICK home \in Environments : home = Target[promo[p].stage]
        BY <1>3, <2>1
      <3>2. p \in WorkIn(home) /\ \A e \in Environments : p \in WorkIn(e) => e = home
        BY <2>1, <3>1 DEF WorkIn
      <3>3. Working(p)' <=> p \in WorkIn(home)'
        BY <3>1 DEF WorkIn, WorkKept
      <3>4. ASSUME ~Working(p)' PROVE \E e \in ended : p \in WorkIn(e)
        BY <3>2, <3>3, <3>4
      <3>5. ASSUME NEW e \in ended, p \in WorkIn(e) PROVE ~Working(p)'
        BY <1>2, <3>2, <3>3, <3>5
      <3> QED BY <3>4, <3>5
    <2>2. \A p \in Promotions : Working(p) => run[p].deployment # 0
      BY DEF WorkInv, TasksInv, TaskOK, Busy
    <2>3. \A p \in Promotions : Working(p)' => Working(p)
      BY DEF WorkKept
    <2>4. \A p \in Promotions :
            p \in Past' <=> p \in Past \/ \E e \in ended : p \in WorkIn(e)
      BY <2>1, <2>2, <2>3 DEF Past, WorkIn
    <2>5. \A e \in ended : WorkIn(e) \subseteq Promotions
      BY DEF WorkIn
    <2> QED BY <2>4, <2>5 DEF Past
  <1> DEFINE at == [e \in Environments |-> WorkIn(e)]
  <1>5. at' = [e \in Environments |-> IF e \in ended THEN {} ELSE at[e]]
    BY <1>2
  <1>6. Past' = Past \cup UNION {at[e] : e \in ended}
    BY <1>4
  <1>7. ended \in SUBSET Environments
    OBVIOUS
  <1>8. \E S \in SUBSET Environments :
           /\ Past' = Past \cup UNION {at[e] : e \in S}
           /\ at' = [e \in Environments |-> IF e \in S THEN {} ELSE at[e]]
    <2> HIDE DEF ended, at
    <2> QED BY <1>5, <1>6, <1>7
  <1> QED
    BY <1>8 DEF Exclusive!Next, Exclusive!End, WorkIn, Past

\* The execution that starts one.
LEMMA ExecuteNowStarts ==
  ASSUME WorkInv, LockInv, NEW p \in Promotions, NEW d \in Deployments, NEW j \in Jobs,
         ExecuteNow(p, d, j)
  PROVE  Exclusive!Next
  <1>0. promo \in PromotionTable /\ run \in TaskTable
    BY DEF WorkInv, TypeOK
  <1> DEFINE e == Target[promo[p].stage]
  <1>1. Unstarted(p) /\ promo[p].stage \in Stages
    BY DEF ExecuteNow, Executable, Unstarted, WorkInv, RowInv, RowsInv, RowOK
  <1>2. ~Working(p) /\ run[p].deployment = 0
    BY <1>1, UnstartedIdle DEF WorkInv
  <1>3. /\ \A q \in Promotions \ {p} : promo'[q] = promo[q] /\ run'[q] = run[q]
        /\ promo'[p].stage = promo[p].stage
        /\ run'[p].pc = "queued" /\ run'[p].deployment = d /\ d # 0
    BY <1>0 DEF ExecuteNow, SetPromotion, PromotionTable, TaskTable, NoRun, Deployments
  <1>4. Working(p)' /\ \A q \in Promotions \ {p} : Working(q)' <=> Working(q)
    BY <1>3 DEF Working, BackgroundPcs
  <1>5. WorkIn(e) = {}
    BY DEF WorkIn, ExecuteNow, LockFree, RunningFor, LockInv, WorkingHoldsLock
  <1>6. \A f \in Environments : WorkIn(f)' = IF f = e THEN {p} ELSE WorkIn(f)
    BY <1>2, <1>3, <1>4, <1>5 DEF WorkIn
  <1>7. Past' = Past /\ p \notin Past
    BY <1>2, <1>3, <1>4 DEF Past
  <1>8. e \in Environments
    BY <1>1, StageAssumption
  <1>9. \A f \in Environments : p \notin WorkIn(f)
    BY <1>2 DEF WorkIn
  <1>10. [f \in Environments |-> WorkIn(f)]'
            = [[f \in Environments |-> WorkIn(f)] EXCEPT ![e] = {p}]
    BY <1>6, <1>8
  <1> QED
    BY <1>5, <1>7, <1>8, <1>9, <1>10 DEF Exclusive!Next, Exclusive!Start, WorkIn, Past

\* Only the start of an execution gives a task its deployment.
LEMMA TasksKept ==
  ASSUME WorkInv, [Next]_vars,
         \A p \in Promotions, d \in Deployments, j \in Jobs : ~ExecuteNow(p, d, j)
  PROVE  \A q \in Promotions : run'[q].deployment = run[q].deployment
  <1>0. run \in TaskTable
    BY DEF WorkInv, TypeOK
  <1>1. ASSUME NEW p \in Promotions, Request(p)
        PROVE  \A q \in Promotions : run'[q].deployment = run[q].deployment
    <2>1. CASE Approve(p)
      <3>1. run[p].deployment = 0
        BY <2>1, UnstartedIdle DEF Approve, Unstarted, WorkInv
      <3> QED BY <1>0, <2>1, <3>1 DEF Approve, NoRun, TaskTable
    <2> QED
      BY <1>1, <2>1 DEF Request, Initiate, ExecuteScheduled, ExecuteAborted,
                        ExecuteLookupFails, ApproveAborted, Reject
  <1>2. ASSUME NEW p \in Promotions, TaskStep(p)
        PROVE  \A q \in Promotions : run'[q].deployment = run[q].deployment
    <2>1. ASSUME NEW pc, run' = [run EXCEPT ![p].pc = pc]
          PROVE  \A q \in Promotions : run'[q].deployment = run[q].deployment
      BY <1>0, <2>1 DEF TaskTable
    <2>2. ASSUME NEW result, WorkflowsExecuted(p, result)
          PROVE  \A q \in Promotions : run'[q].deployment = run[q].deployment
      BY <1>0, <2>2 DEF WorkflowsExecuted, TaskTable
    <2> QED
      BY <1>2, <2>1, <2>2 DEF TaskStep, ApproveReturns, StartTask, SnapshotTaken, RecordResult,
                              FinishTask, TaskFails
  <1>3. ASSUME NEW d \in Deployments, DeploymentStep(d) PROVE UNCHANGED run
    BY <1>3 DEF DeploymentStep, Rerun, RerunAborted, SchedulerFindsNone, SchedulerStarts,
                SchedulerAborted, CancelScheduled, Delete, StaleDeployment, RepairFromJob
  <1>4. ASSUME NEW j \in Jobs, JobStep(j) PROVE UNCHANGED run
    BY <1>4 DEF JobStep, CancelJob, CleanupRunning, CleanupPending
  <1>5. CASE Crash
    BY <1>0, <1>5 DEF Crash, TaskTable
  <1> QED BY <1>1, <1>2, <1>3, <1>4, <1>5 DEF Next, vars

LEMMA StepExclusive ==
  ASSUME "lookup" \notin Faults, WorkInv, LockInv, [Next]_vars
  PROVE  Exclusive!Next
  <1>1. ASSUME NEW p \in Promotions, NEW d \in Deployments, NEW j \in Jobs, ExecuteNow(p, d, j)
        PROVE  Exclusive!Next
    BY <1>1, ExecuteNowStarts
  <1>2. ASSUME \A p \in Promotions, d \in Deployments, j \in Jobs : ~ExecuteNow(p, d, j)
        PROVE  WorkKept
    <2>1. CASE UNCHANGED <<promo, run>>
      BY <2>1 DEF WorkKept, Working
    <2>2. CASE Crash
      BY <2>2 DEF Crash, WorkInv, TypeOK, TaskTable, WorkKept, Working, BackgroundPcs
    <2>3. ASSUME NEW j \in Jobs, JobStep(j) PROVE UNCHANGED <<promo, run>>
      BY <2>3 DEF JobStep, CancelJob, CleanupRunning, CleanupPending
    <2> QED
      BY <1>2, <2>1, <2>2, <2>3, RequestKeepsWork, TaskStepKeepsWork, DeploymentStepKeepsWork
         DEF Next, vars
  <1>3. ASSUME \A p \in Promotions, d \in Deployments, j \in Jobs : ~ExecuteNow(p, d, j)
        PROVE  Exclusive!Next
    BY <1>2, <1>3, TasksKept, WorkKeptEnds
  <1> QED BY <1>1, <1>3

\* The lock of execute_deployment implements exclusive execution: whatever writes
\* fail and whenever the process dies, a promotion is started only in an environment
\* nobody works on, and none is carried out a second time.
THEOREM ExclusiveOnce == "lookup" \notin Faults => (Spec => ExecutesExclusively)
  <1> SUFFICES ASSUME "lookup" \notin Faults PROVE Spec => ExecutesExclusively
    OBVIOUS
  <1>1. Init => Exclusive!Init
    BY DEF Init, NoRun, Working, BackgroundPcs, Exclusive!Init
  <1>2. WorkInv /\ LockInv /\ [Next]_vars => Exclusive!Next
    BY StepExclusive
  <1> QED
    BY <1>1, <1>2, WorkInvariant, LockInvariant, PTL DEF Spec, ExecutesExclusively, Exclusive!Spec
=============================================================================
