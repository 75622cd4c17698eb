----------------------- MODULE PromotionResultProofs -----------------------
(***************************************************************************)
(* Proofs about what Promotion reports: the results of deployments, jobs   *)
(* and promotions, for every value of the constants.                       *)
(***************************************************************************)
EXTENDS PromotionProofs

\* What holds whatever fails, and what needs the lock.
EarnedInv == SuccessIsEarned /\ CompletedIsEarned
AgreeInv == LockInv /\ CompletedJobAgrees

-----------------------------------------------------------------------------
(* Deployments reported successful.                                        *)

\* Whose task earned the success of deployment d.
Earned(d, p) ==
    /\ dep[d].workflowsOf = p
    /\ run[p].deployment = d
    /\ run[p].outcome = "completed"

\* No task is rewritten or started again that has a result: a new task has no
\* deployment yet, a task that gets its result had none.
LEMMA ResultsKept ==
  ASSUME WorkInv, [Next]_vars, NEW q \in Promotions,
         run[q].outcome = "completed", run[q].deployment # 0
  PROVE  /\ run'[q].outcome = "completed" /\ run'[q].deployment = run[q].deployment
         /\ ~Busy(q) => ~Busy(q)'
  <1> USE DEF Busy, Working
  <1>0. run \in TaskTable /\ promo[q].status \in {"running", "completed", "failed"}
    BY DEF WorkInv, TypeOK, TasksInv, TaskOK
  <1>1. CASE UNCHANGED run
    BY <1>1
  <1>2. ASSUME NEW p \in Promotions, Request(p), ~UNCHANGED run
        PROVE  p # q /\ run'[q] = run[q]
    BY <1>0, <1>2 DEF Request, Initiate, ExecuteNow, ExecuteScheduled, ExecuteAborted,
                      ExecuteLookupFails, Approve, ApproveAborted, Reject, Executable, TaskTable
  <1>3. ASSUME NEW p \in Promotions, TaskStep(p)
        PROVE  /\ run'[q].outcome = "completed" /\ run'[q].deployment = run[q].deployment
               /\ ~Busy(q) => ~Busy(q)'
    <2>1. ASSUME NEW pc, run' = [run EXCEPT ![p].pc = pc], pc = "none" \/ Busy(p)
          PROVE  /\ run'[q].outcome = run[q].outcome /\ run'[q].deployment = run[q].deployment
                 /\ ~Busy(q) => ~Busy(q)'
      BY <1>0, <2>1 DEF TaskTable, BackgroundPcs
    <2>2. ASSUME NEW result, WorkflowsExecuted(p, result)
          PROVE  p # q /\ run'[q] = run[q]
      BY <1>0, <2>2 DEF WorkflowsExecuted, TaskTable, WorkInv, OutcomeKnown, BackgroundPcs
    <2> QED
      BY <1>3, <2>1, <2>2 DEF TaskStep, ApproveReturns, StartTask, SnapshotTaken, RecordResult,
                              FinishTask, TaskFails, BackgroundPcs
  <1>4. CASE Crash
    BY <1>0, <1>4 DEF Crash, TaskTable, BackgroundPcs
  <1>5. ASSUME NEW d \in Deployments, DeploymentStep(d) PROVE UNCHANGED run
    BY <1>5 DEF DeploymentStep, Rerun, RerunAborted, SchedulerFindsNone, SchedulerStarts,
                SchedulerAborted, CancelScheduled, Delete, StaleDeployment, RepairFromJob
  <1>6. ASSUME NEW j \in Jobs, JobStep(j) PROVE UNCHANGED run
    BY <1>6 DEF JobStep, CancelJob, CleanupRunning, CleanupPending
  <1> QED BY <1>1, <1>2, <1>3, <1>4, <1>5, <1>6 DEF Next, vars

\* A step that makes no deployment successful.
NoSuccess ==
    \A d \in Deployments :
        dep'[d].status = "success" =>
            dep[d].status = "success" /\ dep'[d].workflowsOf = dep[d].workflowsOf

\* A step that completes no job.
NoCompletion == \A j \in Jobs : job'[j].status = "completed" => job'[j] = job[j]

\* Every deployment a step makes successful is earned.
SuccessJustified ==
    \A d \in Deployments :
        \/ dep'[d].status # "success"
        \/ dep[d].status = "success" /\ dep'[d].workflowsOf = dep[d].workflowsOf
        \/ \E p \in Promotions : Earned(d, p)'

LEMMA SuccessKept ==
  ASSUME WorkInv, SuccessIsEarned, [Next]_vars, SuccessJustified
  PROVE  SuccessIsEarned'
  <1> SUFFICES ASSUME NEW d \in Deployments, dep'[d].status = "success"
               PROVE  \E p \in Promotions : Earned(d, p)'
    BY DEF SuccessIsEarned, Earned
  <1>1. CASE dep[d].status = "success" /\ dep'[d].workflowsOf = dep[d].workflowsOf
    <2>1. PICK p \in Promotions : Earned(d, p)
      BY <1>1 DEF SuccessIsEarned, Earned
    <2>2. d # 0
      BY DEF Deployments
    <2> QED BY <1>1, <2>1, <2>2, ResultsKept DEF Earned
  <1> QED BY <1>1 DEF SuccessJustified

\* The task of a completed job is the one that completed it.
LEMMA CompletedTask ==
  ASSUME WorkInv, NEW j \in Jobs, job[j].status = "completed"
  PROVE  /\ job[j].promotion \in Promotions
         /\ job[j].deployment \in Deployments
         /\ run[job[j].promotion].job = j
         /\ run[job[j].promotion].deployment = job[j].deployment
         /\ dep[job[j].deployment].workflowsOf = job[j].promotion
  BY DEF WorkInv, TypeOK, JobTable, JobsInv, JobOK, TasksInv, TaskOK

LEMMA EarnedKept ==
  ASSUME WorkInv, EarnedInv, [Next]_vars, SuccessJustified,
         \A j \in Jobs :
            job'[j].status = "completed" =>
                \/ job'[j] = job[j]
                \/ \E q \in Promotions :
                      job'[j].promotion = q /\ run'[q].outcome = "completed" /\ ~Busy(q)'
  PROVE  EarnedInv'
  <1>1. ASSUME NEW j \in Jobs, job[j].status = "completed"
        PROVE  \E q \in Promotions :
                  job[j].promotion = q /\ run'[q].outcome = "completed" /\ ~Busy(q)'
    <2>1. PICK q \in Promotions : job[j].promotion = q
      BY <1>1, CompletedTask
    <2>2. run[q].outcome = "completed" /\ ~Busy(q) /\ run[q].deployment # 0
      BY <1>1, <2>1, CompletedTask DEF Deployments, EarnedInv, CompletedIsEarned
    <2>3. run'[q].outcome = "completed" /\ ~Busy(q)'
      BY <2>2, ResultsKept
    <2> QED BY <2>1, <2>3
  <1>2. ASSUME NEW j \in Jobs, job'[j].status = "completed"
        PROVE  \E q \in Promotions :
                  job'[j].promotion = q /\ run'[q].outcome = "completed" /\ ~Busy(q)'
    <2>1. CASE job'[j] = job[j]
      <3>1. job[j].status = "completed"
        BY <1>2, <2>1
      <3> QED BY <1>1, <2>1, <3>1
    <2> QED BY <1>2, <2>1
  <1>3. CompletedIsEarned'
    BY <1>2 DEF CompletedIsEarned, Busy, Working
  <1> QED BY <1>3, SuccessKept DEF EarnedInv

LEMMA NothingEarned ==
  ASSUME WorkInv, EarnedInv, [Next]_vars, NoSuccess, NoCompletion
  PROVE  EarnedInv'
  BY EarnedKept DEF NoSuccess, NoCompletion, SuccessJustified

-----------------------------------------------------------------------------
(* Jobs reported completed.                                                *)

\* The promotion and the deployment of a completed job exist.
LEMMA CompletedLinks ==
  ASSUME WorkInv, AgreeInv, NEW j \in Jobs, job[j].status = "completed"
  PROVE  /\ dep[job[j].deployment].status = "success"
         /\ promo[job[j].promotion].status = "completed"
  BY CompletedTask DEF AgreeInv, CompletedJobAgrees

\* A step that completes no job and leaves the deployment and the promotion of
\* a completed job alone.
AgreementKept ==
    \A j \in Jobs :
        job'[j].status = "completed" =>
            /\ job[j].status = "completed"
            /\ job'[j].promotion = job[j].promotion
            /\ job'[j].deployment = job[j].deployment
            /\ dep'[job[j].deployment].status = "success"
            /\ promo'[job[j].promotion].status = "completed"

LEMMA AgreementStep ==
  ASSUME WorkInv, AgreeInv, AgreementKept
  PROVE  CompletedJobAgrees'
  BY CompletedTask DEF CompletedJobAgrees, AgreementKept, Deployments

\* It is enough that completed promotions and successful deployments keep
\* their status and no job completes.
SuccessStays == \A d \in Deployments : dep[d].status = "success" => dep'[d].status = "success"
CompletedStays ==
    \A p \in Promotions : promo[p].status = "completed" => promo'[p].status = "completed"

LEMMA EndsKept ==
  ASSUME WorkInv, AgreeInv, NoCompletion, SuccessStays, CompletedStays
  PROVE  CompletedJobAgrees'
  <1>1. AgreementKept
    BY CompletedTask, CompletedLinks
       DEF AgreementKept, NoCompletion, SuccessStays, CompletedStays
  <1> QED BY <1>1, AgreementStep

\* Requests write rows that have no result.
LEMMA RequestResults ==
  ASSUME WorkInv, NEW p \in Promotions, Request(p)
  PROVE  /\ NoSuccess /\ NoCompletion /\ SuccessStays
         /\ "lookup" \notin Faults => CompletedStays
  <1>0. /\ promo \in PromotionTable
        /\ dep \in DeploymentTable
        /\ job \in JobTable
    BY DEF WorkInv, TypeOK
  <1>1. ASSUME "lookup" \notin Faults
        PROVE  promo[p].status # "completed" /\ \A q \in Promotions \ {p} : promo'[q] = promo[q]
    <2>1. ASSUME NEW s \in Stages, Initiate(p, s)
          PROVE  /\ promo[p].status # "completed"
                 /\ \A q \in Promotions \ {p} : promo'[q] = promo[q]
      BY <1>0, <2>1 DEF Initiate, NewPromotion, PromotionTable
    <2>2. ASSUME NEW d \in Deployments, NEW j \in Jobs,
                 \/ ExecuteNow(p, d, j)
                 \/ ExecuteScheduled(p, d, j)
                 \/ \E n \in 0..4, scheduled, recorded \in BOOLEAN :
                       ExecuteAborted(p, d, j, n, scheduled, recorded)
          PROVE  /\ promo[p].status # "completed"
                 /\ \A q \in Promotions \ {p} : promo'[q] = promo[q]
      BY <1>0, <2>2 DEF ExecuteNow, ExecuteScheduled, ExecuteAborted, SetPromotion, Executable,
                        PromotionTable
    <2>3. CASE Approve(p) \/ ApproveAborted(p) \/ Reject(p)
      BY <1>0, <2>3 DEF Approve, ApproveAborted, Reject, SetPromotion, PromotionTable
    <2> QED BY <1>1, <2>1, <2>2, <2>3 DEF Request, ExecuteLookupFails
  <1>2. \/ UNCHANGED dep
        \/ \E d \in Deployments, st \in {"scheduled", "running"}, r \in {0, p} :
              NewDeployment(d) /\ dep' = [dep EXCEPT ![d] = DeploymentRow(promo[p].stage, st, r)]
    BY DEF Request, Initiate, ExecuteNow, ExecuteScheduled, ExecuteAborted,
           ExecuteLookupFails, Approve, ApproveAborted, Reject
  <1>3. \A d \in Deployments : \/ dep'[d] = dep[d]
                               \/ dep[d].status = "none" /\ dep'[d].status # "success"
    BY <1>0, <1>2 DEF NewDeployment, DeploymentRow, DeploymentTable
  <1>4. \/ UNCHANGED job
        \/ \E j \in Jobs, d \in Deployments \cup {0} : job' = [job EXCEPT ![j] = JobRow(p, d)]
    BY DEF Request, Initiate, ExecuteNow, ExecuteScheduled, ExecuteAborted,
           ExecuteLookupFails, Approve, ApproveAborted, Reject
  <1>5. \A j \in Jobs : job'[j] = job[j] \/ job'[j].status = "pending"
    BY <1>0, <1>4 DEF JobRow, JobTable
  <1> QED BY <1>1, <1>3, <1>5 DEF NoSuccess, NoCompletion, SuccessStays, CompletedStays

\* The repair of get_deployment reports the success of a completed job, which was
\* earned; nothing else here reports one.
LEMMA DeploymentStepResults ==
  ASSUME WorkInv, EarnedInv, NEW d \in Deployments, DeploymentStep(d)
  PROVE  SuccessJustified /\ NoCompletion /\ SuccessStays /\ CompletedStays
  <1>0. /\ promo \in PromotionTable
        /\ dep \in DeploymentTable
        /\ job \in JobTable
    BY DEF WorkInv, TypeOK
  <1>1. ASSUME \A q \in Promotions : promo[q].status = "completed" => promo'[q] = promo[q],
               \A e \in Deployments :
                   \/ dep'[e].status = dep[e].status /\ dep'[e].workflowsOf = dep[e].workflowsOf
                   \/ dep[e].status # "success" /\ dep'[e].status # "success",
               \A j \in Jobs : job'[j] = job[j] \/ job'[j].status = "pending"
        PROVE  SuccessJustified /\ NoCompletion /\ SuccessStays /\ CompletedStays
    BY <1>1 DEF SuccessJustified, NoCompletion, SuccessStays, CompletedStays
  <1>2. ASSUME NEW p, NEW e, NEW j \in Jobs, job' = [job EXCEPT ![j] = JobRow(p, e)]
        PROVE  \A k \in Jobs : job'[k] = job[k] \/ job'[k].status = "pending"
    BY <1>0, <1>2 DEF JobRow, JobTable
  <1>3. ASSUME NEW p \in Promotions, NEW e \in Deployments, NEW j \in Jobs, Rerun(d, p, e, j)
        PROVE  SuccessJustified /\ NoCompletion /\ SuccessStays /\ CompletedStays
    <2>1. \A q \in Promotions : promo[q].status = "completed" => promo'[q] = promo[q]
      BY <1>0, <1>3 DEF Rerun, NewPromotion, PromotionTable
    <2>2. \A f \in Deployments : \/ dep'[f] = dep[f]
                                 \/ dep[f].status # "success" /\ dep'[f].status # "success"
      BY <1>0, <1>3 DEF Rerun, NewDeployment, DeploymentRow, DeploymentTable
    <2>3. \A k \in Jobs : job'[k] = job[k] \/ job'[k].status = "pending"
      BY <1>2, <1>3 DEF Rerun
    <2> QED BY <1>1, <2>1, <2>2, <2>3
  <1>4. ASSUME NEW p \in Promotions, NEW e \in Deployments, NEW j \in Jobs, NEW n \in 1 .. 4,
               RerunAborted(d, p, e, j, n)
        PROVE  SuccessJustified /\ NoCompletion /\ SuccessStays /\ CompletedStays
    <2>1. \A q \in Promotions : promo[q].status = "completed" => promo'[q] = promo[q]
      BY <1>0, <1>4 DEF RerunAborted, NewPromotion, PromotionTable
    <2>2. \A f \in Deployments : \/ dep'[f] = dep[f]
                                 \/ dep[f].status # "success" /\ dep'[f].status # "success"
      BY <1>0, <1>4 DEF RerunAborted, NewDeployment, DeploymentRow, DeploymentTable
    <2>3. \A k \in Jobs : job'[k] = job[k] \/ job'[k].status = "pending"
      BY <1>2, <1>4 DEF RerunAborted
    <2> QED BY <1>1, <2>1, <2>2, <2>3
  <1>5. ASSUME NEW st, st # "success", dep[d].status # "success",
               dep' = [dep EXCEPT ![d].status = st]
        PROVE  \A e \in Deployments :
                   \/ dep'[e] = dep[e]
                   \/ dep[e].status # "success" /\ dep'[e].status # "success"
    BY <1>0, <1>5 DEF DeploymentTable
  <1>6. CASE SchedulerFindsNone(d)
    BY <1>1, <1>5, <1>6 DEF SchedulerFindsNone, SetDeployment
  <1>7. ASSUME NEW p \in Promotions, NEW j \in Jobs,
               \/ SchedulerStarts(d, p, j)
               \/ \E n \in 0 .. 4, recorded \in BOOLEAN : SchedulerAborted(d, p, j, n, recorded)
        PROVE  SuccessJustified /\ NoCompletion /\ SuccessStays /\ CompletedStays
    <2>1. dep[d].status = "scheduled" /\ promo[p].status \in {"pending", "approved"}
      BY <1>7 DEF SchedulerStarts, SchedulerAborted, SchedulerReady, Latest, Candidates
    <2>2. \A q \in Promotions : promo[q].status = "completed" => promo'[q] = promo[q]
      BY <1>0, <1>7, <2>1 DEF SchedulerStarts, SchedulerAborted, SetPromotion, PromotionTable
    <2>3. \A e \in Deployments : \/ dep'[e] = dep[e]
                                 \/ dep[e].status # "success" /\ dep'[e].status # "success"
      BY <1>0, <1>7, <2>1 DEF SchedulerStarts, SchedulerAborted, SetDeployment, DeploymentTable
    <2>4. \A k \in Jobs : job'[k] = job[k] \/ job'[k].status = "pending"
      BY <1>2, <1>7 DEF SchedulerStarts, SchedulerAborted
    <2> QED BY <1>1, <2>2, <2>3, <2>4
  <1>8. CASE CancelScheduled(d)
    <2>1. \A q \in Promotions : promo[q].status = "completed" => promo'[q] = promo[q]
      BY <1>0, <1>8 DEF CancelScheduled, SetPromotion, Latest, Candidates, PromotionTable
    <2>2. \A e \in Deployments : \/ dep'[e] = dep[e]
                                 \/ dep[e].status # "success" /\ dep'[e].status # "success"
      BY <1>5, <1>8 DEF CancelScheduled, SetDeployment
    <2> QED BY <1>1, <1>8, <2>1, <2>2 DEF CancelScheduled
  <1>9. CASE Delete(d)
    <2>1. \A e \in Deployments :
            dep'[e].status = dep[e].status /\ dep'[e].workflowsOf = dep[e].workflowsOf
      BY <1>0, <1>9 DEF Delete, DeploymentTable
    <2> QED BY <1>1, <1>9, <2>1 DEF Delete
  <1>10. CASE StaleDeployment(d)
    BY <1>1, <1>5, <1>10 DEF StaleDeployment, SetDeployment
  <1>11. CASE RepairFromJob(d)
    <2>1. PICK p \in Promotions, j \in Jobs :
                 /\ job[j].deployment = d
                 /\ job[j].status \in {"failed", "completed"}
                 /\ dep' = [dep EXCEPT ![d].status =
                               IF job[j].status = "failed" THEN "failed" ELSE "success"]
      BY <1>11 DEF RepairFromJob, SetDeployment
    <2>2. /\ dep[d].status = "running" /\ UNCHANGED <<promo, job, run>>
          /\ \A e \in Deployments \ {d} : dep'[e] = dep[e]
          /\ dep'[d].workflowsOf = dep[d].workflowsOf
          /\ dep'[d].status = IF job[j].status = "failed" THEN "failed" ELSE "success"
      BY <1>0, <1>11, <2>1 DEF RepairFromJob, DeploymentTable
    <2>3. ASSUME job[j].status = "completed" PROVE \E q \in Promotions : Earned(d, q)'
      <3>1. Earned(d, job[j].promotion) /\ job[j].promotion \in Promotions
        BY <2>1, <2>3, CompletedTask DEF Earned, EarnedInv, CompletedIsEarned
      <3> QED BY <2>2, <3>1 DEF Earned
    <2> QED
      BY <2>1, <2>2, <2>3 DEF SuccessJustified, NoCompletion, SuccessStays, CompletedStays
  <1> QED
    BY <1>3, <1>4, <1>6, <1>7, <1>8, <1>9, <1>10, <1>11 DEF DeploymentStep

\* What a task writes as it ends: its own deployment, promotion and job.
LEMMA TaskOwns ==
  ASSUME WorkInv, NEW p \in Promotions, Busy(p)
  PROVE  /\ run[p].deployment \in Deployments /\ run[p].job \in Jobs
         /\ job[run[p].job].promotion = p
         /\ job[run[p].job].deployment = run[p].deployment
         /\ dep[run[p].deployment].workflowsOf = p
  BY DEF WorkInv, TypeOK, TasksInv, TaskOK, TaskTable

LEMMA RecordWrites ==
  ASSUME WorkInv, NEW p \in Promotions, RecordResult(p)
  PROVE  /\ Busy(p) /\ run[p].outcome \in {"completed", "failed"}
         /\ \A e \in Deployments \ {run[p].deployment} : dep'[e] = dep[e]
         /\ dep'[run[p].deployment].workflowsOf = p
         /\ dep'[run[p].deployment].status = DeploymentResult(p)
         /\ \A q \in Promotions \ {p} : promo'[q] = promo[q] /\ run'[q] = run[q]
         /\ promo'[p].status = run[p].outcome
         /\ UNCHANGED job
         /\ run'[p].outcome = run[p].outcome /\ run'[p].deployment = run[p].deployment
  <1>0. promo \in PromotionTable /\ dep \in DeploymentTable /\ run \in TaskTable
    BY DEF WorkInv, TypeOK
  <1>1. Busy(p) /\ run[p].outcome \in {"completed", "failed"}
    BY <1>0 DEF RecordResult, Busy, Working, BackgroundPcs, WorkInv, OutcomeKnown, TaskTable,
                Outcomes
  <1>2. /\ \A e \in Deployments \ {run[p].deployment} : dep'[e] = dep[e]
        /\ dep'[run[p].deployment].workflowsOf = p
        /\ dep'[run[p].deployment].status = DeploymentResult(p)
    BY <1>0, <1>1, TaskOwns DEF RecordResult, SetDeployment, DeploymentTable
  <1>3. /\ \A q \in Promotions \ {p} : promo'[q] = promo[q] /\ run'[q] = run[q]
        /\ promo'[p].status = run[p].outcome
    BY <1>0 DEF RecordResult, SetPromotion, PromotionTable, TaskTable
  <1>4. run'[p].outcome = run[p].outcome /\ run'[p].deployment = run[p].deployment
    BY <1>0 DEF RecordResult, TaskTable
  <1> QED BY <1>1, <1>2, <1>3, <1>4 DEF RecordResult

LEMMA FinishWrites ==
  ASSUME WorkInv, NEW p \in Promotions, FinishTask(p)
  PROVE  /\ run[p].pc = "recorded" /\ UNCHANGED <<promo, dep>>
         /\ \A j \in Jobs \ {run[p].job} : job'[j] = job[j]
         /\ job'[run[p].job].status = run[p].outcome
         /\ job'[run[p].job].promotion = p
         /\ job'[run[p].job].deployment = run[p].deployment
         /\ \A q \in Promotions \ {p} : run'[q] = run[q]
         /\ run'[p].outcome = run[p].outcome /\ run'[p].deployment = run[p].deployment
         /\ ~Busy(p)'
  <1>0. job \in JobTable /\ run \in TaskTable /\ Busy(p)
    BY DEF WorkInv, TypeOK, FinishTask, Busy
  <1>1. /\ \A j \in Jobs \ {run[p].job} : job'[j] = job[j]
        /\ job'[run[p].job].status = run[p].outcome
        /\ job'[run[p].job].promotion = p
        /\ job'[run[p].job].deployment = run[p].deployment
    BY <1>0, TaskOwns DEF FinishTask, SetJob, JobTable
  <1>2. /\ \A q \in Promotions \ {p} : run'[q] = run[q]
        /\ run'[p].pc = "none"
        /\ run'[p].outcome = run[p].outcome /\ run'[p].deployment = run[p].deployment
    BY <1>0 DEF FinishTask, TaskTable
  <1>3. ~Busy(p)'
    BY <1>2 DEF Busy, Working, BackgroundPcs
  <1> QED BY <1>1, <1>2, <1>3 DEF FinishTask

LEMMA FailWrites ==
  ASSUME WorkInv, NEW p \in Promotions, NEW recorded \in BOOLEAN,
         NEW written \in SUBSET {"job", "promotion", "deployment"},
         TaskFails(p, recorded, written)
  PROVE  /\ Busy(p)
         /\ \A e \in Deployments \ {run[p].deployment} : dep'[e] = dep[e]
         /\ dep'[run[p].deployment].workflowsOf = p
         /\ dep'[run[p].deployment].status \in
               {"failed", dep[run[p].deployment].status, DeploymentResult(p)}
         /\ \A q \in Promotions \ {p} : promo'[q] = promo[q] /\ run'[q] = run[q]
         /\ \A j \in Jobs : job'[j] = job[j] \/ job'[j].status = "failed"
         /\ run'[p].outcome = run[p].outcome /\ run'[p].deployment = run[p].deployment
         /\ run'[p].pc = "none"
  <1>0. /\ promo \in PromotionTable
        /\ dep \in DeploymentTable
        /\ job \in JobTable
        /\ run \in TaskTable
    BY DEF WorkInv, TypeOK
  <1>1. Busy(p)
    BY DEF TaskFails, Busy, Working
  <1> DEFINE d == run[p].deployment
  <1>2. /\ \A e \in Deployments \ {d} : dep'[e] = dep[e]
        /\ dep'[d].workflowsOf = p
        /\ dep'[d].status \in {"failed", dep[d].status, DeploymentResult(p)}
    BY <1>0, <1>1, TaskOwns DEF TaskFails, DeploymentTable
  <1>3. \A q \in Promotions \ {p} : promo'[q] = promo[q] /\ run'[q] = run[q]
    BY <1>0 DEF TaskFails, SetPromotion, PromotionTable, TaskTable
  <1>4. \A j \in Jobs : job'[j] = job[j] \/ job'[j].status = "failed"
    BY <1>0 DEF TaskFails, SetJob, JobTable
  <1>5. run'[p].outcome = run[p].outcome /\ run'[p].deployment = d /\ run'[p].pc = "none"
    BY <1>0 DEF TaskFails, TaskTable
  <1> QED BY <1>1, <1>2, <1>3, <1>4, <1>5

\* The other steps of a task report nothing.
LEMMA TaskGoesOn ==
  ASSUME WorkInv, NEW p \in Promotions, TaskStep(p), ~RecordResult(p), ~FinishTask(p),
         ~\E recorded \in BOOLEAN, written \in SUBSET {"job", "promotion", "deployment"} :
             TaskFails(p, recorded, written)
  PROVE  UNCHANGED <<promo, dep>> /\ NoCompletion
  <1>1. UNCHANGED <<promo, dep>> /\ (UNCHANGED job \/ SetJob(run[p].job, "running"))
    BY DEF TaskStep, ApproveReturns, StartTask, SnapshotTaken, WorkflowsExecuted
  <1> QED BY <1>1 DEF NoCompletion, SetJob, WorkInv, TypeOK, JobTable

\* A task reports success only with the result COMPLETED, to its own deployment
\* and job.
LEMMA TaskStepEarned ==
  ASSUME WorkInv, EarnedInv, [Next]_vars, NEW p \in Promotions, TaskStep(p)
  PROVE  EarnedInv'
  <1> DEFINE d == run[p].deployment
  <1>1. CASE RecordResult(p)
    <2>1. SuccessJustified
      BY <1>1, RecordWrites DEF SuccessJustified, Earned, DeploymentResult
    <2> QED BY <1>1, <2>1, RecordWrites, EarnedKept
  <1>2. CASE FinishTask(p)
    <2>1. SuccessJustified
      BY <1>2, FinishWrites DEF SuccessJustified
    <2>2. ASSUME NEW j \in Jobs, job'[j].status = "completed", job'[j] # job[j]
          PROVE  job'[j].promotion = p /\ run'[p].outcome = "completed" /\ ~Busy(p)'
      BY <1>2, <2>2, FinishWrites
    <2> QED BY <2>1, <2>2, EarnedKept
  <1>3. ASSUME NEW recorded \in BOOLEAN, NEW written \in SUBSET {"job", "promotion", "deployment"},
               TaskFails(p, recorded, written)
        PROVE  EarnedInv'
    <2>1. Busy(p)
      BY <1>3, FailWrites
    <2>2. dep[d].status = "success" => Earned(d, p)
      BY <2>1, TaskOwns DEF EarnedInv, SuccessIsEarned, Earned
    <2>3. dep'[d].status = "success" => Earned(d, p)'
      BY <1>3, <2>2, FailWrites DEF Earned, DeploymentResult
    <2>4. SuccessJustified
      BY <1>3, <2>3, FailWrites DEF SuccessJustified
    <2>5. NoCompletion
      BY <1>3, FailWrites DEF NoCompletion
    <2> QED BY <2>4, <2>5, EarnedKept DEF NoCompletion
  <1>4. CASE UNCHANGED <<promo, dep>> /\ NoCompletion
    BY <1>4, NothingEarned DEF NoSuccess
  <1> QED BY <1>1, <1>2, <1>3, <1>4, TaskGoesOn

\* A completed job has nothing in common with a task that is not over.
LEMMA CompletedApart ==
  ASSUME WorkInv, EarnedInv, NEW p \in Promotions, Busy(p),
         NEW j \in Jobs, job[j].status = "completed"
  PROVE  /\ job[j].promotion # p
         /\ job[j].deployment # run[p].deployment
  BY TaskOwns, CompletedTask DEF EarnedInv, CompletedIsEarned

\* So a task that ends leaves the completed jobs of others alone, and completes
\* its own only for the result that its deployment and its promotion have.
LEMMA TaskStepAgrees ==
  ASSUME WorkInv, EarnedInv, RecordedInv, AgreeInv, NEW p \in Promotions, TaskStep(p)
  PROVE  CompletedJobAgrees'
  <1>1. CASE RecordResult(p)
    <2>1. AgreementKept
      BY <1>1, RecordWrites, CompletedTask, CompletedLinks, CompletedApart DEF AgreementKept
    <2> QED BY <2>1, AgreementStep
  <1>2. CASE FinishTask(p)
    <2>1. Busy(p) /\ run[p].pc = "recorded"
      BY <1>2, FinishWrites DEF Busy
    <2>2. ASSUME NEW j \in Jobs, job'[j].status = "completed"
          PROVE  /\ job'[j].deployment # 0
                 /\ dep'[job'[j].deployment].status = "success"
                 /\ promo'[job'[j].promotion].status = "completed"
      <3>1. CASE j = run[p].job
        <4>1. /\ job'[j].promotion = p /\ job'[j].deployment = run[p].deployment
              /\ run[p].outcome = "completed" /\ UNCHANGED <<promo, dep>>
          BY <1>2, <2>2, <3>1, FinishWrites
        <4>2. promo[p].status = "completed" /\ dep[run[p].deployment].status = "success"
          BY <2>1, <4>1 DEF RecordedInv, DeploymentResult
        <4> QED BY <2>1, <4>1, <4>2, TaskOwns DEF Deployments
      <3>2. CASE j # run[p].job
        BY <1>2, <2>2, <3>2, FinishWrites, CompletedLinks, CompletedTask DEF Deployments
      <3> QED BY <3>1, <3>2
    <2> QED BY <2>2 DEF CompletedJobAgrees
  <1>3. ASSUME NEW recorded \in BOOLEAN, NEW written \in SUBSET {"job", "promotion", "deployment"},
               TaskFails(p, recorded, written)
        PROVE  CompletedJobAgrees'
    <2>1. Busy(p)
      BY <1>3, FailWrites
    <2>2. AgreementKept
      BY <1>3, <2>1, FailWrites, CompletedTask, CompletedLinks, CompletedApart DEF AgreementKept
    <2> QED BY <2>2, AgreementStep
  <1>4. CASE UNCHANGED <<promo, dep>> /\ NoCompletion
    BY <1>4, EndsKept DEF SuccessStays, CompletedStays
  <1> QED BY <1>1, <1>2, <1>3, <1>4, TaskGoesOn

\* cancel_job and the clean-up complete no job and report no success.
LEMMA JobStepResults ==
  ASSUME WorkInv, NEW j \in Jobs, JobStep(j)
  PROVE  NoSuccess /\ NoCompletion
  <1>0. dep \in DeploymentTable /\ job \in JobTable
    BY DEF WorkInv, TypeOK
  <1>1. NoCompletion
    BY <1>0 DEF JobStep, CancelJob, CleanupRunning, CleanupPending, SetJob, JobTable, NoCompletion
  <1>2. NoSuccess
    BY <1>0 DEF JobStep, CancelJob, CleanupRunning, CleanupPending, DeploymentTable, NoSuccess
  <1> QED BY <1>1, <1>2

\* The clean-up fails deployments of jobs that are not completed.
LEMMA JobStepAgrees ==
  ASSUME WorkInv, AgreeInv, NEW j \in Jobs, JobStep(j)
  PROVE  CompletedJobAgrees'
  <1>0. dep \in DeploymentTable /\ job \in JobTable /\ UNCHANGED promo
    BY DEF WorkInv, TypeOK, JobStep, CancelJob, CleanupRunning, CleanupPending
  <1>1. CASE UNCHANGED dep
    BY <1>0, <1>1, JobStepResults, EndsKept DEF SuccessStays, CompletedStays
  <1>2. CASE CleanupRunning(j)
    <2>1. \A d \in Deployments \ {job[j].deployment} : dep'[d] = dep[d]
      BY <1>0, <1>2 DEF CleanupRunning, DeploymentTable
    <2>2. ASSUME NEW k \in Jobs, job[k].status = "completed"
          PROVE  job[k].deployment # job[j].deployment
      <3>1. /\ job[j].promotion \in Promotions
            /\ job[j].deployment # 0
            /\ run[job[j].promotion].job = j
            /\ run[job[j].promotion].deployment = job[j].deployment
        BY <1>0, <1>2 DEF CleanupRunning, JobTable, WorkInv, JobsInv, JobOK
      <3>2. dep[job[j].deployment].workflowsOf = job[j].promotion
        BY <3>1 DEF WorkInv, TasksInv, TaskOK
      <3>3. job[k].status # job[j].status
        BY <1>2, <2>2 DEF CleanupRunning
      <3> QED BY <2>2, <3>1, <3>2, <3>3, CompletedTask
    <2>3. AgreementKept
      BY <1>0, <2>1, <2>2, JobStepResults, CompletedTask, CompletedLinks
         DEF AgreementKept, NoCompletion
    <2> QED BY <2>3, AgreementStep
  <1> QED BY <1>1, <1>2 DEF JobStep, CancelJob, CleanupPending

-----------------------------------------------------------------------------
(* The theorems.                                                           *)

LEMMA NextEarned == WorkInv /\ EarnedInv /\ [Next]_vars => EarnedInv'
  <1> SUFFICES ASSUME WorkInv, EarnedInv, [Next]_vars PROVE EarnedInv'
    OBVIOUS
  <1>1. UNCHANGED <<dep, job>> => NoSuccess /\ NoCompletion
    BY DEF NoSuccess, NoCompletion
  <1>2. ASSUME NEW d \in Deployments, DeploymentStep(d) PROVE EarnedInv'
    BY <1>2, DeploymentStepResults, EarnedKept DEF NoCompletion
  <1> QED
    BY <1>1, <1>2, NothingEarned, RequestResults, TaskStepEarned, JobStepResults
       DEF Next, Crash, vars

\* A task records its result in one go, and until the job has it too nobody else
\* runs: two tasks have different promotions and deployments.
LEMMA NextRecorded == WorkInv /\ RecordedInv /\ [Next]_vars => RecordedInv'
  <1> SUFFICES ASSUME WorkInv, RecordedInv, [Next]_vars PROVE RecordedInv'
    OBVIOUS
  <1>0. run \in TaskTable
    BY DEF WorkInv, TypeOK
  <1>1. CASE UNCHANGED vars
    BY <1>1 DEF vars, RecordedInv, DeploymentResult
  <1>2. ASSUME \A q \in Promotions : run'[q].pc # "recorded" PROVE RecordedInv'
    BY <1>2 DEF RecordedInv
  <1>3. ASSUME Undivided, UNCHANGED run PROVE RecordedInv'
    BY <1>2, <1>3 DEF Undivided
  <1>4. ASSUME NEW p \in Promotions, Undivided, Request(p) PROVE RecordedInv'
    <2>1. \A q \in Promotions : run'[q].pc # "recorded"
      <3>1. ASSUME NEW row, row.pc # "recorded", run' = [run EXCEPT ![p] = row]
            PROVE  \A q \in Promotions : run'[q].pc # "recorded"
        BY <1>0, <1>4, <3>1 DEF Undivided, TaskTable
      <3>2. \/ UNCHANGED run
            \/ \E d \in Deployments, j \in Jobs :
                  run' = [run EXCEPT ![p] = [NoRun EXCEPT !.pc = "queued", !.job = j,
                                                          !.deployment = d]]
            \/ run' = [run EXCEPT ![p] = [NoRun EXCEPT !.pc = "approving"]]
        BY <1>4 DEF Request, Initiate, ExecuteNow, ExecuteScheduled, ExecuteAborted,
                    ExecuteLookupFails, Approve, ApproveAborted, Reject
      <3> QED BY <1>4, <3>1, <3>2 DEF Undivided, NoRun
    <2> QED BY <1>2, <2>1
  <1>5. ASSUME NEW d \in Deployments, DeploymentStep(d) PROVE UNCHANGED run
    BY <1>5 DEF DeploymentStep, Rerun, RerunAborted, SchedulerFindsNone, SchedulerStarts,
                SchedulerAborted, CancelScheduled, Delete, StaleDeployment, RepairFromJob
  <1>6. ASSUME NEW j \in Jobs, JobStep(j) PROVE UNCHANGED run
    BY <1>6 DEF JobStep, CancelJob, CleanupRunning, CleanupPending
  <1>7. CASE Crash
    BY <1>0, <1>2, <1>7 DEF Crash, TaskTable
  <1>8. ASSUME NEW p \in Promotions, Goes(p), TaskStep(p) PROVE RecordedInv'
    <2>1. CASE RecordResult(p)
      <3>1. \A q \in Promotions \ {p} : run'[q].pc # "recorded"
        BY <1>8, <2>1, RecordWrites DEF Goes, Undivided, RecordResult
      <3>2. promo'[p].status = run'[p].outcome
            /\ dep'[run'[p].deployment].status = DeploymentResult(p)'
        BY <2>1, RecordWrites DEF DeploymentResult
      <3> QED BY <3>1, <3>2 DEF RecordedInv
    <2>2. CASE FinishTask(p)
      BY <2>2, FinishWrites DEF RecordedInv, Busy, DeploymentResult
    <2>3. ASSUME NEW recorded \in BOOLEAN,
                 NEW written \in SUBSET {"job", "promotion", "deployment"},
                 TaskFails(p, recorded, written)
          PROVE  RecordedInv'
      <3>1. ASSUME NEW q \in Promotions \ {p}, run'[q].pc = "recorded"
            PROVE  /\ promo'[q].status = run'[q].outcome
                   /\ dep'[run'[q].deployment].status = DeploymentResult(q)'
        <4>1. /\ run'[q] = run[q] /\ promo'[q] = promo[q]
              /\ run[q].pc = "recorded" /\ Busy(q) /\ Busy(p)
          BY <2>3, <3>1, FailWrites DEF Busy
        <4>2. run[q].deployment \in Deployments \ {run[p].deployment}
          BY <4>1, TaskOwns
        <4>3. dep'[run[q].deployment] = dep[run[q].deployment]
          BY <2>3, <4>2, FailWrites
        <4> QED BY <4>1, <4>3 DEF RecordedInv, DeploymentResult
      <3>2. run'[p].pc # "recorded"
        BY <2>3, FailWrites
      <3> QED BY <3>1, <3>2 DEF RecordedInv
    <2>4. ASSUME \/ ApproveReturns(p)
                 \/ StartTask(p)
                 \/ SnapshotTaken(p)
                 \/ \E result \in {"completed", "failed"} : WorkflowsExecuted(p, result)
          PROVE  RecordedInv'
      <3>1. Undivided
        BY <1>8, <2>4 DEF Goes, ApproveReturns, StartTask, SnapshotTaken, WorkflowsExecuted
      <3>2. \A q \in Promotions : run'[q].pc # "recorded"
        BY <1>0, <2>4, <3>1 DEF ApproveReturns, StartTask, SnapshotTaken, WorkflowsExecuted,
                                Undivided, TaskTable
      <3> QED BY <1>2, <3>2
    <2> QED BY <1>8, <2>1, <2>2, <2>3, <2>4 DEF TaskStep
  <1> QED BY <1>1, <1>3, <1>4, <1>5, <1>6, <1>7, <1>8 DEF Next

LEMMA RecordedInvariant == Spec => []RecordedInv
  <1>1. Init => RecordedInv
    BY DEF Init, NoRun, RecordedInv
  <1> QED BY <1>1, NextRecorded, WorkInvariant, PTL DEF Spec

LEMMA NextAgrees ==
  "lookup" \notin Faults /\ WorkInv /\ EarnedInv /\ RecordedInv /\ AgreeInv /\ [Next]_vars
      => AgreeInv'
  <1> SUFFICES ASSUME "lookup" \notin Faults, WorkInv, EarnedInv, RecordedInv, AgreeInv,
                      [Next]_vars
               PROVE  CompletedJobAgrees'
    BY NextLock DEF AgreeInv
  <1>1. UNCHANGED <<promo, dep, job>> => NoCompletion /\ SuccessStays /\ CompletedStays
    BY DEF NoCompletion, SuccessStays, CompletedStays
  <1> QED
    BY <1>1, EndsKept, RequestResults, DeploymentStepResults, TaskStepAgrees, JobStepAgrees
       DEF Next, Crash, vars

LEMMA EarnedInvariant == Spec => []EarnedInv
  <1>1. Init => EarnedInv
    BY DEF Init, EarnedInv, SuccessIsEarned, CompletedIsEarned
  <1> QED BY <1>1, NextEarned, WorkInvariant, PTL DEF Spec

\* No deployment is reported successful unless its own task was: not by the
\* repair of get_deployment, not after a crash, a rerun or a failed write, and not
\* when a promotion at work was marked failed meanwhile.
THEOREM SuccessEarned == Spec => []SuccessIsEarned
  <1>1. EarnedInv => SuccessIsEarned
    BY DEF EarnedInv
  <1> QED BY <1>1, EarnedInvariant, PTL

\* A completed job has a successful deployment and a completed promotion, and
\* no clean-up, poll, cancellation or other task changes that.
THEOREM CompletedAgrees == "lookup" \notin Faults => (Spec => []CompletedJobAgrees)
  <1> SUFFICES ASSUME "lookup" \notin Faults PROVE Spec => []CompletedJobAgrees
    OBVIOUS
  <1>1. Init => CompletedJobAgrees
    BY DEF Init, CompletedJobAgrees
  <1>2. WorkInv /\ EarnedInv /\ RecordedInv /\ LockInv /\ CompletedJobAgrees /\ [Next]_vars
            => CompletedJobAgrees'
    BY NextAgrees DEF AgreeInv
  <1> QED
    BY <1>1, <1>2, WorkInvariant, EarnedInvariant, RecordedInvariant, LockInvariant, PTL DEF Spec

\* What a promotion ended with is never rewritten by anybody else: only its own
\* task, when the job cannot be given the result, fails what it has just recorded.
THEOREM EndIsFinal == "lookup" \notin Faults => (Spec => EndedStaysEnded)
  <1> SUFFICES ASSUME "lookup" \notin Faults PROVE Spec => EndedStaysEnded
    OBVIOUS
  <1> DEFINE Final == \A p \in Promotions :
                        promo[p].status \in Ended /\ promo'[p].status # promo[p].status =>
                            /\ run[p].pc = "recorded"
                            /\ promo[p].status = run[p].outcome
                            /\ promo'[p].status = "failed"
  <1>1. ASSUME WorkInv, LockInv, RecordedInv, [Next]_vars PROVE [Final]_vars
    <2>0. promo \in PromotionTable
      BY <1>1 DEF WorkInv, TypeOK
    <2> USE DEF Ended
    <2>1. ASSUME NEW p \in Promotions, promo[p].status \notin Ended, OnlyRow(p) PROVE Final
      BY <2>1 DEF OnlyRow
    <2>2. UNCHANGED promo => Final
      OBVIOUS
    <2>3. ASSUME NEW p \in Promotions, Request(p) PROVE Final
      <3>1. promo[p].status \notin Ended
        <4>1. \/ promo[p].status \in {"none", "pending_approval"}
              \/ Executable(p)
              \/ "lookup" \in Faults
          BY <2>3 DEF Request, Initiate, NewPromotion, ExecuteNow, ExecuteScheduled,
                      ExecuteAborted, ExecuteLookupFails, Approve, ApproveAborted, Reject
        <4> QED BY <4>1 DEF Executable
      <3>2. OnlyRow(p)
        BY <2>0, <2>3 DEF Request, Initiate, ExecuteNow, ExecuteScheduled, ExecuteAborted,
                          ExecuteLookupFails, Approve, ApproveAborted, Reject, SetPromotion,
                          PromotionTable, OnlyRow
      <3> QED BY <2>1, <3>1, <3>2
    <2>4. ASSUME NEW p \in Promotions, TaskStep(p) PROVE Final
      <3>1. OnlyRow(p)
        BY <2>0, <2>4 DEF TaskStep, ApproveReturns, StartTask, SnapshotTaken, WorkflowsExecuted,
                          RecordResult, FinishTask, TaskFails, SetPromotion, PromotionTable,
                          OnlyRow
      <3>2. CASE Working(p)
        <4>1. promo[p].status \notin Ended
          BY <1>1, <3>2 DEF LockInv, WorkingHoldsLock
        <4> QED BY <2>1, <3>1, <4>1
      <3>3. CASE run[p].pc = "recorded"
        <4>1. \/ FinishTask(p)
              \/ \E recorded \in BOOLEAN, written \in SUBSET {"job", "promotion", "deployment"} :
                    TaskFails(p, recorded, written)
          BY <2>4, <3>3 DEF TaskStep, ApproveReturns, StartTask, SnapshotTaken,
                            WorkflowsExecuted, RecordResult
        <4>2. promo'[p].status \in {promo[p].status, "failed"}
          <5>1. CASE FinishTask(p)
            BY <5>1 DEF FinishTask
          <5>2. ASSUME NEW recorded \in BOOLEAN,
                       NEW written \in SUBSET {"job", "promotion", "deployment"},
                       TaskFails(p, recorded, written)
                PROVE  UNCHANGED promo \/ SetPromotion(p, "failed")
            BY <5>2 DEF TaskFails
          <5> QED BY <2>0, <4>1, <5>1, <5>2 DEF SetPromotion, PromotionTable
        <4>3. promo[p].status = run[p].outcome
          BY <1>1, <3>3 DEF RecordedInv
        <4> QED BY <3>1, <3>3, <4>2, <4>3 DEF OnlyRow
      <3>4. CASE ~Busy(p)
        BY <2>2, <2>4, <3>4 DEF TaskStep, ApproveReturns, StartTask, SnapshotTaken,
                                WorkflowsExecuted, RecordResult, FinishTask, TaskFails, Busy,
                                Working, BackgroundPcs
      <3> QED BY <3>2, <3>3, <3>4 DEF Busy
    <2>5. ASSUME NEW d \in Deployments, DeploymentStep(d) PROVE Final
      <3>1. \/ UNCHANGED promo
            \/ \E p \in Promotions : promo[p].status \notin Ended /\ OnlyRow(p)
        BY <2>0, <2>5
           DEF DeploymentStep, Rerun, RerunAborted, NewPromotion, SchedulerFindsNone,
               SchedulerStarts, SchedulerAborted, SchedulerReady, CancelScheduled, Delete,
               StaleDeployment, RepairFromJob, Latest, Candidates, SetPromotion,
               PromotionTable, OnlyRow
      <3> QED BY <2>1, <2>2, <3>1
    <2>6. ASSUME NEW j \in Jobs, JobStep(j) PROVE UNCHANGED promo
      BY <2>6 DEF JobStep, CancelJob, CleanupRunning, CleanupPending
    <2> QED BY <1>1, <2>2, <2>3, <2>4, <2>5, <2>6 DEF Next, Crash, vars
  <1> QED BY <1>1, WorkInvariant, LockInvariant, RecordedInvariant, PTL DEF Spec, EndedStaysEnded
=============================================================================
