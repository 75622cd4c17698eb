# A formal model of n8n-ops

n8n-ops (WorkflowOps) manages n8n workflows across environments: it promotes
workflows from one n8n instance to another through pipelines, keeps a Git
repository in step with the instances, detects drift, and enforces plans,
limits and retention.  This directory holds TLA+ modules that model its backend
(`app-back/app`), TLC configurations that check them on small instances, and
proofs that TLAPS checks.

`PROJECT.json` lists every component, run, property, mutant, theorem, hazard
and finding, and maps each definition to the source lines it models.
Paths below are relative to `app-back/app`.

Contents: [how the program runs](#how-the-program-runs-and-what-that-means-for-a-step) ·
[inventory](#inventory) · [modules](#modules) · [runs](#runs) ·
[bounds](#bounds) · [fairness](#fairness) · [proofs](#proofs) ·
[departures](#departures) · [not modelled](#not-modelled) · [plan](#plan)

## How the program runs, and what that means for a step

The backend is one uvicorn process with one asyncio event loop
(`scripts/start_with_migrations.py`, `main.py:641-643`).  Its database client is
the *synchronous* supabase client (`services/database.py:2,16`), so
`await db_service.x()` never suspends: a handler runs without interruption from
one call that really suspends (an `httpx` call to n8n, `asyncio.sleep`,
`asyncio.gather`, a queue) to the next.  GitHub is called through PyGithub, which
blocks too.  An action of the models is therefore one such segment, and two
requests interleave only at these calls.  What the event loop does not give is
atomicity under failure: each database call is a statement of its own, any of
them may raise, and the process may die between two of them.

## Inventory

| Component | State it keeps | Operations | What is hard | What makes it correct |
|---|---|---|---|---|
| Promotions (`api/endpoints/promotions.py`) | `promotions` rows; background tasks in the process | initiate, approve, reject, execute now or at a time, the task itself | a task is suspended three times while requests go on; each of its result writes may fail | one task per environment; work only after approval; a result is earned and final |
| Deployments (`api/endpoints/deployments.py`) | `deployments`, `deployment_workflows` | rerun, cancel, delete, list and get (both *repair* rows) | a read writes: `get_deployment` guesses the job of a deployment | success is reported only for work that succeeded |
| Deployment scheduler (`services/deployment_scheduler.py`) | none, polls every 30 s | start a due deployment | guesses the promotion from the stage | starts only what may start |
| Promotion lock (`services/promotion_lock_service.py`) | none: the lock is the status column | check | read-then-write, and whoever writes the status unlocks | see promotions |
| Background jobs (`services/background_job_service.py`) | `background_jobs` rows | create, status and progress writes, cancel, stale clean-up | tasks never read the row: cancel and clean-up race with their writes | row and work agree; a row ends |
| Promotion execution (`services/promotion_service.py`) | the target n8n instance, Git | snapshot, compare, write each workflow, roll back | calls fail, answers are lost, users edit at the same time, retries | all or nothing; a rollback restores; no duplicates |
| Environment sync jobs (`services/sync_orchestrator_service.py`, `canonical_sync_scheduler.py`) | `background_jobs` rows under a partial unique index | request, list-triggered request, scheduled sync, batches | three sources of syncs; cancelled rows revived by their tasks | one sync per environment; no row blocks it for ever |
| Canonical mapping (`canonical_env_sync_service.py`, `canonical_repo_sync_service.py`, `_commit_dev_workflows_to_git` in `api/endpoints/canonical_workflows.py`) | `workflow_env_map`, `canonical_workflows`, `canonical_workflow_git_state`, the files in Git | list, fetch, match and mark; back up to Git; ingest from Git; archive, delete | syncs of one environment overlap and write what they fetched earlier; a lookup that raises counts as "no row"; file and hash are two writes | rows end up agreeing with n8n; a workflow keeps its canonical; a backup is complete |
| Drift incidents, approvals, gate (`drift_incident_service.py`, `gated_action_service.py`, `drift_policy_enforcement.py`, `drift_scheduler.py`) | `drift_incidents`, `drift_approvals`, pointer in `environments` | detect, acknowledge, stabilize, reconcile, close, approve, expire | pointer and incident are two writes; errors are read as "none"; the checker works off an old list | one active incident per environment; gated steps rest on an approval; closed is final; the gate closes when it must |
| Git promotions (`git_promotion_service.py`, `git_snapshot_service.py`, `onboarding_service.py`) | `deployments` rows, snapshots and pointers in Git | initiate, approve, reject, execute, roll back, back up, onboard | a snapshot is several commits; each status write may be lost; decisions meet running deployments | the pointer names what was deployed; what is deployed was committed and approved; one baseline per environment |
| Bulk operations (`bulk_workflow_service.py`) | one job row | per-item loop | completes whatever the row says | counts agree with the items |
| Downgrade (`downgrade_service.py`) | `downgrade_grace_periods` | start, cancel, enforce | the action and its mark are two writes | enforced once, never after a cancellation |
| Retention (`retention_enforcement_service.py`) | deletes from `executions`, `snapshots`, `deployments`, `background_jobs` … | batched delete | the list of what to keep is read first | keeps the newest and a minimum |
| Server-sent events (`sse_pubsub_service.py`, `api/endpoints/sse.py`, `app-front/src/lib/use-*-sse.ts`) | a bounded queue per subscription; the cache and the connection of each page | publish, subscribe, snapshot, forward, merge, reconnect | a full queue drops its oldest event; snapshot and subscription are two steps; connections break | a page learns the last word about its rows, never goes back, and sees no other tenant |
| Rate limiter (`rate_limiter.py`) | deques in memory | check, record | the boundary of the window | never more than the limit in a window |
| Webhook lock (`webhook_lock_service.py`) | PostgreSQL advisory lock | acquire, release, around each Stripe event handler of `billing.py` | session locks through a pool; each kind of event has its own key | exclusion of the handlers of one tenant |
| Plans, entitlements, billing | `tenant` and plan rows | limits, Stripe events | order and repetition of webhooks | the plan follows the subscription |

The rest (authentication, tenancy, observability, administration, audit,
analysis of workflow text, adapters, the front end) is listed in
`PROJECT.json` with the reason why it is left out.

### How they interact

```
 users ──HTTP──► promotions ─┬─ creates ─► promotion, deployment, job rows
                deployments ─┤                 ▲   ▲   ▲
        scheduler (30 s) ────┘                 │   │   └─ cancel, stale clean-up (300 s)
                                               │   └───── get/list repair, start-up
   background task ── 3 suspensions ───────────┘
        └─ execute_promotion ── httpx ──► target n8n    (snapshot ──► Git)
                                             ▲
 users ──HTTP──► sync orchestrator ─► job ─► task ── batches ──┘
        sync scheduler ──────────────► job ─┘ (in its own loop)
              a batch: n8n ──► workflow_env_map ◄──► Git (backup, repository sync)

 drift scheduler, users ──► incidents, approvals ──► gate before promotions
 Git promotions, onboarding ──► snapshots, pointers in Git ──► target n8n
 every writer of a deployment or job row ──► pub/sub queues ──► streams ──► pages
```

Everything meets in three tables (`promotions`, `deployments`,
`background_jobs`).  No component holds a lock in memory: exclusion between
promotions is a status column that a request reads before it writes, exclusion
between sync jobs is a partial unique index, and Git promotions exclude nobody.
The syncs that do not go through a job (backups, deletions, restores, onboarding)
are excluded by nothing: `CanonicalMap` lets them overlap.

## Modules

| Module | Models | Uses |
|---|---|---|
| `Promotion` | the life cycle of promotions, deployments, jobs and tasks, with the scheduler, the repairs and the clean-up | `ExclusiveExecution` |
| `PromotionExecution` | one execution against the target n8n instance: snapshot, loop, rollback | `AtomicPromotion` |
| `AtomicPromotion` | what the documentation of `execute_promotion` promises (`promotion_service.py:16-18,1879-1884`) | |
| `EnvironmentSync` | sync jobs, their tasks, the scheduler and the unique index | `ExclusiveExecution` |
| `ExclusiveExecution` | what two different locks are for: one piece of work at a time in an environment, none carried out twice | |
| `CanonicalMap` | one environment's workflows, their rows, and their files in Git, under overlapping syncs, backups and users | |
| `DriftIncident` | incidents, their pointer and deadline, approvals, both drift schedulers, the gate before promotions | |
| `GitPromotion` | Git snapshots and pointers, promotions, rollbacks and backups by them, onboarding | `DecidedOperations` |
| `DecidedOperations` | what decisions are for: an operation is carried out once, as decided, and never after a rejection that its row recorded while it waited; an environment has what such an operation or a look at it gave it | |
| `LiveUpdates` | writes of rows, pub/sub queues, streams, and the pages that read them | `MonotoneReplicas` |
| `MonotoneReplicas` | what a live page is: a replica that lags behind the rows it may show, and forgets nothing | |
| `MC…` | the constants of the TLC instances | the module they are named after |
| `…Proofs` | theorems, and the lemmas they rest on; those of `Promotion` are in `PromotionProofs` and `PromotionResultProofs` | the module they are named after |

Every module with failures has a constant `Faults`, the set of failures an
instance exhibits.  A run, or a theorem, says with it what it assumes away.
An operator under a comment "Mutant: …" is the mutated form of the definition
that follows it: a plausible bug with which the property named in
`PROJECT.json` must fail.  It is used by no specification.

### `Promotion`

| Variable | Code |
|---|---|
| `promo` | rows of `promotions`: status, stage (pipeline, source and target together) and, as history, whether somebody approved it |
| `dep` | rows of `deployments`: status, stage, `deleted_at`, and of which promotion its `deployment_workflows` are |
| `job` | `background_jobs` rows of type `promotion_execute`: status, `resource_id`, the deployment in `result` |
| `run` | the task of a promotion in this process: where it is suspended, the ids it was called with, what `execute_promotion` returned |

`run[p].pc` follows `_execute_promotion_background`: `queued` (added to the
response), `snapshot` (suspended in the pre-promotion snapshot), `executing`
(in the loop over workflows), `post` (in the snapshot after it), and `approving`
for the approval handler.  In `recorded` it is not suspended: deployment and promotion
have the result and the job has not, and nobody else runs in between (`Goes`), but the
process may die there, and the job's write may raise.  `ExecuteNow`, `ExecuteScheduled` and `ExecuteAborted`
are the three ways `execute_deployment` ends; the last has a parameter that says
how many writes took effect before one raised.  `Approve`/`ApproveReturns` and
`Rerun` keep what the code does when a call lacks a required argument: it
raises, and the `except` block decides what remains.

### `PromotionExecution`

State of the target (`target`: the workflow that has the source's id; `copies`:
workflows created under fresh ids), of Git (`git`, `commit`), of the local
variables of `execute_promotion` (`next`, `promoted`, `skipped`, `failed`) and
of `rollback_promotion` (`restored`, `unrestored`, `attempt`).  A workflow's
content is one of five values, all that its comparisons tell apart; the
normalising hash (`promotion_service.py:90-161`) is equality of contents.
`"hidden"` is what equality misses: the check hashes before credentials are
renamed, and reads one page of workflows (`n8n_client.py:17-27`).
`Promotion` sees an execution as the single action `WorkflowsExecuted`, with
either result; that one execution at a time is enough here is `Promotion`'s
theorem `MutualExclusion`.  Two simplifications: a failed rewriting of
credentials is recorded and the workflow written all the same, which is left
out; and what the drift and policy gates answer is nondeterministic.

### `EnvironmentSync`

`status` and `full` are the row (its progress only matters at 100 %), `task` the
code at work on it, `scheduled` and `current` the scheduler's rows and its local
variable `job`, which survives from one environment of its loop to the next.
`AdmitsActive` is the partial unique index
(`alembic/versions/20260112_add_sync_job_unique_constraint.py`), and applies to
updates as well as inserts.  The read in `get_active_sync_job`, whose errors are
swallowed, is subsumed: where it finds nothing the insert meets the index.  The
scheduler runs only with `SYNC_SCHEDULER_ENABLED=true`
(`canonical_sync_scheduler.py:294`); the repository scheduler has the same shape
and is not modelled separately.  What a batch does to each workflow is the
subject of `CanonicalMap`, for which a sync that a job carries out is one of several.

### `CanonicalMap`

| Variable | Code |
|---|---|
| `flow` | the workflows in n8n: content (what `compute_workflow_hash` tells apart) and `updatedAt` |
| `row` | rows of `workflow_env_map` by `n8n_workflow_id`: `status`, `canonical_id`, `env_content_hash` with `workflow_data`, `n8n_updated_at` |
| `held` | the canonicals of rows marked deleted, whose `n8n_workflow_id` is null and which the unique index still counts |
| `canonicals`, `gitState`, `file` | `canonical_workflows`, `git_content_hash`, and the files of the environment's folder |
| `deleting` | deletions between their call to n8n and `delete_workflow_from_cache` |
| `sync` | the local variables of each `sync_environment`, and of the backup that follows it |
| `loop` | which sync has the event loop: from the last fetch of a batch to the next fetch nothing suspends |
| `misread`, `clock` | history: rows that a lookup missed; the bound on events, which is also n8n's clock |

`pc` follows the code: `listing` and `fetching` (each suspended in a call of n8n),
`processing` (`_process_workflow_batch`), `marking`
(`_mark_missing_workflows_missing`), `planning` and `committing`
(`_commit_dev_workflows_to_git`, which calls Git by a blocking client).  `result`
is history: whether a failure was met, which the code only logs.  The actions
`InsertLinked`, `InsertRefused` and `InsertUnmapped` are what becomes of a workflow
without a row: auto-link by hash, an auto-link that the unique index refuses, a
new unmapped row.  A commit and its hash are one action when both succeed
(nothing can come between), and `CommitFails` when the second does not.

### `DriftIncident`

`status`, `expires` and `pointer` are the incident's row and
`active_drift_incident_id`; `approval` the rows of `drift_approvals`; `listed` the
expired incidents that the checker read and has not handled yet, which is the
only place where a handler suspends.  `Insert` and `SetClosed` end with `Point`,
the handler's second statement, which sets or clears the pointer and may
fail (`torn` remembers it).  `excuse` remembers when a step was let through by an
administrator, by an unread policy or by an unread incident.  The gate is the
action by which a promotion is let through or refused; `Promotion` has it as a
nondeterministic answer.  The policy is a constant.

### `GitPromotion`

`git` maps a snapshot id to its folder, kind and the files that were committed (a
torn snapshot has some), `pointer` is `current.json` of each environment, `record` the
status in `deployments`, `task` the work on an operation and where it is suspended
(`export`, `onboard`, `deploy`, `verify`), `onboarding` the holder of an environment's
onboarding lock (an entry of `_onboarding_locks`; who finds one gives up at once)
and its export, `answer` what the request was told.  `written`, `movers`, `baselines`,
`runs`, `approved` and `refused` are history.  Contents are abstracted to which
workflows were written: what the verification compares has no consequence in the
code but a log line.

### `LiveUpdates`

`row` is the version of each stored row, `said` the newest version that was
published, `stream` the requests being served with their queue, and `scope`,
`source`, `status`, `attempts`, `view` the page: its scope, its `EventSource`, the state of
its hook, `reconnectAttemptRef`, and its cache.  A write and its announcement are
one action, as publishing never suspends; `"silent"` writers announce nothing,
and `"emit"` stops between the two events of an upsert.  A stream is `requested`,
`accepted` (the detail endpoint has read its snapshot), `subscribed`, `streaming`.
The backend and the page are composed by the queue and the connection only.

## Runs

| Run | Faults | What it shows |
|---|---|---|
| `promotion_faults` | any database write may raise (`db`), the process may die (`crash`) | Two background tasks never work on one environment; a task at work holds the lock; nothing behind an approval is changed before it; a completed job agrees with its deployment and promotion; nobody rewrites an ended promotion but its own task, whose last write failed; promotions are carried out as in `ExclusiveExecution` |
| `promotion_transient` | the first read of `execute_deployment` may raise (`lookup`) | What survives the departure of `promotion_lookup`: success is reported only for an execution that returned COMPLETED; every started task ends its promotion |
| `promotion_lookup` (violation) | `lookup` | One task per environment does not survive it |
| `execution_faults` | all eleven | COMPLETED is reported only when each workflow that no user touched meanwhile is in the target |
| `execution_retries` | failing calls, lost answers, missing commits, failing restores, differing ids, edits | What a rollback reports as restored has its content from before; a new workflow is created once over two executions |
| `execution_atomic` | failing writes, failing checks, copies the check misses | `PromotionExecution` implements `AtomicPromotion`, liveness included, for selections that change existing workflows, hotfixes and conflicts among them |
| `sync_faults` | failing writes, list-triggered jobs, cancellations, slow tasks, crashes | One pending or running sync row per environment, and every such row ends |
| `sync_exclusion` | failing syncs and writes, list-triggered jobs, crashes | One task per environment while nobody cancels and no task outlasts the clean-up, and no job carried out twice (`ExclusiveExecution`) |
| `map_faults` | all nine | The rows end up mirroring n8n (`RowsMirror`), but for edits within one second (`Overlooked`) and workflows that the unique index refuses (`Shadowed`); a workflow keeps its canonical unless a lookup missed its row; a backup that met no failure leaves Git with the content of every linked workflow |
| `drift_faults` | all but an unread policy | One active incident per environment, and a pointer that names an open one; reconciliation rests on another person's approval; a promotion passes the gate only when it may; closed is final; a deadline that passed takes effect |
| `git_faults` | exports, calls, row writes, Git writes, crashes | Pointers name what was deployed or found; instances are written from committed snapshots only; operations are carried out as in `DecidedOperations`, and no other step moves a pointer but the end of an onboarding, to a new snapshot; row, answer and pointer agree; one baseline |
| `live_pages` | silent and torn announcements, broken connections, restarts | Until a queue overflows, the last word about a row is on the page or on its way, the counters even then; no page shows another tenant's row; pages are `MonotoneReplicas`; a connected list page ends up right |

`drift_faults` requires an approval for reconciliation only, so that the other steps
are taken both ways.  An unread policy (`"policy"`) is left to the theorems: with it `GateIsJustified` names
the excuse.  `git_faults` leaves out three failures the theorems say more about:
both writes of an approval lost (`outage`), a pointer written without an answer (`gitlost`), an unreadable
Git (`gitread`); what they do is under [departures](#departures).

`execution_retries` says where its two properties hold: without an incomplete
export (`sync`), an update answered 400 (`reject`) or a copy the check misses
(`hidden`); what happens with them is under [departures](#departures).
`AtomicallyPromoted` maps the target to what it was before the execution until
the execution is over: users who look in the middle see a half-promoted
environment, and the documentation promises nothing about that.

The other refinements map as follows.  `Promotion` and `EnvironmentSync` map to
`ExclusiveExecution` what is at work in an environment, and what was.
`GitPromotion` maps an operation to where it stands (undecided, started, approved,
rejected, finished) with the environment and snapshot its execution began with, and
the pointers to themselves; an operation executed a second time has no image, nor has a
rejected one that is executed.  A look at an environment is an onboarding that
exports; it ends by finding a new snapshot or by giving up, and where there is a pointer
it begins only if Git could not be read (`MaySeem`).  `LiveUpdates` maps rows and views to themselves, and
hides queues, streams and connections.

## Bounds

All bounds are constants of the modules and stand in the `.cfg` files.

- `Promotion`: two promotions, deployments and jobs, two stages into one
  environment, one of the stages behind an approval.  Two promotions of one
  stage, of two stages of one environment, a rerun and the repair by a newer
  promotion's job all occur with two.  A second environment adds only
  promotions that do not interact.  Larger numbers are left to the proofs, which
  have no bound.
- `PromotionExecution`: two to four selections, one or two executions, two or three
  attempts.  Two selections give one that is promoted and one that fails; the
  third and fourth give a rollback of several, in the middle of which one fails.
  `MaxAttempts` is 3 in the code; 2 already has a first and a last attempt.
- `EnvironmentSync`: two rows for one environment, one for another.  Two rows
  are what exclusion needs; the third is for the scheduler's variable, which
  carries a row of one environment into the next.

- `CanonicalMap`: two workflows, one there from the start and one created later;
  two contents, so that a second workflow may have the first's; two canonicals; a
  scheduled sync and a backup, with batches of one, so that the two alternate
  after every workflow (`BATCH_SIZE` is 25).  `MaxEvents` = 2 bounds edits and failures
  together: two events show each pair of them.  `Second` puts both into one second of n8n's
  clock, so that an edit may fall within the second of the last one or not.  The theorems
  have no bound, and any `Second`.
- `DriftIncident`: two incidents of one environment, an approval about the first,
  two users.  A second environment shares nothing with the first.
- `GitPromotion`: an environment of class staging with a baseline, one of class
  production without; two operations, three snapshots (a baseline and one each),
  two workflows, so that a deployment may be partial; symmetric in operations, workflows and
  the two new snapshots.
- `LiveUpdates`: one page of any scope and two streams, the one it reads and the one
  it left; a queue of two (100 in the code), which an upsert's two events fill;
  two writes; two attempts (10 in the code).  Pages do not interact; the
  theorems have any number.

Running out of rows stops the models, hence `CHECK_DEADLOCK FALSE`; the runs of
`LiveUpdates` and `CanonicalMap` do check for deadlock.  The service itself cannot
deadlock: no handler of the modelled parts waits for another one.

## Fairness

- `Promotion!Fairness` is weak fairness of each task's steps: a task waits only
  for HTTP calls, each with a timeout (30 s for n8n), and the event loop runs
  what is ready.  Requests, the scheduler, the clean-up and crashes are not fair:
  nothing obliges anybody to call.
- `PromotionExecution!FairSpec` is weak fairness of the execution as a whole.
- `EnvironmentSync!FairSpec` has weak fairness of each step of a task, of the last
  batch (a sync has finitely many) and of the clean-up, which
  `periodic_job_cleanup` runs every 300 s (`main.py:414-437`).  There is none for
  requests or for `SyncFails`.
- `CanonicalMap!Fairness` is strong fairness of each sync's steps (the event loop
  resumes whoever is answered, however often others had it) and of the scheduler's
  `Begin`, which comes round every 30 minutes (`canonical_sync_scheduler.py:36`) when
  `SYNC_SCHEDULER_ENABLED` is set.  Failures are bounded by `MaxEvents`: it is the
  last sync after them that repairs.
  Without the scheduler nothing repairs a row, and `RowsMirror` is not promised.
- `DriftIncident!FairSpec` has weak fairness of the checker's query, which runs every
  60 s (`drift_scheduler.py`), and strong fairness of its closing each incident it
  listed, since its update may fail in one round and is tried again in the next;
  none for requests.
- `LiveUpdates!FairSpec` has weak fairness of each step by which the event loop
  answers and serves a stream; none for writes, faults, or for what a browser
  does.
- `GitPromotion` states no fairness: nothing resumes an operation that a restart
  interrupted, and no liveness is claimed of it.

## Proofs

Every theorem is about `Spec`, without fairness, and holds for any sets of
stages, environments, workflows, incidents, pages and so on, and any bounds.
Where none is named, it assumes nothing about `Faults`.

**Promotion.**  `TypeCorrect`, `ApprovalFirst`, `LinksCorrect` and `SuccessEarned` need no
assumption.  `MutualExclusion`, `LockVisible`, `ExclusiveOnce`, `CompletedAgrees` and
`EndIsFinal` assume `"lookup" \notin Faults`, that is, that the first read of
`execute_deployment` does not raise; the run `promotion_lookup` shows the assumption is
needed for exclusion.  Crashes and failing writes are allowed.

- `OneTaskPerEnvironment` is not inductive: exclusion rests on what the status
  column says.  `WorkInv` says, under every failure, that everything that can become
  executable is approved, and that task, promotion, job and deployment point at each
  other (`LinksInv`), without which a clean-up of one job could end another's work.
  `ApprovalFirst` and `LinksCorrect` follow; the last states `LinksInv` itself, which no
  run lists.  `LockInv` adds that a task at work has a promotion in `running`
  (`WorkingHoldsLock`), which is what `lookup` breaks; `MutualExclusion` and `LockVisible`
  follow.
- `ExclusiveOnce` is the refinement of `ExclusiveExecution`: each step starts one task in an
  environment nobody works in, ends some, or leaves the tasks alone.
- `EarnedInv` on top of `WorkInv` gives `SuccessEarned`; with `LockInv` and `RecordedInv`
  (while the job's write is still to come, promotion and deployment have the result) it gives
  `CompletedAgrees` and `EndIsFinal`.  The hard step is the repair in `get_deployment`: it reads the newest job of the
  newest promotion of the stage, and the links show that a *completed* job it
  accepts is one whose task got COMPLETED.

**PromotionExecution.**  `TypeCorrect` needs `WritesSelection` (a write belongs to a
selection).  `CompletedIsDelivered` holds under every failure; its invariant
`LoopInv` says that whatever the loop has passed is promoted, skipped or failed, and
that what is promoted or skipped is in the target or was touched by a user.
`NewOnce` assumes that the content check works (`ChecksWork`: neither `read` nor
`hidden`); its `CreateInv` says a create of a new workflow is pending only where
no copy exists, which holds because nothing else creates one between the check
and the create.  `RollbackRestores` assumes that every
export and the provider's connection work.  `RestoresSnapshot` says nothing until a rollback
has restored something; its `SnapshotInv` says that in the meantime the file of each exported workflow
holds what the target had, that only users delete workflows, and that a rollback
creates one only where the target has none.

`AllOrNothing` is the safety part of `AtomicallyPromoted`: under `ExistingOnly` (existing
workflows; writes and checks may fail, snapshot and rollback not) each step of an execution is
a stutter until its report, which is all or nothing.  `AtomicInv` says why: the loop has
changed what it promoted and nothing else, and during a rollback what is not rolled back
yet is all that differs from the snapshot.  `ExecutionsEnd` is what its liveness rests on: each
step of an execution goes to a later stage, or through the loop or the rollback by a
lexicographic measure, whatever fails.

**EnvironmentSync.**  `TypeCorrect` and `OneActive` need no assumption: a task may
revive a cancelled row, and the index still refuses a second active one.
`Exclusion` assumes `RowsAreLeftAlone` (nobody cancels, no task outlasts the
clean-up) and needs `LiveIsActive` (a live task has an active row) and
`CurrentIsScheduled` (the scheduler's leftover variable names a row of its own,
whose work is over when it is failed by mistake).  With
`TaskHasRow` (a task works for a row that exists), `ExclusiveOnce` is the refinement of
`ExclusiveExecution` under the same assumption.

**CanonicalMap.**  `TypeCorrect`, `BackupComplete` and `IdentityKept`, the last two
about steps.  They rest on one invariant, `CoreInv`: the variables have their types
and the rows are coherent (`Sound`); whoever processes, marks or commits has the
event loop (`Exclusive`); what is linked is a known canonical, and two rows never
share one (`Mapped`); and for each sync (`Work`), what a backup is left to commit
agrees with the rows (`Faithful`), what it found linked after marking was listed
(`Marked`), and as long as it met no failure every linked workflow is in Git or still on
its list (`Covered`).  `Covered` is the induction behind `BackupComplete`, and `Exclusive` is
why it holds: no other sync can change a row between two commits.

`Repairs` is the safety part of `RowsMirror`, for any number of overlapping syncs and backups.
It starts from a settled state (every sync at work has read what n8n has now, and one of
them is still to read) and holds while `clock` and `gitState` are undisturbed, that is, while nobody
edits and nothing fails.  When that sync marks, the rows there are agree with n8n
(`Accurate`); a workflow may still lack one, refused by the index for a row that the same
sync marks or brings back.  If the rows were accurate before it began to read, then when it
marks each workflow has its row (`Mirror`).  So it takes two marks, and what either reached lasts.
Excepted are `Overlooked` and `Shadowed` workflows and no others: a row with an older version
of the same second as n8n's, and a workflow without a row for which the auto-link chooses a
canonical that the index refuses.  `DataInv`, which always holds, says that a version in hand (a row, a
listing, a batch) with the date of what n8n has now has its content; `QuietInv` says what the sync
has fetched so far is reflected in the rows.  `SyncsEnd` says that every
step of a sync brings it nearer to its end by a lexicographic measure, so that it comes to
mark unless a failure ends it.  What remains of `RowsMirror` is fairness alone.

**DriftIncident.**  Every step is shown to open, move, close or leave an incident
(`StepKinds`), and each property is then kept by each kind.  `ListedExist` is the
strengthening they need because the checker works off a list; `ApprovedIsGranted`
ties the approvals' rows to the history for `ApprovalFirst`; `GateJustified` follows from it.
All faults are allowed: what a failed read lets through is part of the statements.

**GitPromotion.**  `CoreInv` (types, `WorkInv`, `HoldersInv`): what an operation is to
write or has written is in a committed snapshot of its environment (`PlanOK`);
what it may have written where it is suspended, and with whose approval (`ProgressOK`); whoever holds
an onboarding lock is suspended in that onboarding.  `Committed` and
`PointerDeployed` follow under every failure.  `DecisionsHold` adds `DecisionInv` and
assumes `"outage" \notin Faults`; `OutcomesAgree` adds `OutcomeInv` and assumes neither
`outage` nor `gitlost`; `OneBaseline` adds `BaselinesInv` and assumes `"gitread" \notin Faults`.
`AsDecided` is the refinement of `DecidedOperations`, under the assumption of `DecisionsHold`.  Each of the
sixteen actions is shown to start, approve, reject or finish one operation, to begin or end
a look for a baseline, or to be hidden (`StepDecides`): a pointer is moved by the last step
of an operation, or by the end of a look, and by nothing else.  `CourseInv` adds that an
approval starts its operation; that what a look finds is new rests on
`PointerDeployed` and `CoreInv` (`UnusedIsNew`).
What happens without these assumptions is listed under [departures](#departures).

**LiveUpdates.**  `Coherent`: a page's source is a stream of its own (`SourcesServe`), and
versions grow from page to queue to row (`RowIsNewest`, `GoodQueue`, `GoodSnapshot`).
`Isolated` and `NeverGoesBack` follow.  `LastWord` follows the last event of each row from
the publication to the page.  `CountersSurvive` needs more than it says, `CountersNear`: the newest
counters are as near to the end of the queue as events without counters have
come since, and the end is what an overflow keeps.  `PagesAreReplicas` is the refinement of
`MonotoneReplicas`: it needs `Coherent` before and after a step, from which every news is
newer than what the page shows, stored, and allowed.  `DrainedShows` is the safety part of
`EventuallyShown`: a list page shows the last word once its queue is empty.

**Only model-checked.**  Liveness is beyond these proofs: `WorkEnds`, `BlockedEnds`,
`ExpiredEnds`, `RowsMirror`, `EventuallyShown`, and the liveness part of `AtomicallyPromoted`.
For the last three the safety that their fairness meets is proved
(`Repairs` and `SyncsEnd`, `DrainedShows`, `AllOrNothing` and `ExecutionsEnd`).

## Departures

Where code and documentation disagree, or where the code does what nobody seems
to have intended.  The first has a run and is the finding in `PROJECT.json`; the
models contain the others.

Promotions and sync jobs:

- `api/endpoints/promotions.py:1798`: when reading the promotion raises, the
  `except` block of `execute_deployment` marks it failed whatever its status is,
  which unlocks the environment under a running task (`promotion_lookup`).
- `api/endpoints/promotions.py:1451`: when the job's write raises after the promotion was
  marked completed (`:1436`), the `except` block marks promotion and deployment failed
  (`:1479`) although every workflow was promoted.  `EndedStaysEnded` allows this rewrite
  and no other.
- `api/endpoints/promotions.py:2067`: an approval calls `execute_promotion` without
  `target_pre_snapshot_id`; the promotion stays `running`.
- `services/promotion_service.py:2212`: a refused selection does not stop the others,
  against `:1883`.
- `api/endpoints/workflows.py:209`: the sync job of a listing has no task, against
  `:206`.
- An approval and a rerun set `running` without the lock check
  (`api/endpoints/promotions.py:2040`, `deployments.py:899`), against
  `promotion_lock_service.py:72-73`.  `OneTaskPerEnvironment` holds all the same
  because neither reaches the work: both calls lack an argument.  Repairing
  those calls without adding the check would break it.
- A rerun skips the approval that `deployments.py:711` promises (`:899`).
- The scheduler starts the newest executable promotion of the stage
  (`deployment_scheduler.py:86`), which need not be the deployment's (`:78`).
- A cancelled job is set to running again by its task's next progress write
  (`background_job_service.py:422`), against `:339`.
- A rollback leaves the workflows it created and records an error
  (`promotion_service.py:1804`), against `:250`.
- A changed workflow whose target id differs is created again by each promotion
  (`promotion_service.py:2404`), against `:22`.
- The content check misses a copy whose credentials were renamed, or that is not
  on the first page (`promotion_service.py:2273`), against `:1889`.
- Any answer 400 counts as "not found" (`promotion_service.py:274-281`), so a rollback
  creates a copy instead of restoring (`:1720`), against `:1882`.  That create is
  retried (`:1722`); an attempt whose answer was lost leaves one more.
- A snapshot without a commit only logs a warning (`promotion_service.py:1548`),
  against `:358-359`; one workflow's failed export is skipped (`:483`), against
  `:364-365`.
- A hotfix made after the promotion was created is overwritten: the policy judges
  the change type of that time (`promotion_service.py:2198`), against `:1894-1896`.
- The sync scheduler fails an earlier environment's job when it cannot create the
  next one (`canonical_sync_scheduler.py:214`), against `:212`.
- After a cancellation a second sync runs beside the first
  (`canonical_env_sync_service.py:198`, `background_job_service.py:339`), against
  `canonical_sync_scheduler.py:38`.

Canonical mapping (`services/` unless a path is given):

- The migrations' constraint (`alembic/versions/94a957608da9…`, :26) does not admit the
  status `unmapped` that `canonical_env_sync_service.py` writes; the model supposes the
  deployed database does.
- A workflow whose content Git holds for one that is gone is linked to that one's
  canonical (`canonical_env_sync_service.py:538` looks at rows of other status only),
  and the unique index refuses the row in every later sync, against
  `api/endpoints/canonical_workflows.py:1354` ("There is no unmapped state in DEV
  after sync completes").  `RowsMirror` calls such a workflow `Shadowed`, as long as it
  has no row and the index refuses it, and promises nothing for it.
- Dates are compared after `_normalize_timestamp` cut off their fractions
  (`canonical_env_sync_service.py:80-85`, `:371`): an edit within the second of the version
  that the row shows is skipped by every later sync as "unchanged", until a later edit.
  `RowsMirror` calls the workflow `Overlooked`.
- A lookup that raises counts as "no row": a linked row becomes unmapped, with its
  canonical, and is never committed again, or is linked to another canonical.
  `IdentityStays` excepts the rows in `misread`.
- A row that a refresh inserted is not among those a later backup created, and is
  never given a canonical outside of bootstrap.
- Ignored rows are marked missing and come back linked or unmapped; bootstrap links
  them.  Unarchiving makes a row linked even without a canonical.
- A slow sync overwrites newer rows with what it fetched before, and a backup may
  commit that; the next sync repairs it.  A file whose hash could not be recorded and
  whose workflow is then reverted keeps the abandoned version.
- A backup reports completed even if every commit failed.

Drift incidents:

- A policy that cannot be read opens the gates (`gated_action_service.py:101`,
  `drift_policy_enforcement.py:101`), against the fail-safe and fail-closed
  behaviour their headers promise (`:9` and `:10`).
- A query that fails counts as "no active incident" and a second one is opened.
- Closing an incident clears the environment's pointer even if it names another
  (`drift_incident_service.py:791`, `drift_scheduler.py:400`).
- The checker closes an expired incident within a minute, and with it goes the
  block that `block_deployments_on_expired` promises
  (`drift_policy_enforcement.py:305-317`).
- An approved approval serves again and again (`executed_at` is only counted in reports), and
  acknowledging may set the deadline without the approval an extension needs.
- `api/endpoints/environments.py:1931` passes dictionaries where `drift_incident_service.py:243` calls
  `model_dump()`: the automatic creation after a sync never creates anything.

Git promotions:

- A deployment fails only if nothing at all could be written
  (`git_promotion_service.py:680`), and what the verification finds is only logged
  (`:708-712`), against `:10` ("Pointers updated ONLY after deploy + verify").
- A failed deployment leaves its row at `deploying`; a restart leaves any row as it is.
- Any error of an update leads to a create (`:672`): a lost answer leaves a duplicate.
- A rejection ignores the row's status (`api/endpoints/git_promotions.py:209`) and is
  overwritten by a deployment at work.  One whose write failed is answered with success
  all the same (`:215-223`), and may still be approved, against `:203` ("the deployment
  is not executed"); `OperationsAsDecided` therefore speaks only of rejections that the row
  records.  An approval both of whose writes failed may be given again.
- Nothing excludes two executions on one environment, nor these from `Promotion`'s.
- A Git outage counts as "not onboarded" (`onboarding_service.py:124` ignores the
  reason), and a second onboarding may move the pointer of a deployment in the
  meantime.
- The manifest is written first (`github_service.py:969`), so a torn snapshot can be
  rolled back to; one that is partly readable is deployed in part.
- The check for unmapped workflows lets all pass when it raises (`:1580`), and an unknown
  `environment_class` counts as development, without approval (`:137-141`).

Live updates (`sse_pubsub_service.py`, `api/endpoints/sse.py`):

- `job.status_changed` reaches no scope (`sse_pubsub_service.py:138-156`), though
  `background_job_service.py:366` emits it "to notify clients and workers" and
  `use-background-jobs-sse.ts:355` listens for it.
- The detail stream reads its row before it subscribes (`sse.py:356`, `:368`): a write in
  between is shown only when the next one follows.
- Stale detection, the scheduler, the job clean-up, a rerun and a deletion announce
  nothing; keepalives are never sent (`sse_pubsub_service.py:195-198`); the last event id is
  only logged (`sse.py:257-259`); a bulk operation's progress has no environment
  and reaches no environment's stream.

## Not modelled

Within the modelled parts:

- `Promotion`, `PromotionExecution`: validation before `initiate_deployment`; the scheduler's
  branches for a missing environment or an empty selection; the sidecar files
  and the Git state written after each workflow, which never fail a promotion;
  the records of credentials rewritten; progress texts; edits and deletions by users of a
  copy that an execution created (they edit and delete the workflows that have the
  source's id).
- `CanonicalMap`: listings longer than a page; soft-deleted canonicals; the older
  single-workflow endpoints of `environments.py` (2225-2370, 2640-2810); sidecars, whose
  ingestion (`canonical_repo_sync_service.py:208-224`, `:284-297`) overwrites `canonical_id`,
  hash and status of a row and leaves its date.  Of a folder that has sidecars,
  `IdentityStays` and `RowsMirror` say nothing.
- `DriftIncident`: the parameter `admin_override` of `update_incident`
  (`drift_incident_service.py:289`), which no caller passes; `drift_status`, snapshots and their purge, warnings before
  the expiry, edits of the policy, the refusal to open a likeness of an incident closed
  a short time ago.
- `GitPromotion`: environments that share a folder; how often a workflow was
  written; the endpoints of `deployments.py` on the rows it shares.
- `LiveUpdates`: the 50 rows of a snapshot, React Query's refetches and polling, the
  headers, the retry that a browser makes itself during the back-off.

Components left out because there is nothing yet that a model could be faithful to:

- *Downgrade and grace periods*: the enforcement writes `environments.is_read_only`, which no
  migration creates and no code reads, uses a limit `team_member_limits` that is
  defined nowhere, and for workflows filters on a column that does not exist; and
  a completed checkout never starts it.  An action that succeeded while its mark
  failed is carried out again (`downgrade_service.py:648`).
- *Plans and limits*: a count is read and a row created after it; nothing excludes
  two such requests, and no document says it should.
- *Reconciliation*: differences derived from rows `CanonicalMap` has.  A debounce of 60 s
  drops requests instead of delaying them.

Single-row edits, reports, text analysis, the front end's views and pure I/O are left
out for good.  `PROJECT.json` has each component with its reason.

## Plan

Done, each module with its proofs: `Promotion`, `PromotionExecution` with `AtomicPromotion`,
`EnvironmentSync`, `DriftIncident`, `GitPromotion`, `LiveUpdates`, `CanonicalMap`.  The order
was by what a fault would cost: promotions change production environments, and
everything else reads their rows.

Next, in order, with the promise each has to keep:

1. The billing mirror with the webhook lock: Stripe's events come repeatedly
   and out of order, each kind is locked under a key of its own, and the lock
   belongs to a pooled session.  The plan must follow the subscription.
2. Retention: the newest snapshot, and the minimum, survive a clean-up that
   writers interleave with.
3. Bulk operations: counters against items, and cancellation.
4. The rate limiter's window as a pure algorithm; the escalation of alert rules.

Among the modelled parts: for `EnvironmentSync`, that a task at work under
cancellation still leaves its row ended; `DriftIncident`'s gate in place of the
nondeterministic one of `Promotion`; the safety that `WorkEnds`, `BlockedEnds` and
`ExpiredEnds` rest on, as theorems.
