---------------------------- MODULE GitPromotion ----------------------------
(***************************************************************************)
(* Promotions, rollbacks and backups by Git snapshots                       *)
(* (services/git_promotion_service.py, services/git_snapshot_service.py,    *)
(* api/endpoints/git_promotions.py), and the onboarding of an environment   *)
(* (services/onboarding_service.py).                                        *)
(*                                                                         *)
(* Git is called by a blocking client and the database too, so a handler    *)
(* is suspended only in its calls of n8n: the export of workflows, the      *)
(* update or create of each, and the verification.  What these calls do to  *)
(* a workflow is abstracted to whether it was written.                      *)
(*                                                                         *)
(* Faults:  "export"  workflows cannot be exported: some, or the list       *)
(*          "calls"   an update and the create after it fail, or succeed    *)
(*                    without an answer                                     *)
(*          "db"      a write of a row fails, which is only logged          *)
(*          "outage"  both writes of an approval fail                       *)
(*          "git"     a write to Git fails, between two files perhaps       *)
(*          "gitlost" the pointer is written and the answer lost            *)
(*          "gitread" a read of Git fails, and counts as "there is nothing" *)
(*          "crash"   the process dies while handlers are suspended         *)
(***************************************************************************)
EXTENDS FiniteSets

CONSTANTS
    Environments,  \* those with a Git folder, each its own
    Staging,       \* environment_class "staging"
    Production,    \* environment_class "production"
    Workflows,
    Snapshots,     \* ids that generate_snapshot_id can draw
    Ops,           \* ids of promotions, rollbacks and backups
    None,
    Async,       \* holds an onboarding lock for no operation
    Earlier,       \* the baseline with which an environment starts, or None
    Faults         \* which failures this instance exhibits

ASSUME ClassAssumption ==
    /\ Staging \subseteq Environments
    /\ Production \subseteq Environments
    /\ Staging \cap Production = {}
ASSUME NullAssumption ==
    /\ None \notin Snapshots \cup Ops \cup Environments
    /\ Async \notin Ops \cup {None}
ASSUME EarlierAssumption ==
    /\ Earlier \in [Environments -> Snapshots \cup {None}]
    /\ \A d, e \in Environments : Earlier[d] = Earlier[e] => d = e \/ Earlier[d] = None

VARIABLES
    git,        \* the snapshots in Git: folder, kind, and files present
    pointer,    \* current.json of each environment
    record,     \* status of the row that an operation has in deployments
    task,       \* what an operation works on, and where it is suspended
    onboarding, \* who holds the onboarding lock, and where the export is
    answer,     \* what the request that ran an operation was told
    written,    \* history: the workflows an operation wrote
    movers,     \* history: the operations that moved a pointer
    baselines,  \* history: the snapshots an onboarding pointed to
    runs,       \* history: how often an operation was executed
    approved,   \* history: the operations somebody approved
    refused     \* history: those whose row came to say so while they waited for approval

rows == <<record, answer>>
history == <<written, movers, baselines, runs, approved, refused>>
vars == <<git, pointer, record, task, onboarding, answer, history>>

Kinds == {"promotion", "rollback", "backup"}
Statuses == {"none", "pending_approval", "approved", "deploying", "verifying",
             "updating_pointer", "completed", "failed", "rejected"}
Live == {"export", "onboard", "deploy", "verify"}

Idle == [kind |-> "promotion", env |-> None, snapshot |-> None, pc |-> "none",
         todo |-> {}, sent |-> FALSE, failed |-> FALSE]

Folders == [env : Environments,
            kind : {"onboarding", "promotion", "backup"},
            files : SUBSET Workflows]
\* A model value is no record.
ASSUME FolderAssumption == None \notin Folders

Tasks == [kind : Kinds,
          env : Environments \cup {None},
          snapshot : Snapshots \cup {None},
          pc : {"none", "ended"} \cup Live,
          todo : SUBSET Workflows,
          sent : BOOLEAN,
          failed : BOOLEAN]
Locks == [by : Ops \cup {Async, None}, pc : {"none", "export", "verify"}]

TypeOK ==
    /\ git \in [Snapshots -> Folders \cup {None}]
    /\ pointer \in [Environments -> Snapshots \cup {None}]
    /\ record \in [Ops -> Statuses]
    /\ task \in [Ops -> Tasks]
    /\ onboarding \in [Environments -> Locks]
    /\ answer \in [Ops -> {"none", "pending", "completed", "failed"}]
    /\ written \in [Ops -> SUBSET Workflows]
    /\ movers \subseteq Ops
    /\ baselines \subseteq Snapshots
    /\ runs \in [Ops -> {"never", "once", "again"}]
    /\ approved \subseteq Ops
    /\ refused \subseteq Ops

Nobody == [by |-> None, pc |-> "none"]

Init ==
    /\ git = [s \in Snapshots |->
                 IF \E e \in Environments : Earlier[e] = s
                 THEN [env |-> CHOOSE e \in Environments : Earlier[e] = s,
                       kind |-> "onboarding",
                       files |-> Workflows]
                 ELSE None]
    /\ pointer = Earlier
    /\ record = [o \in Ops |-> "none"]
    /\ task = [o \in Ops |-> Idle]
    /\ onboarding = [e \in Environments |-> Nobody]
    /\ answer = [o \in Ops |-> "none"]
    /\ written = [o \in Ops |-> {}]
    /\ movers = {}
    /\ baselines = {s \in Snapshots : \E e \in Environments : Earlier[e] = s}
    /\ runs = [o \in Ops |-> "never"]
    /\ approved = {}
    /\ refused = {}

-----------------------------------------------------------------------------
(* Git.                                                                    *)

Unused == {s \in Snapshots : git[s] = None}

Commit(s, e, kind, ws) ==
    git' = [git EXCEPT ![s] = [env |-> e, kind |-> kind, files |-> ws]]

\* The manifest is written first, each file by a commit of its own.
TornCommit(s, e, kind, ws) ==
    /\ "git" \in Faults
    /\ \/ UNCHANGED git
       \/ \E part \in SUBSET ws \ {ws} : Commit(s, e, kind, part)

\* Mutant: a snapshot in any folder will do.
ExistsAnywhere(e, s) == git[s] # None

Exists(e, s) == git[s] # None /\ git[s].env = e

\* What read_snapshot_workflows returns.
Loaded(s) == IF "gitread" \in Faults THEN SUBSET git[s].files ELSE {git[s].files}

\* Mutant: the baseline is looked for, instead of the pointer.
NotOnboardedLater(e) ==
    ~\E s \in Snapshots : pointer[e] = s /\ git[s].kind = "onboarding"

NotOnboarded(e) == pointer[e] = None \/ "gitread" \in Faults

-----------------------------------------------------------------------------
(* Rows of deployments.                                                    *)

\* Mutant: rows get the status names of the table promotions.
CreateRowPending(o, status) == record' = [record EXCEPT ![o] = "pending"]

\* The insert of a row, whose failure is only logged.
CreateRow(o, status) ==
    \/ record' = [record EXCEPT ![o] = status]
    \/ "db" \in Faults /\ UNCHANGED record

\* One update after the other, to a status of "early" and at last to "final".
\* They touch nothing where there is no row.
UpdateRow(o, early, final) ==
    \E status \in {final} \cup (IF "db" \in Faults THEN early ELSE {}) :
        record' = [record EXCEPT ![o] = IF @ = "none" THEN @ ELSE status]

\* An update that may be lost, with all that come before it.
UpdateRowAtMost(o, early, final) ==
    \/ UpdateRow(o, early, final)
    \/ "db" \in Faults /\ UNCHANGED record

-----------------------------------------------------------------------------
(* How the parts of an operation end.  t is its task with what the part has *)
(* found out.                                                              *)

Ended(t) == [t EXCEPT !.pc = "ended", !.todo = {}, !.sent = FALSE, !.failed = FALSE]

Failed(o, t) ==
    /\ task' = [task EXCEPT ![o] = Ended(t)]
    /\ answer' = [answer EXCEPT ![o] = "failed"]
    /\ UNCHANGED <<record, runs>>

\* _execute_deployment and _execute_rollback_deployment up to the first call.
\* Without workflows there is none before the pointer is written; the model
\* leaves the verification a step.
Begin(o, t) ==
    /\ task' = [task EXCEPT ![o] =
                   [t EXCEPT !.pc = IF t.todo = {} THEN "verify" ELSE "deploy"]]
    /\ runs' = [runs EXCEPT ![o] = IF @ = "never" THEN "once" ELSE "again"]
    /\ UNCHANGED answer

\* A production environment waits for an approval.
Proceed(o, t) ==
    IF t.env \in Production
    THEN /\ CreateRow(o, "pending_approval")
         /\ task' = [task EXCEPT ![o] = Ended(t)]
         /\ answer' = [answer EXCEPT ![o] = "pending"]
         /\ UNCHANGED runs
    ELSE Begin(o, t) /\ UNCHANGED record

-----------------------------------------------------------------------------
(* Promotions out of an instance (_initiate_dev_to_staging).               *)

New(o) == task[o].pc = "none"

Initiate(o, e) ==
    /\ New(o)
    /\ task' = [task EXCEPT ![o] = [Idle EXCEPT !.env = e, !.pc = "export"]]
    /\ UNCHANGED <<git, pointer, record, onboarding, answer, history>>

\* ensure_environment_onboarded: no call between the check and the lock suspends.
Onboard(o, t) ==
    \/ pointer[t.env] # None /\ Proceed(o, t) /\ UNCHANGED onboarding
    \/ /\ NotOnboarded(t.env)
       /\ onboarding[t.env] # Nobody
       /\ Failed(o, t)
       /\ UNCHANGED onboarding
    \/ /\ NotOnboarded(t.env)
       /\ onboarding[t.env] = Nobody
       /\ onboarding' = [onboarding EXCEPT ![t.env] = [by |-> o, pc |-> "export"]]
       /\ task' = [task EXCEPT ![o] = [t EXCEPT !.pc = "onboard"]]
       /\ UNCHANGED <<record, answer, runs>>

\* The selection is empty, has a workflow that is not linked, or the list of
\* workflows cannot be read.
ExportRefused(o) ==
    /\ task[o].pc = "export"
    /\ Failed(o, task[o])
    /\ UNCHANGED <<git, pointer, onboarding, written, movers, baselines, approved, refused>>

Exported(o, ws, s) ==
    /\ task[o].pc = "export"
    /\ task[o].kind = "promotion"
    /\ s \in Unused
    /\ ws = {} => "export" \in Faults
    /\ \/ /\ Commit(s, task[o].env, "promotion", ws)
          /\ Onboard(o, [task[o] EXCEPT !.snapshot = s, !.todo = ws])
       \/ /\ TornCommit(s, task[o].env, "promotion", ws)
          /\ Failed(o, task[o])
          /\ UNCHANGED onboarding
    /\ UNCHANGED <<pointer, written, movers, baselines, approved, refused>>

-----------------------------------------------------------------------------
(* Onboarding.                                                             *)

\* trigger_onboarding_async, on a request to onboard the environment.
TriggerOnboarding(e) ==
    /\ NotOnboarded(e)
    /\ onboarding[e] = Nobody
    /\ onboarding' = [onboarding EXCEPT ![e] = [by |-> Async, pc |-> "export"]]
    /\ UNCHANGED <<git, pointer, record, task, answer, history>>

Released(e) == onboarding' = [onboarding EXCEPT ![e] = Nobody]

OnboardingFailed(e) ==
    /\ Released(e)
    /\ \/ onboarding[e].by \in Ops /\ Failed(onboarding[e].by, task[onboarding[e].by])
       \/ onboarding[e].by = Async /\ UNCHANGED <<task, rows, runs>>

\* From the answer to the export to the verification: snapshot and pointer.
OnboardingExported(e, ws, s) ==
    /\ onboarding[e].pc = "export"
    /\ s \in Unused
    /\ \/ /\ Commit(s, e, "onboarding", ws)
          /\ pointer' = [pointer EXCEPT ![e] = s]
          /\ baselines' = baselines \cup {s}
          /\ \/ /\ onboarding' = [onboarding EXCEPT ![e].pc = "verify"]
                /\ UNCHANGED <<task, rows, runs>>
             \/ "gitlost" \in Faults /\ OnboardingFailed(e)
       \/ /\ \/ TornCommit(s, e, "onboarding", ws)
             \/ "git" \in Faults /\ Commit(s, e, "onboarding", ws)
             \/ "export" \in Faults /\ UNCHANGED git
          /\ OnboardingFailed(e)
          /\ UNCHANGED <<pointer, baselines>>
    /\ UNCHANGED <<written, movers, approved, refused>>

\* What the verification finds is only logged.
Onboarded(e) ==
    /\ onboarding[e].pc = "verify"
    /\ Released(e)
    /\ \/ onboarding[e].by \in Ops /\ Proceed(onboarding[e].by, task[onboarding[e].by])
       \/ onboarding[e].by = Async /\ UNCHANGED <<task, rows, runs>>
    /\ UNCHANGED <<git, pointer, written, movers, baselines, approved, refused>>

-----------------------------------------------------------------------------
(* Promotions by pointer, rollbacks, backups.                              *)

\* _initiate_staging_to_prod: ws is the selection of what the pointer names.
InitiateByPointer(o, source, e, ws, s) ==
    /\ New(o)
    /\ source \in Staging
    /\ e \in Production
    /\ pointer[source] # None
    /\ ws # {}
    /\ \E loaded \in Loaded(pointer[source]) : ws \subseteq loaded
    /\ s \in Unused
    /\ \/ /\ Commit(s, e, "promotion", ws)
          /\ Proceed(o, [Idle EXCEPT !.env = e, !.snapshot = s])
       \/ /\ TornCommit(s, e, "promotion", ws)
          /\ Failed(o, [Idle EXCEPT !.env = e])
    /\ UNCHANGED <<pointer, onboarding, written, movers, baselines, approved, refused>>

\* initiate_rollback: any id may be asked for.  It is refused if it is not the
\* id of a snapshot in the environment's folder, or nothing can be loaded.
InitiateRollback(o, e, s) ==
    /\ New(o)
    /\ Exists(e, s)
    /\ \E ws \in Loaded(s) \ {{}} :
          Proceed(o, [Idle EXCEPT !.kind = "rollback", !.env = e, !.snapshot = s,
                                  !.todo = ws])
    /\ UNCHANGED <<git, pointer, onboarding, written, movers, baselines, approved, refused>>

\* apply_approved_state: a rollback to what the pointer names.
ApplyApproved(o, e) == pointer[e] # None /\ InitiateRollback(o, e, pointer[e])

Backup(o, e) ==
    /\ New(o)
    /\ task' = [task EXCEPT ![o] = [Idle EXCEPT !.kind = "backup", !.env = e, !.pc = "export"]]
    /\ UNCHANGED <<git, pointer, record, onboarding, answer, history>>

\* A backup may be empty.
BackupExported(o, ws, s) ==
    /\ task[o].pc = "export"
    /\ task[o].kind = "backup"
    /\ s \in Unused
    /\ \/ /\ Commit(s, task[o].env, "backup", ws)
          /\ CreateRow(o, "completed")
          /\ task' = [task EXCEPT ![o] = [Ended(task[o]) EXCEPT !.snapshot = s]]
          /\ UNCHANGED <<answer, runs>>
       \/ TornCommit(s, task[o].env, "backup", ws) /\ Failed(o, task[o])
    /\ UNCHANGED <<pointer, onboarding, written, movers, baselines, approved, refused>>

-----------------------------------------------------------------------------
(* Decisions on a row that waits.                                          *)

\* Mutant: an approved row may be approved again, as a retry.
AwaitsOrRetries(o) == record[o] \in {"pending_approval", "approved"}

Awaits(o) == record[o] = "pending_approval"

\* approve_and_execute and approve_and_execute_rollback.  The updates to
\* "approved" and "deploying" are both lost only in an outage.
Approve(o) ==
    /\ Awaits(o)
    /\ \E ws \in Loaded(task[o].snapshot) :
          IF ws = {}
          THEN Failed(o, task[o]) /\ UNCHANGED approved
          ELSE /\ Begin(o, [task[o] EXCEPT !.todo = ws])
               /\ \/ UpdateRow(o, {"approved"}, "deploying")
                  \/ "outage" \in Faults /\ UNCHANGED record
               /\ approved' = approved \cup {o}
    /\ UNCHANGED <<git, pointer, onboarding, written, movers, baselines, refused>>

\* reject_promotion and reject_rollback do not look at the row's status.  They
\* answer success even if the write fails: then nothing anywhere says that the
\* operation is rejected, it stays one that waits, and may be approved after all.
Reject(o) ==
    /\ record[o] # "none"
    /\ \/ /\ record' = [record EXCEPT ![o] = "rejected"]
          /\ refused' = IF Awaits(o) THEN refused \cup {o} ELSE refused
       \/ "db" \in Faults /\ UNCHANGED <<record, refused>>
    /\ UNCHANGED <<git, pointer, task, onboarding, answer, written, movers, baselines,
                   runs, approved>>

-----------------------------------------------------------------------------
(* Execution.                                                              *)

\* Mutant: errors are only counted.
NothingSentIgnored(t) == FALSE

NothingSent(t) == t.failed /\ ~t.sent

\* The answer to the update of w, or to the create after it failed.  Once no
\* workflow is left the row is updated, or the operation fails without that.
Deploy(o, w) ==
    /\ task[o].pc = "deploy"
    /\ w \in task[o].todo
    /\ \E delivered, answered \in BOOLEAN :
          /\ answered => delivered
          /\ ~answered => "calls" \in Faults
          /\ written' = IF delivered THEN [written EXCEPT ![o] = @ \cup {w}] ELSE written
          /\ LET t == [task[o] EXCEPT !.todo = @ \ {w},
                                      !.sent = @ \/ answered,
                                      !.failed = @ \/ ~answered]
             IN  IF t.todo # {}
                 THEN task' = [task EXCEPT ![o] = t] /\ UNCHANGED <<rows, runs>>
                 ELSE IF NothingSent(t)
                 THEN Failed(o, t)
                 ELSE /\ task' = [task EXCEPT ![o] = [Ended(t) EXCEPT !.pc = "verify"]]
                      /\ UpdateRowAtMost(o, {}, "verifying")
                      /\ UNCHANGED <<answer, runs>>
    /\ UNCHANGED <<git, pointer, onboarding, movers, baselines, approved, refused>>

\* Mutant: a failed write of the pointer is only logged.
PointerWritesLogged ==
    {w \in [moved : BOOLEAN, told : BOOLEAN] :
        /\ w.told
        /\ ~w.moved => "git" \in Faults}

\* Whether the pointer is written, and whether the caller learns so.
PointerWrites ==
    {w \in [moved : BOOLEAN, told : BOOLEAN] :
        /\ w.told => w.moved
        /\ w.moved /\ ~w.told => "gitlost" \in Faults
        /\ ~w.moved => "git" \in Faults}

\* After the verification, whose findings are only logged: the pointer, and the
\* last status.  The write of the pointer checks that the snapshot exists.
Verified(o) ==
    /\ task[o].pc = "verify"
    /\ \E w \in PointerWrites :
          /\ w.moved => Exists(task[o].env, task[o].snapshot)
          /\ pointer' = IF w.moved THEN [pointer EXCEPT ![task[o].env] = task[o].snapshot]
                        ELSE pointer
          /\ movers' = IF w.moved THEN movers \cup {o} ELSE movers
          /\ LET outcome == IF w.told THEN "completed" ELSE "failed" IN
                /\ UpdateRowAtMost(o, {"updating_pointer"}, outcome)
                /\ answer' = [answer EXCEPT ![o] = outcome]
    /\ task' = [task EXCEPT ![o].pc = "ended"]
    /\ UNCHANGED <<git, onboarding, written, baselines, runs, approved, refused>>

\* Suspended handlers and the onboarding locks are in memory only.
Crash ==
    /\ "crash" \in Faults
    /\ \E o \in Ops : task[o].pc \in Live
    /\ task' = [o \in Ops |-> IF task[o].pc \in Live
                              THEN Ended(task[o])
                              ELSE task[o]]
    /\ onboarding' = [e \in Environments |-> Nobody]
    /\ UNCHANGED <<git, pointer, record, answer, history>>

-----------------------------------------------------------------------------
Next ==
    \/ \E o \in Ops :
          \/ \E e \in Environments :
                \/ Initiate(o, e)
                \/ Backup(o, e)
                \/ ApplyApproved(o, e)
                \/ \E s \in Snapshots : InitiateRollback(o, e, s)
                \/ \E source \in Environments, ws \in SUBSET Workflows, s \in Snapshots :
                      InitiateByPointer(o, source, e, ws, s)
          \/ ExportRefused(o)
          \/ \E ws \in SUBSET Workflows, s \in Snapshots :
                Exported(o, ws, s) \/ BackupExported(o, ws, s)
          \/ Approve(o)
          \/ Reject(o)
          \/ \E w \in Workflows : Deploy(o, w)
          \/ Verified(o)
    \/ \E e \in Environments :
          \/ TriggerOnboarding(e)
          \/ \E ws \in SUBSET Workflows, s \in Snapshots : OnboardingExported(e, ws, s)
          \/ Onboarded(e)
    \/ Crash

Spec == Init /\ [][Next]_vars

-----------------------------------------------------------------------------
(* Properties.                                                             *)

\* What an environment's pointer names is in the environment's own folder, and is
\* what an onboarding found there, or empty, or was deployed there in part at
\* least (git_promotion_service.py:682, github_service.py:1130-1135).
PointerWasDeployed ==
    \A e \in Environments :
        LET s == pointer[e] IN
        s # None =>
            /\ Exists(e, s)
            /\ \/ git[s].kind = "onboarding"
               \/ git[s].files = {}
               \/ \E o \in Ops : task[o].snapshot = s /\ written[o] # {}

\* An instance is written only from a snapshot that is complete in its own folder
\* by then, and in production only after an approval: whatever branch of
\* initiate_promotion the operation came from, and whatever failed meanwhile.
WritesAreCommitted ==
    \A o \in Ops :
        written[o] # {} =>
            /\ git[task[o].snapshot] # None
            /\ git[task[o].snapshot].env = task[o].env
            /\ written[o] \subseteq git[task[o].snapshot].files
            /\ task[o].env \in Production => o \in approved

\* An approval is carried out once, and never after a rejection that its row
\* recorded, even if later writes of the row are lost.
ExecutedAsDecided ==
    \A o \in Ops :
        /\ runs[o] # "again"
        /\ o \in refused => runs[o] = "never"

\* Whoever is told "completed", or reads it in the row, has the pointer moved; and
\* with "failed" the environment's pointer is where it was.
OutcomeAgrees ==
    \A o \in Ops :
        /\ answer[o] = "completed" => o \in movers
        /\ answer[o] = "failed" => o \notin movers
        /\ record[o] = "completed" => task[o].kind = "backup" \/ o \in movers
        /\ record[o] = "failed" => o \notin movers

\* An environment is given one baseline, even if a request and promotions
\* onboard it at the same time, or onboardings fail before.
OnboardedOnce ==
    \A s, t \in baselines : git[s].env = git[t].env => s = t

\* How far an operation is, and what it carries out where.
Stage(o) ==
    CASE runs[o] = "again"                                 -> "repeated"
      [] runs[o] = "once" /\ o \in movers                  -> "finished"
      [] runs[o] = "once" /\ o \in approved \ movers       -> "approved"
      [] runs[o] = "once" /\ o \notin approved \cup movers -> "started"
      [] runs[o] = "never" /\ o \in refused                -> "rejected"
      [] runs[o] = "never" /\ o \notin refused             -> "undecided"

Course(o) ==
    IF runs[o] = "never"
    THEN [stage |-> Stage(o), env |-> None, snapshot |-> None]
    ELSE [stage |-> Stage(o), env |-> task[o].env, snapshot |-> task[o].snapshot]

\* The environments whose workflows are being exported for a baseline.
Looking == {e \in Environments : onboarding[e].pc = "export"}

Decided == INSTANCE DecidedOperations WITH
    Operations <- Ops,
    Protected <- Production,
    MaySeem <- "gitread" \in Faults,
    course <- [o \in Ops |-> Course(o)],
    current <- pointer,
    looking <- Looking

\* Requests, decisions, executions, lost writes and restarts together carry out each
\* operation at most once, with the environment and snapshot that were decided on, in
\* production only approved, and never after a rejection that its row recorded.  A
\* pointer is moved by the end of an operation that was decided on, to its snapshot, or
\* by the end of an export that an onboarding began when it saw no pointer, to a
\* snapshot of its own: by no backup, and by nothing in the middle of an operation
\* (git_promotion_service.py:533-735, 1036-1230, git_promotions.py:148-233, 433-520,
\* onboarding_service.py:98-280).
OperationsAsDecided == Decided!Spec

-----------------------------------------------------------------------------
(* What the safety properties rest on.                                     *)

\* What an operation is to write is in a snapshot of its environment.
PlanOK(o) ==
    /\ task[o].snapshot # None => Exists(task[o].env, task[o].snapshot)
    /\ task[o].snapshot = None =>
          /\ task[o].pc \in {"none", "export", "ended"}
          /\ task[o].todo = {}
          /\ written[o] = {}
          /\ record[o] = "none"
    /\ task[o].snapshot # None =>
          task[o].todo \cup written[o] \subseteq git[task[o].snapshot].files
    /\ task[o].pc # "none" => task[o].env \in Environments
    /\ task[o].pc \in {"none", "export"} => task[o].snapshot = None

\* What it has written, and with whose approval.
ProgressOK(o) ==
    /\ task[o].pc \in {"none", "export", "onboard"} => written[o] = {}
    /\ task[o].pc \in {"none", "export", "onboard"} => record[o] = "none"
    /\ task[o].pc = "onboard" /\ task[o].todo = {} => git[task[o].snapshot].files = {}
    /\ task[o].sent => written[o] # {}
    /\ task[o].pc = "verify" => written[o] # {} \/ git[task[o].snapshot].files = {}
    /\ task[o].env \in Production /\ task[o].pc \in {"deploy", "verify"} => o \in approved
    /\ task[o].env \in Production /\ written[o] # {} => o \in approved

WorkInv == \A o \in Ops : PlanOK(o) /\ ProgressOK(o)

\* The row and the history of decisions.
DecisionOK(o) ==
    /\ task[o].pc \in {"none", "export", "onboard"} => runs[o] = "never"
    /\ task[o].pc \in {"deploy", "verify"} => runs[o] = "once"
    /\ runs[o] # "never" => record[o] # "pending_approval"
    /\ runs[o] # "again"
    /\ o \in refused => /\ record[o] = "rejected"
                        /\ runs[o] = "never"
                        /\ task[o].pc = "ended"

\* A pointer is moved in the last step of an operation.
OutcomeOK(o) ==
    /\ o \in movers => /\ answer[o] = "completed"
                       /\ task[o].pc = "ended"
                       /\ runs[o] = "once"
    /\ record[o] = "failed" => task[o].pc = "ended" /\ o \notin movers
    /\ record[o] = "completed" => task[o].kind = "backup" \/ o \in movers
    /\ answer[o] = "completed" => o \in movers

DecisionInv == \A o \in Ops : DecisionOK(o)
OutcomeInv == \A o \in Ops : OutcomeOK(o)

\* While an environment is onboarded it has no baseline yet.
BaselinesInv ==
    /\ \A s \in baselines :
          /\ git[s] # None
          /\ pointer[git[s].env] # None
          /\ onboarding[git[s].env].pc # "export"
    /\ OnboardedOnce

\* Who waits for an onboarding is the one it belongs to.
HoldersInv ==
    \A e \in Environments :
        onboarding[e].by \in Ops =>
            /\ task[onboarding[e].by].pc = "onboard"
            /\ task[onboarding[e].by].env = e
=============================================================================
