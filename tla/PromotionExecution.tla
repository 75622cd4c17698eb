------------------------- MODULE PromotionExecution -------------------------
(***************************************************************************)
(* What one promotion does to its target n8n instance: the snapshot of     *)
(* create_pre_promotion_snapshot, the loop of execute_promotion and        *)
(* rollback_promotion (app/services/promotion_service.py), with the calls  *)
(* they make to n8n and Git.  Promotion abstracts it to WorkflowsExecuted; *)
(* its theorem MutualExclusion is why one execution at a time is enough.   *)
(*                                                                         *)
(* A workflow is identified by its id in the source instance.  create      *)
(* calls always get a fresh id, update calls go to the source's id.        *)
(*                                                                         *)
(* Faults:  "call"     a write to n8n raises without effect                 *)
(*          "read"     the content check cannot read the target             *)
(*          "lost"     an n8n call takes effect, its response is lost       *)
(*          "sync"     a workflow is not exported, the snapshot goes on     *)
(*          "commit"   the commit of the snapshot is not found              *)
(*          "restore"  a file cannot be read or written back                *)
(*          "policy"   selections that policy or Git refuses                *)
(*          "ids"      a target workflow has another id than its source     *)
(*          "edit"     users edit and delete target workflows meanwhile      *)
(*          "reject"   an update of an existing workflow is answered 400     *)
(*          "hidden"   a copy is not recognised: its credentials were       *)
(*                     renamed, or it is not on the first page of the list  *)
(***************************************************************************)
EXTENDS Naturals, FiniteSets

CONSTANTS
    Count,        \* number of selected workflows, carried out in order
    ChangeTypes,  \* the change types the selections may have
    MaxAttempts,  \* calls of _execute_with_retry (attempts = 3)
    MaxRuns,      \* bound on executions of the same selections
    Faults        \* which failures this instance exhibits

ASSUME CountAssumption == Count \in Nat
ASSUME AttemptsAssumption == MaxAttempts \in Nat \ {0}
ASSUME ChangeAssumption ==
    ChangeTypes \subseteq {"new", "changed", "staging_hotfix", "conflict"}
ASSUME FaultsAssumption ==
    Faults \subseteq {"call", "read", "lost", "sync", "commit", "restore", "policy", "ids",
                "edit", "reject", "hidden"}

Selections == 1 .. Count

\* The content of a workflow: the source's ("new"), what the target had before
\* ("old"), a later edit ("hotfix") or an older version in Git ("stale").
Content == {"absent", "old", "new", "hotfix", "stale"}

VARIABLES
    selection,  \* the promotion's workflow_selections and policy flags
    target,     \* the target's workflow with the id of each source workflow
    copies,     \* workflows created under fresh ids: how many with the source's
                \* content (new), and with the snapshot's (old)
    git,        \* the file of each workflow at the snapshot's commit
    commit,     \* whether the snapshot has a git_commit_sha
    pc,         \* where execute_promotion is suspended
    next,       \* the selection the loop is at
    promoted,   \* successfully_promoted_workflow_ids
    skipped,    \* selections left alone because the target is identical
    failed,     \* selections counted in workflows_failed
    restored,   \* selections rolled back
    unrestored, \* selections in rollback_errors
    attempt,    \* attempt of the retried call
    result,     \* the status of the execution result
    runs,       \* executions so far
    before,     \* history: target and copies when the snapshot was taken
    touched     \* history: workflows edited by users since then

data == <<selection, target, copies, git, commit>>
progress == <<next, promoted, skipped, failed>>
undo == <<restored, unrestored, attempt>>
history == <<before, touched>>
vars == <<data, pc, progress, undo, result, runs, history>>

NoCopies == [new |-> 0, old |-> 0]

TypeOK ==
    /\ selection \in [change : [Selections -> ChangeTypes],
                      found : SUBSET Selections,
                      hotfixes : BOOLEAN, conflicts : BOOLEAN]
    /\ target \in [Selections -> Content]
    /\ copies \in [Selections -> [new : Nat, old : Nat]]
    /\ git \in [Selections -> Content]
    /\ commit \in BOOLEAN
    /\ pc \in {"idle", "check", "write", "create", "rollback", "recreate", "done"}
    /\ next \in 1 .. (Count + 1)
    /\ promoted \subseteq Selections
    /\ skipped \subseteq Selections
    /\ failed \subseteq Selections
    /\ restored \subseteq Selections
    /\ unrestored \subseteq Selections
    /\ attempt \in 1 .. MaxAttempts
    /\ result \in {"none", "completed", "failed"}
    /\ runs \in Nat
    /\ before \in [target : [Selections -> Content],
                   copies : [Selections -> [new : Nat, old : Nat]]]
    /\ touched \subseteq Selections

\* What the comparison found when the selections were made.
TargetContents(change) ==
    (CASE change = "new" -> {"absent"}
       [] change = "changed" -> {"old"}
       [] OTHER -> {"hotfix"})
    \cup (IF "ids" \in Faults THEN {"absent"} ELSE {})

Init ==
    /\ selection \in [change : [Selections -> ChangeTypes],
                      found : IF "policy" \in Faults THEN SUBSET Selections
                                                     ELSE {Selections},
                      hotfixes : IF "policy" \in Faults THEN BOOLEAN ELSE {TRUE},
                      conflicts : IF "policy" \in Faults THEN BOOLEAN ELSE {TRUE}]
    /\ target \in [Selections -> Content]
    /\ \A i \in Selections : target[i] \in TargetContents(selection.change[i])
    /\ copies = [i \in Selections |-> NoCopies]
    /\ git \in [Selections -> {"absent", "stale"}]
    /\ \A i \in Selections : target[i] = "absent" => git[i] = "absent"
    /\ commit = FALSE
    /\ pc = "idle"
    /\ next = 1
    /\ promoted = {} /\ skipped = {} /\ failed = {}
    /\ restored = {} /\ unrestored = {} /\ attempt = 1
    /\ result = "none"
    /\ runs = 0
    /\ before = [target |-> target, copies |-> copies]
    /\ touched = {}

-----------------------------------------------------------------------------
(* The snapshot.                                                           *)

\* The file of a workflow after the export; one whose sync failed keeps the
\* file it had.
Exported(i, synced) ==
    IF i \in synced /\ target[i] # "absent" THEN target[i] ELSE git[i]

\* create_pre_promotion_snapshot: a failing export of one workflow is logged, and
\* a missing commit is stored as "".
TakeSnapshot(synced, found) ==
    /\ pc = "idle"
    /\ synced = Selections \/ "sync" \in Faults
    /\ found \/ "commit" \in Faults
    /\ git' = [i \in Selections |-> Exported(i, synced)]
    /\ commit' = found
    /\ before' = [target |-> target, copies |-> copies]
    /\ touched' = {}
    /\ pc' = "check"
    /\ runs' = runs + 1
    /\ UNCHANGED <<selection, target, copies, progress, undo, result>>

\* The snapshot cannot be taken, or execute_promotion returns or raises before
\* its loop (environment, onboarding gate, drift policy, reading Git).
NotStarted ==
    /\ pc = "idle" \/ (pc = "check" /\ next = 1)
    /\ pc' = "done"
    /\ result' = "failed"
    /\ runs' = IF pc = "idle" THEN runs + 1 ELSE runs
    /\ before' = IF pc = "idle" THEN [target |-> target, copies |-> copies] ELSE before
    /\ touched' = IF pc = "idle" THEN {} ELSE touched
    /\ UNCHANGED <<data, progress, undo>>

-----------------------------------------------------------------------------
(* The loop of execute_promotion.                                          *)

Change(i) == selection.change[i]

\* "conflict" stands for the change type and for requires_overwrite.
Refused(i) ==
    \/ Change(i) = "staging_hotfix" /\ ~selection.hotfixes
    \/ Change(i) = "conflict" /\ ~selection.conflicts
    \/ i \notin selection.found

\* Mutant: only the workflow with the source's id is compared.
IdenticalBySourceId(i) == target[i] = "new"

\* The idempotency check: any target workflow with the source's content for a
\* new one, the workflow with the source's id otherwise.
Identical(i) ==
    IF Change(i) = "new" THEN target[i] = "new" \/ copies[i].new > 0
                         ELSE target[i] = "new"

\* A refused selection is counted as failed and the loop goes on.
Refuse ==
    /\ pc = "check"
    /\ next \in Selections
    /\ Refused(next)
    /\ failed' = failed \cup {next}
    /\ next' = next + 1
    /\ UNCHANGED <<data, pc, promoted, skipped, undo, result, runs, history>>

\* The target already has the content.
Skip ==
    /\ pc = "check"
    /\ next \in Selections
    /\ ~Refused(next)
    /\ Identical(next)
    /\ skipped' = skipped \cup {next}
    /\ next' = next + 1
    /\ UNCHANGED <<data, pc, promoted, failed, undo, result, runs, history>>

\* The check finds nothing identical, or it raises, which is ignored, or it
\* misses what it looks for: it hashes the content before credentials are
\* renamed, and reads one page of workflows.
NeedsWrite(i) ==
    \/ ~Identical(i)
    \/ "read" \in Faults
    \/ "hidden" \in Faults

Check ==
    /\ pc = "check"
    /\ next \in Selections
    /\ ~Refused(next)
    /\ NeedsWrite(next)
    /\ pc' = IF Change(next) = "new" THEN "create" ELSE "write"
    /\ UNCHANGED <<data, progress, undo, result, runs, history>>

\* The workflow was written: the loop goes on.  The sidecar file and the git
\* state that follow never fail the promotion.
Promoted ==
    /\ promoted' = promoted \cup {next}
    /\ next' = next + 1
    /\ pc' = "check"
    /\ UNCHANGED <<skipped, failed, undo, result, runs, history>>

\* The first exception of the loop: the rollback starts.
Abort ==
    /\ failed' = failed \cup {next}
    /\ pc' = "rollback"
    /\ UNCHANGED <<next, promoted, skipped, undo, result, runs, history>>

\* update_workflow of a workflow that exists.
Update ==
    /\ pc = "write"
    /\ target[next] # "absent"
    /\ target' = [target EXCEPT ![next] = "new"]
    /\ Promoted
    /\ UNCHANGED <<selection, copies, git, commit>>

\* Mutant: a 404 is taken for success.
UpdateNotFoundIgnored ==
    /\ pc = "write"
    /\ target[next] = "absent"
    /\ Promoted
    /\ UNCHANGED data

\* update_workflow is answered 404, or 400 for any reason: the workflow is
\* created instead.
UpdateNotFound ==
    /\ pc = "write"
    /\ target[next] = "absent" \/ "reject" \in Faults
    /\ pc' = "create"
    /\ UNCHANGED <<data, progress, undo, result, runs, history>>

Create ==
    /\ pc = "create"
    /\ copies' = [copies EXCEPT ![next].new = @ + 1]
    /\ Promoted
    /\ UNCHANGED <<selection, target, git, commit>>

\* A write raises without effect.
WriteFails ==
    /\ "call" \in Faults
    /\ pc \in {"write", "create"}
    /\ Abort
    /\ UNCHANGED data

\* A write takes effect and its response is lost: it is not recorded as
\* promoted.
WriteLost ==
    /\ "lost" \in Faults
    /\ \/ /\ pc = "write"
          /\ target[next] # "absent"
          /\ target' = [target EXCEPT ![next] = "new"]
          /\ UNCHANGED copies
       \/ /\ pc = "create"
          /\ copies' = [copies EXCEPT ![next].new = @ + 1]
          /\ UNCHANGED target
    /\ Abort
    /\ UNCHANGED <<selection, git, commit>>

Outcome == IF failed = {} THEN "completed" ELSE "failed"

\* The loop ends: COMPLETED if nothing failed, else FAILED without a rollback.
FinishLoop ==
    /\ pc = "check"
    /\ next = Count + 1
    /\ pc' = "done"
    /\ result' = Outcome
    /\ UNCHANGED <<data, progress, undo, runs, history>>

-----------------------------------------------------------------------------
(* rollback_promotion.                                                     *)

Pending == promoted \ (restored \cup unrestored)
NextRestore(i) == i \in Pending /\ \A k \in Pending : i <= k

\* Without a commit the rollback gives up; the error is recorded.
RollbackUnavailable ==
    /\ pc = "rollback"
    /\ ~commit
    /\ unrestored' = promoted
    /\ pc' = "done"
    /\ result' = "failed"
    /\ UNCHANGED <<data, progress, restored, attempt, runs, history>>

\* Git has no file for the workflow's source id, or it cannot be read or
\* written back: the error is recorded and the others are tried.
RestoreMissing(i) ==
    /\ pc = "rollback"
    /\ commit
    /\ NextRestore(i)
    /\ git[i] = "absent" \/ "restore" \in Faults
    /\ unrestored' = unrestored \cup {i}
    /\ UNCHANGED <<data, pc, progress, restored, attempt, result, runs, history>>

\* Mutant: the rollback reads the source's file.
RestoreContentSource(i) == "new"

RestoreContent(i) == git[i]

\* The file is written to the workflow with its id, or created if the update is
\* answered 404 or 400.
Restore(i) ==
    /\ pc = "rollback"
    /\ commit
    /\ NextRestore(i)
    /\ git[i] # "absent"
    /\ \/ /\ target[i] # "absent"
          /\ target' = [target EXCEPT ![i] = RestoreContent(i)]
          /\ restored' = restored \cup {i}
          /\ UNCHANGED pc
       \/ /\ target[i] = "absent" \/ "reject" \in Faults
          /\ pc' = "recreate"
          /\ UNCHANGED <<target, restored>>
    /\ UNCHANGED <<selection, copies, git, commit, progress, unrestored, attempt,
                   result, runs, history>>

\* The retried create of a rollback: each attempt may take effect.
Recreate(i) ==
    /\ pc = "recreate"
    /\ NextRestore(i)
    /\ copies' = [copies EXCEPT ![i].old = @ + 1]
    /\ pc' = "rollback"
    /\ restored' = restored \cup {i}
    /\ attempt' = 1
    /\ UNCHANGED <<selection, target, git, commit, progress, unrestored, result,
                   runs, history>>

\* Mutant: one attempt too many.
AttemptsLeftInclusive == attempt <= MaxAttempts

AttemptsLeft == attempt < MaxAttempts

RecreateFails(i) ==
    /\ pc = "recreate"
    /\ NextRestore(i)
    /\ \/ "lost" \in Faults /\ copies' = [copies EXCEPT ![i].old = @ + 1]
       \/ "restore" \in Faults /\ UNCHANGED copies
    /\ IF AttemptsLeft
       THEN /\ attempt' = attempt + 1
            /\ UNCHANGED <<pc, unrestored>>
       ELSE /\ attempt' = 1
            /\ pc' = "rollback"
            /\ unrestored' = unrestored \cup {i}
    /\ UNCHANGED <<selection, target, git, commit, progress, restored, result,
                   runs, history>>

FinishRollback ==
    /\ pc = "rollback"
    /\ commit
    /\ Pending = {}
    /\ pc' = "done"
    /\ result' = "failed"
    /\ UNCHANGED <<data, progress, undo, runs, history>>

-----------------------------------------------------------------------------
(* The surroundings.                                                       *)

\* The same selections are promoted again.
Again ==
    /\ pc = "done"
    /\ runs < MaxRuns
    /\ pc' = "idle"
    /\ next' = 1
    /\ promoted' = {} /\ skipped' = {} /\ failed' = {}
    /\ restored' = {} /\ unrestored' = {}
    /\ result' = "none"
    /\ UNCHANGED <<data, attempt, runs, history>>

\* A user edits or deletes a workflow of the target, once per execution.
Edit(i) ==
    /\ "edit" \in Faults
    /\ pc # "done"
    /\ target[i] # "absent"
    /\ i \notin touched
    /\ \E content \in {"hotfix", "absent"} : target' = [target EXCEPT ![i] = content]
    /\ touched' = touched \cup {i}
    /\ UNCHANGED <<selection, copies, git, commit, pc, progress, undo, result, runs, before>>

Execute ==
    \/ \E synced \in SUBSET Selections, found \in BOOLEAN : TakeSnapshot(synced, found)
    \/ NotStarted
    \/ Refuse \/ Skip \/ Check
    \/ Update \/ UpdateNotFound \/ Create \/ WriteFails \/ WriteLost
    \/ FinishLoop
    \/ RollbackUnavailable
    \/ \E i \in Selections :
          RestoreMissing(i) \/ Restore(i) \/ Recreate(i) \/ RecreateFails(i)
    \/ FinishRollback

Next == Execute \/ Again \/ \E i \in Selections : Edit(i)

Spec == Init /\ [][Next]_vars

\* Every call has a timeout, so an execution that began goes on.
FairSpec == Spec /\ WF_vars(Execute)

-----------------------------------------------------------------------------
(* Safety.                                                                 *)

\* The target has the content of the source's workflow.
Delivered(i) == target[i] = "new" \/ copies[i].new > 0

\* COMPLETED is reported only if every selected workflow is in the target with
\* the source's content: no skip, fallback or swallowed error of execute_promotion
\* loses one, unless a user changed it meanwhile.
CompletedDelivers ==
    result = "completed" => \A i \in Selections : Delivered(i) \/ i \in touched

\* A workflow of the target that rollback_promotion reports as rolled back has
\* the content it had before the promotion.
RestoresSnapshot ==
    \A i \in restored \ touched :
        before.target[i] # "absent" => target[i] = before.target[i]

\* A new workflow is created once, over retries of the promotion and answers
\* that were lost: the content check of execute_promotion finds the first copy.
NewIsCreatedOnce ==
    \A i \in Selections : Change(i) = "new" => copies[i].new <= 1

\* The promise of execute_promotion's documentation, as a specification of its
\* own: between executions the target shows all of a promotion or none of it.
Atomic == INSTANCE AtomicPromotion
              WITH env <- IF pc \in {"idle", "done"} THEN target ELSE before.target,
                   outcome <- result
AtomicallyPromoted == Atomic!FairSpec

-----------------------------------------------------------------------------
(* Every execution ends.                                                   *)

InLoop == pc \in {"check", "write", "create"}

\* Before, in and after the loop, and what is called for a workflow.
Stage == IF pc = "idle" THEN 0 ELSE IF InLoop THEN 1 ELSE IF pc = "done" THEN 3 ELSE 2
Call == IF pc = "create" THEN 2 ELSE IF pc = "write" THEN 1 ELSE 0

LoopAdvances == next' > next \/ (next' = next /\ Call' > Call)

RollbackAdvances ==
    \/ Pending' \subseteq Pending /\ Pending' # Pending
    \/ Pending' = Pending /\ pc = "rollback" /\ pc' = "recreate"
    \/ Pending' = Pending /\ pc' = pc /\ attempt' > attempt

\* No fallback or retry of the loop or of the rollback comes back to where it was:
\* as selections and attempts are finitely many, only a call that does not return
\* keeps an execution, and with it the environment, from ending.
ExecutionAdvances ==
    [][Execute => \/ Stage' > Stage
                  \/ Stage' = 1 /\ Stage = 1 /\ LoopAdvances
                  \/ Stage' = 2 /\ Stage = 2 /\ RollbackAdvances]_vars

-----------------------------------------------------------------------------
(* The inductive invariants behind CompletedDelivers, RestoresSnapshot,    *)
(* AtomicallyPromoted (its safety part) and NewIsCreatedOnce.              *)

\* A write belongs to a selection; without this TypeOK is not inductive.
WritesSelection == pc \in {"write", "create"} => next \in Selections

\* Before it is done an execution has no result, and before its snapshot it has
\* done nothing.
StartsClean ==
    /\ pc # "done" => result = "none"
    /\ pc = "idle" => next = 1 /\ promoted = {} /\ skipped = {} /\ failed = {}

\* Every selection the loop has passed is accounted for, and those it promoted
\* or skipped are in the target.
LoopInv ==
    InLoop =>
        /\ \A i \in Selections : i < next => i \in promoted \cup skipped \cup failed
        /\ \A i \in promoted \cup skipped : Delivered(i) \/ i \in touched

ResultInv == WritesSelection /\ StartsClean /\ LoopInv /\ CompletedDelivers

\* The file of a workflow that the snapshot exported holds what the target had.
FilesAreSnapshot ==
    pc \in {"check", "write", "create", "rollback", "recreate"} =>
        \A i \in Selections : before.target[i] # "absent" => git[i] = before.target[i]

\* Only users delete workflows, so what was there is still there.
NothingIsLost ==
    pc \in {"check", "write", "create", "rollback", "recreate"} =>
        \A i \in Selections \ touched : before.target[i] # "absent" => target[i] # "absent"

\* A rollback creates a workflow only where the target has none.
RecreatesAbsent ==
    pc = "recreate" => \A i \in Selections : NextRestore(i) => target[i] = "absent"

SnapshotInv ==
    /\ FilesAreSnapshot
    /\ NothingIsLost
    /\ RecreatesAbsent
    /\ pc \notin {"rollback", "recreate", "done"} => restored = {}
    /\ RestoresSnapshot

\* Where atomicity holds: only existing workflows are changed, nothing is refused,
\* and the snapshot and the rollback do not fail.
ExistingOnly ==
    /\ ChangeTypes \subseteq {"changed", "staging_hotfix", "conflict"}
    /\ Faults \subseteq {"call", "read", "hidden"}

\* Every selection is an update of a workflow that is there and stays there.
AllExist ==
    /\ \A i \in Selections : Change(i) # "new" /\ ~Refused(i)
    /\ \A i \in Selections : target[i] # "absent"
    /\ pc \notin {"create", "recreate"}

\* While an execution runs its snapshot is complete.
SnapshotComplete ==
    pc \in {"check", "write", "rollback"} =>
        commit /\ \A i \in Selections : git[i] = before.target[i] /\ git[i] # "absent"

\* The loop has changed what it promoted and nothing else, and what it has passed
\* is in the target.
LoopIsExact ==
    pc \in {"check", "write"} =>
        /\ failed = {} /\ restored = {} /\ unrestored = {}
        /\ \A i \in promoted : i < next
        /\ \A i \in Selections : i < next => target[i] = "new"
        /\ \A i \in Selections \ promoted : target[i] = before.target[i]

\* What is not rolled back yet is all that differs from the snapshot.
RollbackIsExact ==
    pc = "rollback" =>
        /\ unrestored = {}
        /\ \A i \in Selections \ (promoted \ restored) : target[i] = before.target[i]

AtomicInv ==
    /\ AllExist
    /\ SnapshotComplete
    /\ LoopIsExact
    /\ RollbackIsExact
    /\ pc = "idle" =>
          next = 1 /\ promoted = {} /\ failed = {} /\ restored = {} /\ unrestored = {}
    /\ (pc = "done") = (result # "none")

\* A new workflow is about to be created only where there is no copy yet.
CreateInv ==
    /\ pc = "write" => Change(next) # "new"
    /\ pc = "create" /\ Change(next) = "new" => copies[next].new = 0
=============================================================================
