---------------------- MODULE PromotionExecutionProofs ----------------------
(***************************************************************************)
(* Proofs about PromotionExecution, for any number of workflows, attempts  *)
(* and executions and any combination of failures.                         *)
(***************************************************************************)
EXTENDS PromotionExecution, TLAPS

\* Type correctness.
LEMMA InitTyped == Init => TypeOK
<1> SUFFICES ASSUME Init PROVE TypeOK
    OBVIOUS
<1>1. copies \in [Selections -> [new : Nat, old : Nat]]
    BY DEF Init, NoCopies
<1>2. target \in [Selections -> Content] /\ git \in [Selections -> Content]
    BY DEF Init, Content
<1>3. selection \in [change : [Selections -> ChangeTypes], found : SUBSET Selections,
                     hotfixes : BOOLEAN, conflicts : BOOLEAN]
    BY DEF Init
<1>4. next \in 1 .. (Count + 1) /\ attempt \in 1 .. MaxAttempts
    BY CountAssumption, AttemptsAssumption DEF Init
<1>5. before \in [target : [Selections -> Content],
                  copies : [Selections -> [new : Nat, old : Nat]]]
    BY <1>1, <1>2 DEF Init
<1> QED
    BY <1>1, <1>2, <1>3, <1>4, <1>5 DEF Init, TypeOK

LEMMA NextSelection ==
    ASSUME NEW n \in Selections
    PROVE  n + 1 \in 1 .. (Count + 1)
BY CountAssumption DEF Selections

\* One more workflow created or restored keeps the table of copies well typed.
LEMMA CopiesTyped ==
    ASSUME NEW f \in [Selections -> [new : Nat, old : Nat]], NEW i \in Selections
    PROVE  /\ [f EXCEPT ![i].new = @ + 1] \in [Selections -> [new : Nat, old : Nat]]
           /\ [f EXCEPT ![i].old = @ + 1] \in [Selections -> [new : Nat, old : Nat]]
<1>1. f[i].new + 1 \in Nat /\ f[i].old + 1 \in Nat
    OBVIOUS
<1>2. [f[i] EXCEPT !.new = f[i].new + 1] \in [new : Nat, old : Nat]
    BY <1>1
<1>3. [f[i] EXCEPT !.old = f[i].old + 1] \in [new : Nat, old : Nat]
    BY <1>1
<1> QED
    BY <1>2, <1>3

\* A user, an update or a rollback writes one workflow of the target.
LEMMA TargetTyped ==
    ASSUME NEW f \in [Selections -> Content], NEW i \in Selections, NEW content \in Content
    PROVE  [f EXCEPT ![i] = content] \in [Selections -> Content]
OBVIOUS

LEMMA Contents == {"absent", "old", "new", "hotfix", "stale"} = Content
BY DEF Content

Typed == TypeOK /\ WritesSelection

LEMMA StepTyped == Typed /\ [Next]_vars => Typed'
<1> SUFFICES ASSUME TypeOK, WritesSelection, [Next]_vars PROVE TypeOK' /\ WritesSelection'
    BY DEF Typed
<1> USE DEF WritesSelection
<1>1. ASSUME NEW synced \in SUBSET Selections, NEW found \in BOOLEAN,
             TakeSnapshot(synced, found)
      PROVE  TypeOK' /\ WritesSelection'
    <2>1. git' \in [Selections -> Content]
        BY <1>1 DEF TypeOK, TakeSnapshot, Exported
    <2>2. before' \in [target : [Selections -> Content],
                       copies : [Selections -> [new : Nat, old : Nat]]]
        BY <1>1 DEF TypeOK, TakeSnapshot
    <2> QED
        BY <1>1, <2>1, <2>2 DEF TypeOK, TakeSnapshot, progress, undo
<1>2. CASE NotStarted
    BY <1>2 DEF TypeOK, NotStarted, data, progress, undo
<1>3. CASE Refuse
    BY <1>3, NextSelection DEF TypeOK, Refuse, data, undo, history
<1>4. CASE Skip
    BY <1>4, NextSelection DEF TypeOK, Skip, data, undo, history
<1>5. CASE Check
    BY <1>5 DEF TypeOK, Check, data, progress, undo, history
<1>6. CASE Update
    <2>1. target' \in [Selections -> Content]
        BY <1>6, TargetTyped, Contents DEF TypeOK, Update
    <2> QED
        BY <1>6, <2>1, NextSelection DEF TypeOK, Update, Promoted, undo, history
<1>7. CASE UpdateNotFound
    BY <1>7 DEF TypeOK, UpdateNotFound, data, progress, undo, history
<1>8. CASE Create
    <2>1. copies' \in [Selections -> [new : Nat, old : Nat]]
        BY <1>8, CopiesTyped DEF TypeOK, Create
    <2> QED
        BY <1>8, <2>1, NextSelection DEF TypeOK, Create, Promoted, undo, history
<1>9. CASE WriteFails
    BY <1>9 DEF TypeOK, WriteFails, Abort, data, undo, history
<1>10. CASE WriteLost
    <2>1. target' \in [Selections -> Content]
        BY <1>10, TargetTyped, Contents DEF TypeOK, WriteLost
    <2>2. copies' \in [Selections -> [new : Nat, old : Nat]]
        <3>1. CASE UNCHANGED copies
            BY <3>1 DEF TypeOK
        <3>2. CASE copies' = [copies EXCEPT ![next].new = @ + 1]
            BY <1>10, <3>2, CopiesTyped DEF TypeOK, WriteLost
        <3> QED
            BY <1>10, <3>1, <3>2 DEF WriteLost
    <2>3. next \in Selections
        BY <1>10 DEF WriteLost
    <2> QED
        BY <1>10, <2>1, <2>2, <2>3 DEF TypeOK, WriteLost, Abort, undo, history
<1>11. CASE FinishLoop
    BY <1>11 DEF TypeOK, FinishLoop, Outcome, data, progress, undo, history
<1>12. CASE RollbackUnavailable
    BY <1>12 DEF TypeOK, RollbackUnavailable, data, progress, history
<1>13. ASSUME NEW i \in Selections, RestoreMissing(i)
       PROVE  TypeOK' /\ WritesSelection'
    BY <1>13 DEF TypeOK, RestoreMissing, data, progress, history
<1>14. ASSUME NEW i \in Selections, Restore(i)
       PROVE  TypeOK' /\ WritesSelection'
    <2>1. target' \in [Selections -> Content]
        BY <1>14, TargetTyped DEF TypeOK, Restore, RestoreContent
    <2> QED
        BY <1>14, <2>1 DEF TypeOK, Restore, progress, history
<1>15. ASSUME NEW i \in Selections, Recreate(i)
       PROVE  TypeOK' /\ WritesSelection'
    <2>1. copies' \in [Selections -> [new : Nat, old : Nat]]
        BY <1>15, CopiesTyped DEF TypeOK, Recreate
    <2>2. attempt' \in 1 .. MaxAttempts
        BY <1>15, AttemptsAssumption DEF Recreate
    <2> QED
        BY <1>15, <2>1, <2>2 DEF TypeOK, Recreate, progress, history
<1>16. ASSUME NEW i \in Selections, RecreateFails(i)
       PROVE  TypeOK' /\ WritesSelection'
    <2>1. copies' \in [Selections -> [new : Nat, old : Nat]]
        <3>1. CASE UNCHANGED copies
            BY <3>1 DEF TypeOK
        <3>2. CASE copies' = [copies EXCEPT ![i].old = @ + 1]
            BY <1>16, <3>2, CopiesTyped DEF TypeOK
        <3> QED
            BY <1>16, <3>1, <3>2 DEF RecreateFails
    <2>2. attempt' \in 1 .. MaxAttempts
        BY <1>16, AttemptsAssumption DEF TypeOK, RecreateFails, AttemptsLeft
    <2>3. /\ pc' \in {"recreate", "rollback"}
          /\ unrestored' \subseteq Selections
        BY <1>16 DEF TypeOK, RecreateFails
    <2> QED
        BY <1>16, <2>1, <2>2, <2>3 DEF TypeOK, RecreateFails, progress, history
<1>17. CASE FinishRollback
    BY <1>17 DEF TypeOK, FinishRollback, data, progress, undo, history
<1>18. CASE Again
    BY <1>18, CountAssumption DEF TypeOK, Again, data, history
<1>19. ASSUME NEW i \in Selections, Edit(i)
       PROVE  TypeOK' /\ WritesSelection'
    <2>1. target' \in [Selections -> Content]
        BY <1>19, TargetTyped, Contents DEF TypeOK, Edit
    <2> QED
        BY <1>19, <2>1 DEF TypeOK, Edit, progress, undo
<1>20. CASE UNCHANGED vars
    BY <1>20 DEF TypeOK, vars, data, progress, undo, history
<1> QED
    BY <1>1, <1>2, <1>3, <1>4, <1>5, <1>6, <1>7, <1>8, <1>9, <1>10, <1>11, <1>12,
       <1>13, <1>14, <1>15, <1>16, <1>17, <1>18, <1>19, <1>20 DEF Next, Execute

\* Type correctness of every execution, whatever fails: the loop's position stays
\* within the selections and a write always belongs to one of them.
THEOREM TypeCorrect == Spec => []TypeOK
<1>1. Init => Typed
    BY InitTyped DEF Init, Typed, WritesSelection
<1>2. Typed => TypeOK
    BY DEF Typed
<1> QED
    BY <1>1, <1>2, StepTyped, PTL DEF Spec

-----------------------------------------------------------------------------
(* COMPLETED means delivered.                                              *)

\* A write leaves the workflows that were delivered delivered.
LEMMA UpdateDelivers ==
    ASSUME NEW i \in Selections, TypeOK, next \in Selections,
           target' = [target EXCEPT ![next] = "new"], UNCHANGED copies
    PROVE  Delivered(i) \/ i = next => Delivered(i)'
<1>1. target'[next] = "new" /\ (target[i] = "new" => target'[i] = "new")
    BY DEF TypeOK
<1> QED
    BY <1>1 DEF Delivered

LEMMA CreateDelivers ==
    ASSUME NEW i \in Selections, TypeOK, next \in Selections,
           copies' = [copies EXCEPT ![next].new = @ + 1], UNCHANGED target
    PROVE  /\ Delivered(i) \/ i = next => Delivered(i)'
           /\ copies'[i].new = IF i = next THEN copies[i].new + 1 ELSE copies[i].new
<1>1. copies[i].new \in Nat /\ copies[next].new \in Nat
    BY DEF TypeOK
<1>2. copies'[i].new = IF i = next THEN copies[i].new + 1 ELSE copies[i].new
    BY DEF TypeOK
<1>3. copies'[next].new = copies[next].new + 1
    BY DEF TypeOK
<1> QED
    BY <1>1, <1>2, <1>3 DEF Delivered

\* A selection the loop has done stays done when it goes on to the next one.
LEMMA Passed ==
    ASSUME NEW n \in 1 .. Count, NEW i \in Selections, i < n + 1
    PROVE  i < n \/ i = n
BY CountAssumption DEF Selections

LEMMA InitResult == Init => ResultInv
BY CountAssumption
   DEF Init, ResultInv, WritesSelection, StartsClean, LoopInv, InLoop, CompletedDelivers, Selections

LEMMA StepResult == TypeOK /\ ResultInv /\ [Next]_vars => ResultInv'
<1> SUFFICES ASSUME TypeOK, ResultInv, [Next]_vars, TypeOK', WritesSelection'
             PROVE  (StartsClean /\ LoopInv /\ CompletedDelivers)'
    BY StepTyped DEF ResultInv, Typed
<1> USE DEF StartsClean, CompletedDelivers, LoopInv, InLoop
<1>0. WritesSelection /\ StartsClean /\ LoopInv /\ CompletedDelivers
    BY DEF ResultInv
<1>1. ASSUME NEW synced \in SUBSET Selections, NEW found \in BOOLEAN,
             TakeSnapshot(synced, found)
      PROVE  (StartsClean /\ LoopInv /\ CompletedDelivers)'
    BY <1>0, <1>1, CountAssumption DEF TakeSnapshot, progress, undo, Selections
<1>2. CASE NotStarted
    BY <1>0, <1>2 DEF NotStarted, progress
<1>3. CASE Refuse
    <2>1. \A i \in Selections : i < next' => i \in promoted' \cup skipped' \cup failed'
        BY <1>0, <1>3, Passed DEF Refuse, Selections
    <2> QED
        BY <1>0, <1>3, <2>1 DEF Refuse, Delivered, data, history
<1>4. CASE Skip
    <2>1. \A i \in Selections : i < next' => i \in promoted' \cup skipped' \cup failed'
        BY <1>0, <1>4, Passed DEF Skip, Selections
    <2>2. Delivered(next)
        BY <1>4 DEF Skip, Identical, Delivered
    <2> QED
        BY <1>0, <1>4, <2>1, <2>2 DEF Skip, Delivered, data, history
<1>5. CASE Check
    BY <1>0, <1>5 DEF Check, Delivered, data, progress, history
<1>6. CASE Update
    <2>0. next \in Selections
        BY <1>0, <1>6 DEF Update, WritesSelection
    <2>1. \A i \in Selections : i < next' => i \in promoted' \cup skipped' \cup failed'
        BY <1>0, <1>6, <2>0, Passed DEF Update, Promoted, Selections
    <2>2. ASSUME NEW i \in promoted' \cup skipped' PROVE Delivered(i)' \/ i \in touched
        <3>1. i \in Selections /\ i \in promoted \cup skipped \cup {next}
            BY <1>6, <2>0 DEF TypeOK, Update, Promoted
        <3>2. Delivered(i) \/ i = next => Delivered(i)'
            BY <1>6, <2>0, <3>1, UpdateDelivers DEF Update
        <3>3. i \in promoted \cup skipped => Delivered(i) \/ i \in touched
            BY <1>0, <1>6 DEF Update
        <3> QED
            BY <3>1, <3>2, <3>3
    <2> QED
        BY <1>0, <1>6, <2>1, <2>2 DEF Update, Promoted, history
<1>7. CASE UpdateNotFound
    BY <1>0, <1>7 DEF UpdateNotFound, Delivered, data, progress, history
<1>8. CASE Create
    <2>0. next \in Selections
        BY <1>0, <1>8 DEF Create, WritesSelection
    <2>1. \A i \in Selections : i < next' => i \in promoted' \cup skipped' \cup failed'
        BY <1>0, <1>8, <2>0, Passed DEF Create, Promoted, Selections
    <2>2. ASSUME NEW i \in promoted' \cup skipped' PROVE Delivered(i)' \/ i \in touched
        <3>1. i \in Selections /\ i \in promoted \cup skipped \cup {next}
            BY <1>8, <2>0 DEF TypeOK, Create, Promoted
        <3>2. Delivered(i) \/ i = next => Delivered(i)'
            BY <1>8, <2>0, <3>1, CreateDelivers DEF Create
        <3>3. i \in promoted \cup skipped => Delivered(i) \/ i \in touched
            BY <1>0, <1>8 DEF Create
        <3> QED
            BY <3>1, <3>2, <3>3
    <2> QED
        BY <1>0, <1>8, <2>1, <2>2 DEF Create, Promoted, history
<1>9. CASE WriteFails
    BY <1>0, <1>9 DEF WriteFails, Abort
<1>10. CASE WriteLost
    BY <1>0, <1>10 DEF WriteLost, Abort
<1>11. CASE FinishLoop
    <2>1. ASSUME failed = {} PROVE \A i \in Selections : Delivered(i) \/ i \in touched
        BY <1>0, <1>11, <2>1, CountAssumption DEF FinishLoop, Selections
    <2> QED
        BY <1>0, <1>11, <2>1 DEF FinishLoop, Outcome, Delivered, data, history
<1>12. CASE RollbackUnavailable
    BY <1>0, <1>12 DEF RollbackUnavailable
<1>13. ASSUME NEW i \in Selections, RestoreMissing(i)
       PROVE  (StartsClean /\ LoopInv /\ CompletedDelivers)'
    BY <1>0, <1>13 DEF RestoreMissing
<1>14. ASSUME NEW i \in Selections, Restore(i)
       PROVE  (StartsClean /\ LoopInv /\ CompletedDelivers)'
    BY <1>0, <1>14 DEF Restore
<1>15. ASSUME NEW i \in Selections, Recreate(i)
       PROVE  (StartsClean /\ LoopInv /\ CompletedDelivers)'
    BY <1>0, <1>15 DEF Recreate
<1>16. ASSUME NEW i \in Selections, RecreateFails(i)
       PROVE  (StartsClean /\ LoopInv /\ CompletedDelivers)'
    BY <1>0, <1>16 DEF RecreateFails
<1>17. CASE FinishRollback
    BY <1>0, <1>17 DEF FinishRollback
<1>18. CASE Again
    BY <1>0, <1>18 DEF Again
<1>19. ASSUME NEW i \in Selections, Edit(i)
       PROVE  (StartsClean /\ LoopInv /\ CompletedDelivers)'
    <2>1. \A k \in Selections \ {i} : Delivered(k) => Delivered(k)'
        BY <1>19 DEF TypeOK, Edit, Delivered
    <2> QED
        BY <1>0, <1>19, <2>1 DEF TypeOK, Edit, progress
<1>20. CASE UNCHANGED vars
    BY <1>0, <1>20 DEF vars, data, progress, history, Delivered
<1> QED
    BY <1>1, <1>2, <1>3, <1>4, <1>5, <1>6, <1>7, <1>8, <1>9, <1>10, <1>11, <1>12,
       <1>13, <1>14, <1>15, <1>16, <1>17, <1>18, <1>19, <1>20 DEF Next, Execute

\* Whatever calls fail, are lost or are refused, and whatever users edit meanwhile,
\* execute_promotion reports COMPLETED only if every selected workflow that no user
\* touched is in the target with the content of the source.
THEOREM CompletedIsDelivered == Spec => []CompletedDelivers
<1>1. TypeOK /\ ResultInv => CompletedDelivers
    BY DEF ResultInv
<1> QED
    BY <1>1, InitTyped, InitResult, StepResult, TypeCorrect, PTL DEF Spec

-----------------------------------------------------------------------------
(* A new workflow is created once.                                         *)

CreatedOnce == CreateInv /\ NewIsCreatedOnce
ChecksWork == "read" \notin Faults /\ "hidden" \notin Faults

LEMMA InitCreated == Init => CreatedOnce
BY DEF Init, CreatedOnce, CreateInv, NewIsCreatedOnce, NoCopies

LEMMA StepCreated ==
    ASSUME ChecksWork, TypeOK, TypeOK', WritesSelection, CreatedOnce, [Next]_vars
    PROVE  CreatedOnce'
<1> USE DEF CreatedOnce, CreateInv, NewIsCreatedOnce, Change
\* The steps that create, by the loop of execute_promotion.
<1>1. ASSUME pc = "create", pc' # "create", pc' # "write", UNCHANGED <<selection, target>>,
             copies' = [copies EXCEPT ![next].new = @ + 1]
      PROVE  CreatedOnce'
    <2>1. next \in Selections
        BY <1>1 DEF WritesSelection
    <2>2. \A i \in Selections :
             copies'[i].new = IF i = next THEN copies[i].new + 1 ELSE copies[i].new
        BY <1>1, <2>1, CreateDelivers
    <2>3. ASSUME NEW i \in Selections, selection.change[i] = "new"
          PROVE  copies'[i].new <= 1
        BY <1>1, <2>1, <2>2, <2>3 DEF TypeOK
    <2> QED
        BY <1>1, <2>3
\* The steps that restore leave the copies of the source's content alone.
<1>2. ASSUME NEW i \in Selections, pc' \notin {"write", "create"}, UNCHANGED selection,
             copies' = [copies EXCEPT ![i].old = @ + 1]
      PROVE  CreatedOnce'
    <2>1. ASSUME NEW k \in Selections PROVE copies'[k].new = copies[k].new
        BY <1>2 DEF TypeOK
    <2> QED
        BY <1>2, <2>1
\* The check lets only those workflows through that have no copy yet.
<1>3. CASE Check
    <2>1. next \in Selections /\ ~Identical(next)
        BY <1>3 DEF Check, NeedsWrite, ChecksWork
    <2>2. ASSUME selection.change[next] = "new" PROVE copies[next].new = 0
        BY <2>1, <2>2 DEF TypeOK, Identical
    <2> QED
        BY <1>3, <2>2 DEF Check, data, progress
\* Every other step leaves the copies alone and starts no write.
<1>4. ASSUME UNCHANGED <<selection, copies>>, pc' \notin {"write", "create"}
      PROVE  CreatedOnce'
    BY <1>4
<1>5. ASSUME UNCHANGED <<selection, copies, pc, next>> PROVE CreatedOnce'
    BY <1>5
<1>6. CASE UpdateNotFound
    BY <1>6 DEF UpdateNotFound, data, progress
<1>7. CASE \E synced \in SUBSET Selections, found \in BOOLEAN : TakeSnapshot(synced, found)
    BY <1>4, <1>7 DEF TakeSnapshot
<1>8. CASE NotStarted \/ FinishLoop \/ RollbackUnavailable \/ FinishRollback
    BY <1>4, <1>8 DEF NotStarted, FinishLoop, RollbackUnavailable, FinishRollback, data
<1>9. CASE Refuse \/ Skip
    BY <1>4, <1>9 DEF Refuse, Skip, data
<1>10. CASE Update \/ Create
    BY <1>1, <1>4, <1>10 DEF Update, Create, Promoted
<1>11. CASE WriteFails \/ WriteLost
    <2>1. CASE pc = "create" /\ WriteLost
        BY <1>1, <2>1 DEF WriteLost, Abort
    <2> QED
        BY <1>4, <1>11, <2>1 DEF WriteFails, WriteLost, Abort, data
<1>12. ASSUME NEW i \in Selections, RestoreMissing(i) \/ Restore(i) PROVE CreatedOnce'
    BY <1>4, <1>12 DEF RestoreMissing, Restore, data
<1>13. ASSUME NEW i \in Selections, Recreate(i) PROVE CreatedOnce'
    BY <1>2, <1>13 DEF Recreate
<1>14. ASSUME NEW i \in Selections, RecreateFails(i) PROVE CreatedOnce'
    <2>1. pc' \notin {"write", "create"} /\ UNCHANGED selection
        BY <1>14 DEF RecreateFails
    <2> QED
        BY <1>2, <1>4, <1>14, <2>1 DEF RecreateFails
<1>15. CASE Again
    BY <1>4, <1>15 DEF Again, data
<1>16. ASSUME NEW i \in Selections, Edit(i) PROVE CreatedOnce'
    BY <1>5, <1>16 DEF Edit, progress
<1>17. CASE UNCHANGED vars
    BY <1>5, <1>17 DEF vars, data, progress
<1> QED
    BY <1>3, <1>6, <1>7, <1>8, <1>9, <1>10, <1>11, <1>12, <1>13, <1>14, <1>15, <1>16,
       <1>17 DEF Next, Execute

\* While n8n answers the content check and the check recognises what was promoted
\* (no credential is renamed, one page holds all workflows), repeated promotions of
\* the same selections and lost answers never create a second copy of a new
\* workflow: the check of execute_promotion finds the first one.
THEOREM NewOnce == ChecksWork => (Spec => []NewIsCreatedOnce)
<1> SUFFICES ASSUME ChecksWork PROVE Spec => []NewIsCreatedOnce
    OBVIOUS
<1>1. Typed /\ CreatedOnce /\ [Next]_vars => CreatedOnce'
    BY StepTyped, StepCreated DEF Typed
<1>2. Init => Typed
    BY InitTyped DEF Init, Typed, WritesSelection
<1>3. CreatedOnce => NewIsCreatedOnce
    BY DEF CreatedOnce
<1> QED
    BY <1>1, <1>2, <1>3, InitCreated, StepTyped, PTL DEF Spec

-----------------------------------------------------------------------------
(* A rollback restores the snapshot.                                       *)

\* The snapshot exports every workflow, and no update of an existing workflow is
\* refused.
SnapshotWorks == "sync" \notin Faults /\ "reject" \notin Faults

LEMMA InitSnapshot == Init => SnapshotInv
BY DEF Init, SnapshotInv, FilesAreSnapshot, NothingIsLost, RecreatesAbsent, RestoresSnapshot

\* What every step but the snapshot, a rollback's and a user's does to the target:
\* at most the workflow the loop is at gets the content of the source, before
\* anything is rolled back.
LEMMA LoopSnapshot ==
    ASSUME TypeOK, SnapshotInv, UNCHANGED <<git, before, touched, restored>>,
           pc \notin {"idle", "done"}, pc' \notin {"idle", "recreate"},
           \/ UNCHANGED target
           \/ /\ pc = "write" /\ target[next] # "absent"
              /\ target' = [target EXCEPT ![next] = "new"],
           pc' \notin {"rollback", "done"} => restored = {}
    PROVE  SnapshotInv'
<1> USE DEF SnapshotInv, FilesAreSnapshot, NothingIsLost, RecreatesAbsent, RestoresSnapshot
<1>1. CASE UNCHANGED target
    BY <1>1 DEF TypeOK
<1>2. CASE /\ pc = "write" /\ target[next] # "absent"
           /\ target' = [target EXCEPT ![next] = "new"]
    <2>1. \A i \in Selections : target[i] # "absent" => target'[i] # "absent"
        BY <1>2 DEF TypeOK
    <2>2. restored = {}
        BY <1>2
    <2> QED
        BY <1>2, <2>1, <2>2
<1> QED
    BY <1>1, <1>2

LEMMA StepSnapshot ==
    ASSUME SnapshotWorks, TypeOK, WritesSelection, SnapshotInv, [Next]_vars
    PROVE  SnapshotInv'
<1> USE DEF SnapshotInv, FilesAreSnapshot, NothingIsLost, RecreatesAbsent, RestoresSnapshot
<1>1. ASSUME NEW synced \in SUBSET Selections, NEW found \in BOOLEAN,
             TakeSnapshot(synced, found)
      PROVE  SnapshotInv'
    <2>1. synced = Selections
        BY <1>1 DEF TakeSnapshot, SnapshotWorks
    <2>2. \A i \in Selections : target[i] # "absent" => git'[i] = target[i]
        BY <1>1, <2>1 DEF TakeSnapshot, Exported
    <2>3. before'.target = target /\ target' = target /\ restored' = {} /\ pc' = "check"
        BY <1>1 DEF TakeSnapshot, undo
    <2> QED
        BY <2>2, <2>3
<1>2. CASE NotStarted
    BY <1>2 DEF NotStarted, data, undo
<1>3. CASE Refuse \/ Skip \/ Check \/ UpdateNotFound \/ Create \/ WriteFails
    BY <1>3, LoopSnapshot
       DEF Refuse, Skip, Check, UpdateNotFound, Create, WriteFails, Promoted, Abort,
           data, progress, undo, history
<1>4. CASE Update \/ WriteLost
    BY <1>4, LoopSnapshot DEF Update, WriteLost, Promoted, Abort, undo, history
<1>5. CASE FinishLoop \/ RollbackUnavailable \/ FinishRollback
    BY <1>5, LoopSnapshot
       DEF FinishLoop, RollbackUnavailable, FinishRollback, data, undo, history
<1>6. ASSUME NEW i \in Selections, RestoreMissing(i) PROVE SnapshotInv'
    BY <1>6, LoopSnapshot DEF RestoreMissing, data, history
<1>7. ASSUME NEW i \in Selections, Restore(i) PROVE SnapshotInv'
    <2>1. CASE target[i] # "absent"
        <3>1. target' = [target EXCEPT ![i] = git[i]] /\ restored' = restored \cup {i}
            BY <1>7, <2>1 DEF Restore, SnapshotWorks, RestoreContent
        <3>2. target'[i] = git[i] /\ \A k \in Selections \ {i} : target'[k] = target[k]
            BY <3>1 DEF TypeOK
        <3>3. before.target[i] # "absent" => target'[i] = before.target[i]
            BY <1>7, <3>2 DEF Restore
        <3>4. /\ pc = "rollback" /\ pc' = "rollback" /\ git[i] # "absent"
              /\ UNCHANGED <<git, history>>
            BY <1>7, <2>1 DEF Restore, SnapshotWorks
        <3>5. restored \subseteq Selections
            BY DEF TypeOK
        <3> QED
            BY <3>1, <3>2, <3>3, <3>4, <3>5 DEF history
    <2>2. CASE target[i] = "absent"
        <3>1. /\ pc = "rollback" /\ pc' = "recreate" /\ NextRestore(i)
              /\ UNCHANGED <<target, git, history, promoted, restored, unrestored>>
            BY <1>7, <2>2 DEF Restore, progress
        <3>2. ASSUME NEW k \in Selections, NextRestore(k)' PROVE target'[k] = "absent"
            <4>1. NextRestore(k)
                BY <3>1, <3>2 DEF NextRestore, Pending
            <4>2. k = i
                BY <3>1, <4>1 DEF NextRestore, Pending, Selections
            <4> QED
                BY <2>2, <3>1, <4>2
        <3> QED
            BY <3>1, <3>2 DEF history
    <2> QED
        BY <2>1, <2>2
<1>8. ASSUME NEW i \in Selections, Recreate(i) PROVE SnapshotInv'
    <2>1. before.target[i] = "absent" \/ i \in touched
        BY <1>8 DEF Recreate
    <2> QED
        BY <1>8, <2>1 DEF Recreate, history
<1>9. ASSUME NEW i \in Selections, RecreateFails(i) PROVE SnapshotInv'
    <2>1. /\ pc = "recreate" /\ pc' \in {"recreate", "rollback"}
          /\ UNCHANGED <<target, git, history, promoted, restored>>
        BY <1>9 DEF RecreateFails, progress
    <2>2. pc' = "recreate" => unrestored' = unrestored
        BY <1>9 DEF RecreateFails
    <2>3. RecreatesAbsent'
        BY <2>1, <2>2 DEF NextRestore, Pending
    <2> QED
        BY <2>1, <2>3 DEF history
<1>10. CASE Again
    BY <1>10 DEF Again, data, history
<1>11. ASSUME NEW i \in Selections, Edit(i) PROVE SnapshotInv'
    <2>1. /\ \A k \in Selections \ {i} : target'[k] = target[k]
          /\ touched' = touched \cup {i} /\ target[i] # "absent"
          /\ UNCHANGED <<git, pc, promoted, restored, unrestored, before>>
        BY <1>11 DEF TypeOK, Edit, progress, undo
    <2>2. restored \subseteq Selections
        BY DEF TypeOK
    <2>3. RecreatesAbsent'
        BY <2>1 DEF NextRestore, Pending
    <2> QED
        BY <2>1, <2>2, <2>3
<1>12. CASE UNCHANGED vars
    BY <1>12 DEF vars, data, progress, undo, history, NextRestore, Pending
<1> QED
    BY <1>1, <1>2, <1>3, <1>4, <1>5, <1>6, <1>7, <1>8, <1>9, <1>10, <1>11, <1>12
       DEF Next, Execute

\* If the snapshot exported every workflow and n8n refuses no update, then whatever
\* else fails, is lost or is edited meanwhile, a workflow of the target that
\* rollback_promotion counts as rolled back has the content it had before.
THEOREM RollbackRestores == SnapshotWorks => (Spec => []RestoresSnapshot)
<1> SUFFICES ASSUME SnapshotWorks PROVE Spec => []RestoresSnapshot
    OBVIOUS
<1>1. Typed /\ SnapshotInv /\ [Next]_vars => SnapshotInv'
    BY StepSnapshot DEF Typed
<1>2. Init => Typed
    BY InitTyped DEF Init, Typed, WritesSelection
<1>3. SnapshotInv => RestoresSnapshot
    BY DEF SnapshotInv
<1> QED
    BY <1>1, <1>2, <1>3, InitSnapshot, StepTyped, PTL DEF Spec

-----------------------------------------------------------------------------
(* All or nothing.                                                         *)

LEMMA InitAtomic == ExistingOnly /\ Init => AtomicInv
<1> SUFFICES ASSUME ExistingOnly, Init PROVE AtomicInv
    OBVIOUS
<1>1. ASSUME NEW i \in Selections
      PROVE  Change(i) # "new" /\ ~Refused(i) /\ target[i] # "absent"
    <2>1. selection.change[i] \in {"changed", "staging_hotfix", "conflict"}
        BY DEF Init, ExistingOnly
    <2>2. target[i] \in TargetContents(selection.change[i])
        BY DEF Init
    <2>3. "ids" \notin Faults /\ "policy" \notin Faults
        BY DEF ExistingOnly
    <2>4. selection.found = Selections /\ selection.hotfixes /\ selection.conflicts
        BY <2>3 DEF Init
    <2> QED
        BY <2>1, <2>2, <2>3, <2>4 DEF TargetContents, Change, Refused
<1> QED
    BY <1>1 DEF Init, AtomicInv, AllExist, SnapshotComplete, LoopIsExact, RollbackIsExact

\* The failures that ExistingOnly excludes do not happen.
LEMMA NoOtherFault ==
    ASSUME ExistingOnly
    PROVE  \A f \in {"lost", "sync", "commit", "restore", "policy", "ids", "edit", "reject"} :
              f \notin Faults
BY DEF ExistingOnly

LEMMA StepAtomic ==
    ASSUME ExistingOnly, TypeOK, WritesSelection, AtomicInv, [Next]_vars
    PROVE  AtomicInv' /\ [Atomic!Next]_(Atomic!vars)
<1> DEFINE shown == IF pc \in {"idle", "done"} THEN target ELSE before.target
<1> USE NoOtherFault
<1>0. /\ AllExist /\ SnapshotComplete /\ LoopIsExact /\ RollbackIsExact
      /\ pc = "idle" =>
            next = 1 /\ promoted = {} /\ failed = {} /\ restored = {} /\ unrestored = {}
      /\ (pc = "done") = (result # "none")
    BY DEF AtomicInv
<1> USE DEF AllExist, SnapshotComplete, LoopIsExact, RollbackIsExact, Change, Refused,
            Atomic!Next, Atomic!vars, Atomic!Complete, Atomic!Fail, Atomic!Again
<1>1. ASSUME NEW synced \in SUBSET Selections, NEW found \in BOOLEAN,
             TakeSnapshot(synced, found)
      PROVE  AtomicInv' /\ [Atomic!Next]_(Atomic!vars)
    <2>1. synced = Selections /\ found
        BY <1>1 DEF TakeSnapshot
    <2>2. \A i \in Selections : git'[i] = target[i]
        BY <1>0, <1>1, <2>1 DEF TakeSnapshot, Exported
    <2>3. \A i \in Selections : ~(i < 1)
        BY DEF Selections
    <2> QED
        BY <1>0, <1>1, <2>1, <2>2, <2>3 DEF TakeSnapshot, AtomicInv, progress, undo
<1>2. CASE NotStarted
    <2>1. target = shown
        <3>1. ASSUME pc = "check", next = 1 PROVE target = before.target
            <4>1. \A i \in Selections : i \notin promoted
                BY <1>0, <3>1 DEF Selections
            <4> QED
                BY <1>0, <3>1, <4>1 DEF TypeOK
        <3> QED
            BY <1>2, <3>1 DEF NotStarted
    <2> QED
        BY <1>0, <1>2, <2>1 DEF NotStarted, AtomicInv, data, progress, undo
<1>3. CASE Refuse
    BY <1>0, <1>3 DEF Refuse
<1>4. CASE Skip
    <2>1. target[next] = "new"
        BY <1>0, <1>4 DEF Skip, Identical
    <2>2. \A i \in Selections : i < next' => target[i] = "new"
        BY <1>0, <1>4, <2>1, Passed DEF Skip, Selections
    <2>3. \A i \in promoted : i < next'
        BY <1>0, <1>4 DEF TypeOK, Skip, Selections
    <2> QED
        BY <1>0, <1>4, <2>2, <2>3 DEF Skip, AtomicInv, data, undo, history
<1>5. CASE Check
    BY <1>0, <1>5 DEF Check, AtomicInv, data, progress, undo, history
<1>6. CASE Update
    <2>0. next \in Selections
        BY <1>6 DEF Update, WritesSelection
    <2>1. target'[next] = "new" /\ \A i \in Selections \ {next} : target'[i] = target[i]
        BY <1>6, <2>0 DEF TypeOK, Update
    <2>2. \A i \in Selections : i < next' => target'[i] = "new"
        BY <1>0, <1>6, <2>0, <2>1, Passed DEF Update, Promoted, Selections
    <2>3. \A i \in promoted' : i < next'
        BY <1>0, <1>6, <2>0 DEF TypeOK, Update, Promoted, Selections
    <2> QED
        BY <1>0, <1>6, <2>1, <2>2, <2>3 DEF Update, Promoted, AtomicInv, undo, history
<1>7. CASE UpdateNotFound
    BY <1>0, <1>7 DEF UpdateNotFound, WritesSelection
<1>8. CASE Create
    BY <1>0, <1>8 DEF Create
<1>9. CASE WriteFails
    BY <1>0, <1>9 DEF WriteFails, Abort, AtomicInv, data, undo, history
<1>10. CASE WriteLost
    BY <1>10 DEF WriteLost
<1>11. CASE FinishLoop
    <2>1. \A i \in Selections : target[i] = "new"
        BY <1>0, <1>11, CountAssumption DEF FinishLoop, Selections
    <2>2. target = [i \in Selections |-> "new"]
        BY <2>1 DEF TypeOK
    <2>3. result' = "completed" /\ result = "none"
        BY <1>0, <1>11 DEF FinishLoop, Outcome
    <2> QED
        BY <1>0, <1>11, <2>2, <2>3 DEF FinishLoop, AtomicInv, data, progress, undo, history
<1>12. CASE RollbackUnavailable
    BY <1>0, <1>12 DEF RollbackUnavailable
<1>13. ASSUME NEW i \in Selections, RestoreMissing(i)
       PROVE  AtomicInv' /\ [Atomic!Next]_(Atomic!vars)
    BY <1>0, <1>13 DEF RestoreMissing
<1>14. ASSUME NEW i \in Selections, Restore(i)
       PROVE  AtomicInv' /\ [Atomic!Next]_(Atomic!vars)
    <2>1. target' = [target EXCEPT ![i] = git[i]] /\ restored' = restored \cup {i}
        BY <1>0, <1>14 DEF Restore, RestoreContent
    <2>2. target'[i] = git[i] /\ \A k \in Selections \ {i} : target'[k] = target[k]
        BY <2>1 DEF TypeOK
    <2>3. /\ pc = "rollback" /\ pc' = "rollback"
          /\ UNCHANGED <<selection, git, commit, progress, unrestored, result, before>>
        BY <1>0, <1>14 DEF Restore, history
    <2> QED
        BY <1>0, <2>1, <2>2, <2>3 DEF AtomicInv, progress
<1>15. ASSUME NEW i \in Selections, Recreate(i) \/ RecreateFails(i)
       PROVE  AtomicInv' /\ [Atomic!Next]_(Atomic!vars)
    BY <1>0, <1>15 DEF Recreate, RecreateFails
<1>16. CASE FinishRollback
    <2>1. \A i \in Selections : i \notin promoted \ restored
        BY <1>0, <1>16 DEF FinishRollback, Pending
    <2>2. target = before.target
        BY <1>0, <1>16, <2>1 DEF TypeOK, FinishRollback
    <2> QED
        BY <1>0, <1>16, <2>2 DEF FinishRollback, AtomicInv, data, progress, undo, history
<1>17. CASE Again
    BY <1>0, <1>17 DEF Again, AtomicInv, data, history
<1>18. ASSUME NEW i \in Selections, Edit(i)
       PROVE  AtomicInv' /\ [Atomic!Next]_(Atomic!vars)
    BY <1>18 DEF Edit
<1>19. CASE UNCHANGED vars
    BY <1>0, <1>19 DEF AtomicInv, vars, data, progress, undo, history
<1> QED
    BY <1>1, <1>2, <1>3, <1>4, <1>5, <1>6, <1>7, <1>8, <1>9, <1>10, <1>11, <1>12,
       <1>13, <1>14, <1>15, <1>16, <1>17, <1>18, <1>19 DEF Next, Execute

\* What the documentation of execute_promotion promises, for promotions of existing
\* workflows whose snapshot and rollback do not fail: every execution, seen from
\* outside, delivers all of the selections and reports COMPLETED, or reports FAILED
\* and leaves the target as it was.
THEOREM AllOrNothing == ExistingOnly => (Spec => Atomic!Spec)
<1> SUFFICES ASSUME ExistingOnly PROVE Spec => Atomic!Spec
    OBVIOUS
<1>1. Init => Atomic!Init
    BY InitTyped DEF Init, TypeOK, Atomic!Init
<1>2. Init => Typed /\ AtomicInv
    BY InitTyped, InitAtomic DEF Init, Typed, WritesSelection
<1>3. Typed /\ AtomicInv /\ [Next]_vars => AtomicInv' /\ [Atomic!Next]_(Atomic!vars)
    BY StepAtomic DEF Typed
<1> QED
    BY <1>1, <1>2, <1>3, StepTyped, PTL DEF Spec, Atomic!Spec

-----------------------------------------------------------------------------
(* Every execution ends.                                                   *)

LEMMA StepAdvances ==
    ASSUME TypeOK, Execute
    PROVE  \/ Stage' > Stage
           \/ Stage' = 1 /\ Stage = 1 /\ LoopAdvances
           \/ Stage' = 2 /\ Stage = 2 /\ RollbackAdvances
<1>1. next' = next + 1 => next' > next
    BY CountAssumption DEF TypeOK
<1>2. CASE NotStarted \/ FinishLoop \/ FinishRollback \/ RollbackUnavailable
           \/ \E synced \in SUBSET Selections, found \in BOOLEAN : TakeSnapshot(synced, found)
    BY <1>2 DEF NotStarted, FinishLoop, FinishRollback, RollbackUnavailable, TakeSnapshot,
                Stage, InLoop
<1>3. CASE Refuse \/ Skip \/ Update \/ Create
    <2>1. pc' = "check" /\ pc \in {"check", "write", "create"} /\ next' = next + 1
        BY <1>3 DEF Refuse, Skip, Update, Create, Promoted
    <2>2. Stage' = 1 /\ Stage = 1
        BY <2>1 DEF Stage, InLoop
    <2> QED
        BY <1>1, <2>1, <2>2 DEF LoopAdvances
<1>4. CASE Check \/ UpdateNotFound
    <2>1. /\ next' = next
          /\ \/ pc = "check" /\ pc' \in {"create", "write"}
             \/ pc = "write" /\ pc' = "create"
        BY <1>4 DEF Check, UpdateNotFound, progress
    <2> QED
        BY <2>1 DEF Stage, InLoop, LoopAdvances, Call
<1>5. CASE WriteFails \/ WriteLost
    BY <1>5 DEF WriteFails, WriteLost, Abort, Stage, InLoop
<1>6. ASSUME NEW i \in Selections,
             RestoreMissing(i) \/ Restore(i) \/ Recreate(i) \/ RecreateFails(i)
      PROVE  Stage' = 2 /\ Stage = 2 /\ RollbackAdvances
    <2>1. pc \in {"rollback", "recreate"} /\ pc' \in {"rollback", "recreate"}
        BY <1>6 DEF RestoreMissing, Restore, Recreate, RecreateFails
    <2>2. i \in Pending /\ promoted' = promoted
        BY <1>6 DEF RestoreMissing, Restore, Recreate, RecreateFails, NextRestore, progress
    <2>3. \/ /\ restored' \cup unrestored' = (restored \cup unrestored) \cup {i}
          \/ /\ restored' \cup unrestored' = restored \cup unrestored
             /\ \/ pc = "rollback" /\ pc' = "recreate"
                \/ pc' = pc /\ attempt' = attempt + 1
        <3>1. CASE RestoreMissing(i)
            BY <3>1 DEF RestoreMissing
        <3>2. CASE Restore(i)
            BY <3>2 DEF Restore
        <3>3. CASE Recreate(i)
            BY <3>3 DEF Recreate
        <3>4. CASE RecreateFails(i)
            BY <3>4 DEF RecreateFails
        <3> QED
            BY <1>6, <3>1, <3>2, <3>3, <3>4
    <2>4. RollbackAdvances
        BY <2>2, <2>3, AttemptsAssumption DEF RollbackAdvances, Pending, TypeOK
    <2> QED
        BY <2>1, <2>4 DEF Stage, InLoop
<1> QED
    BY <1>2, <1>3, <1>4, <1>5, <1>6 DEF Execute

\* No fallback or retry of an execution comes back to where it was.  With finitely
\* many workflows and attempts an execution whose calls return therefore ends, which
\* with the fairness of FairSpec is the liveness that AtomicallyPromoted asks for.
THEOREM ExecutionsEnd == Spec => ExecutionAdvances
<1>1. TypeOK /\ [Next]_vars
      => [Execute => \/ Stage' > Stage
                     \/ Stage' = 1 /\ Stage = 1 /\ LoopAdvances
                     \/ Stage' = 2 /\ Stage = 2 /\ RollbackAdvances]_vars
    BY StepAdvances
<1> QED
    BY <1>1, TypeCorrect, PTL DEF Spec, ExecutionAdvances
=============================================================================
