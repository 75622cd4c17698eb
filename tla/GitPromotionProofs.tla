------------------------- MODULE GitPromotionProofs -------------------------
(***************************************************************************)
(* Theorems about GitPromotion, for any environments, workflows, operations *)
(* and snapshots.                                                          *)
(***************************************************************************)
EXTENDS GitPromotion, TLAPS

-----------------------------------------------------------------------------
(* Types.                                                                  *)

\* TypeOK in parts: what the end of a handler sets, and the rest.
OutcomeTypes ==
    /\ record \in [Ops -> Statuses]
    /\ task \in [Ops -> Tasks]
    /\ answer \in [Ops -> {"none", "pending", "completed", "failed"}]
    /\ runs \in [Ops -> {"never", "once", "again"}]
GitTypes ==
    /\ git \in [Snapshots -> Folders \cup {None}]
    /\ pointer \in [Environments -> Snapshots \cup {None}]
    /\ onboarding \in [Environments -> Locks]
    /\ baselines \subseteq Snapshots
HistoryTypes ==
    /\ written \in [Ops -> SUBSET Workflows]
    /\ movers \subseteq Ops
    /\ approved \subseteq Ops
    /\ refused \subseteq Ops

LEMMA TypeParts == TypeOK <=> OutcomeTypes /\ GitTypes /\ HistoryTypes
BY DEF TypeOK, OutcomeTypes, GitTypes, HistoryTypes

LEMMA TypePartsNext == TypeOK' <=> OutcomeTypes' /\ GitTypes' /\ HistoryTypes'
BY DEF TypeOK, OutcomeTypes, GitTypes, HistoryTypes

LEMMA IdleTyped == Idle \in Tasks
BY DEF Idle, Tasks, Kinds, Live

LEMMA NobodyTyped == Nobody \in Locks
BY DEF Nobody, Locks

LEMMA EndedTyped ==
    ASSUME NEW t \in Tasks
    PROVE  Ended(t) \in Tasks
BY DEF Ended, Tasks

LEMMA FailedTyped ==
    ASSUME OutcomeTypes, NEW o \in Ops, NEW t \in Tasks, Failed(o, t)
    PROVE  OutcomeTypes'
BY EndedTyped DEF OutcomeTypes, Failed

LEMMA UpdateTyped ==
    ASSUME OutcomeTypes, NEW o \in Ops, NEW early \in SUBSET Statuses, NEW final \in Statuses,
           UpdateRowAtMost(o, early, final)
    PROVE  record' \in [Ops -> Statuses]
BY DEF OutcomeTypes, UpdateRowAtMost, UpdateRow, Statuses

LEMMA BeginTyped ==
    ASSUME OutcomeTypes, NEW o \in Ops, NEW t \in Tasks, Begin(o, t)
    PROVE  /\ task' \in [Ops -> Tasks]
           /\ runs' \in [Ops -> {"never", "once", "again"}]
           /\ answer' = answer
<1>1. [t EXCEPT !.pc = IF t.todo = {} THEN "verify" ELSE "deploy"] \in Tasks
  BY DEF Tasks, Live
<1> QED BY <1>1 DEF OutcomeTypes, Begin

LEMMA ProceedTyped ==
    ASSUME OutcomeTypes, NEW o \in Ops, NEW t \in Tasks, Proceed(o, t)
    PROVE  OutcomeTypes'
<1>1. CASE t.env \in Production
  BY <1>1, EndedTyped DEF OutcomeTypes, Proceed, CreateRow, Statuses
<1>2. CASE t.env \notin Production
  BY <1>2, BeginTyped DEF OutcomeTypes, Proceed
<1> QED BY <1>1, <1>2

LEMMA OnboardTyped ==
    ASSUME OutcomeTypes, onboarding \in [Environments -> Locks],
           NEW o \in Ops, NEW t \in Tasks, t.env \in Environments, Onboard(o, t)
    PROVE  OutcomeTypes' /\ onboarding' \in [Environments -> Locks]
<1>1. [by |-> o, pc |-> "export"] \in Locks
  BY DEF Locks
<1>2. [t EXCEPT !.pc = "onboard"] \in Tasks
  BY DEF Tasks, Live
<1> QED BY <1>1, <1>2, FailedTyped, ProceedTyped DEF Onboard, OutcomeTypes

LEMMA CommitTyped ==
    ASSUME GitTypes, NEW s \in Snapshots, NEW e \in Environments, NEW ws \in SUBSET Workflows,
           NEW kind \in {"onboarding", "promotion", "backup"},
           Commit(s, e, kind, ws) \/ TornCommit(s, e, kind, ws)
    PROVE  git' \in [Snapshots -> Folders \cup {None}]
<1>1. CASE Commit(s, e, kind, ws)
  BY <1>1 DEF GitTypes, Commit, Folders
<1>2. CASE TornCommit(s, e, kind, ws)
  BY <1>2 DEF GitTypes, TornCommit, Commit, Folders
<1> QED BY <1>1, <1>2
\* Types are kept because an operation has an environment from its start, and a
\* snapshot before it has a row.
LEMMA TypeStep ==
    ASSUME TypeOK, WorkInv, Next
    PROVE  TypeOK'
<1>p. OutcomeTypes /\ GitTypes /\ HistoryTypes
  BY TypeParts
<1>t. ASSUME NEW o \in Ops
      PROVE  /\ task[o] \in Tasks
             /\ task[o].pc # "none" => task[o].env \in Environments
             /\ record[o] # "none" => /\ task[o].snapshot \in Snapshots
                                      /\ git[task[o].snapshot] # None
  <2>1. task[o] \in Tasks
    BY <1>p DEF OutcomeTypes
  <2>2. PlanOK(o)
    BY DEF WorkInv
  <2> QED BY <2>1, <2>2, <1>p DEF PlanOK, Tasks, Exists, GitTypes
<1>l. ASSUME NEW s \in Snapshots, git[s] # None, NEW ws \in Loaded(s)
      PROVE  ws \in SUBSET Workflows
  BY <1>p, <1>l DEF GitTypes, Loaded, Folders
<1>1. ASSUME NEW o \in Ops, NEW e \in Environments, Initiate(o, e)
      PROVE  TypeOK'
  <2>1. [Idle EXCEPT !.env = e, !.pc = "export"] \in Tasks
    BY IdleTyped DEF Tasks, Live
  <2> QED BY <1>1, <1>p, <2>1, TypePartsNext DEF Initiate, OutcomeTypes, GitTypes, HistoryTypes, history
<1>2. ASSUME NEW o \in Ops, NEW e \in Environments, Backup(o, e)
      PROVE  TypeOK'
  <2>1. [Idle EXCEPT !.kind = "backup", !.env = e, !.pc = "export"] \in Tasks
    BY IdleTyped DEF Tasks, Live, Kinds
  <2> QED BY <1>2, <1>p, <2>1, TypePartsNext DEF Backup, OutcomeTypes, GitTypes, HistoryTypes, history
<1>3. ASSUME NEW o \in Ops, NEW e \in Environments, NEW s \in Snapshots, InitiateRollback(o, e, s)
      PROVE  TypeOK'
  <2>1. PICK ws \in Loaded(s) \ {{}} :
            Proceed(o, [Idle EXCEPT !.kind = "rollback", !.env = e, !.snapshot = s, !.todo = ws])
    BY <1>3 DEF InitiateRollback
  <2>2. ws \in SUBSET Workflows
    BY <2>1, <1>3, <1>l DEF InitiateRollback, Exists
  <2>3. [Idle EXCEPT !.kind = "rollback", !.env = e, !.snapshot = s, !.todo = ws] \in Tasks
    BY <2>2, IdleTyped DEF Tasks, Kinds
  <2>4. OutcomeTypes'
    BY <2>1, <2>3, <1>p, ProceedTyped
  <2> QED BY <1>3, <1>p, <2>4, TypePartsNext DEF InitiateRollback, GitTypes, HistoryTypes
<1>4. ASSUME NEW o \in Ops, NEW e \in Environments, ApplyApproved(o, e)
      PROVE  TypeOK'
  <2>1. pointer[e] \in Snapshots
    BY <1>4, <1>p DEF ApplyApproved, GitTypes
  <2> QED BY <1>4, <2>1, <1>3 DEF ApplyApproved
<1>5. ASSUME NEW o \in Ops, NEW source \in Environments, NEW e \in Environments,
             NEW ws \in SUBSET Workflows, NEW s \in Snapshots,
             InitiateByPointer(o, source, e, ws, s)
      PROVE  TypeOK'
  <2>1. [Idle EXCEPT !.env = e, !.snapshot = s] \in Tasks /\ [Idle EXCEPT !.env = e] \in Tasks
    BY IdleTyped DEF Tasks
  <2>2. OutcomeTypes'
    BY <1>5, <1>p, <2>1, ProceedTyped, FailedTyped DEF InitiateByPointer
  <2>3. git' \in [Snapshots -> Folders \cup {None}]
    BY <1>5, <1>p, CommitTyped DEF InitiateByPointer
  <2> QED BY <1>5, <1>p, <2>2, <2>3, TypePartsNext DEF InitiateByPointer, GitTypes, HistoryTypes
<1>6. ASSUME NEW o \in Ops, ExportRefused(o)
      PROVE  TypeOK'
  <2>1. OutcomeTypes'
    BY <1>6, <1>p, <1>t, FailedTyped DEF ExportRefused
  <2> QED BY <1>6, <1>p, <2>1, TypePartsNext DEF ExportRefused, GitTypes, HistoryTypes
<1>7. ASSUME NEW o \in Ops, NEW ws \in SUBSET Workflows, NEW s \in Snapshots, Exported(o, ws, s)
      PROVE  TypeOK'
  <2>1. task[o] \in Tasks /\ task[o].env \in Environments
    BY <1>7, <1>t DEF Exported
  <2>2. /\ [task[o] EXCEPT !.snapshot = s, !.todo = ws] \in Tasks
        /\ [task[o] EXCEPT !.snapshot = s, !.todo = ws].env = task[o].env
    BY <2>1 DEF Tasks
  <2>3. git' \in [Snapshots -> Folders \cup {None}]
    BY <1>7, <1>p, <2>1, CommitTyped DEF Exported
  <2>4. OutcomeTypes' /\ onboarding' \in [Environments -> Locks]
    BY <1>7, <1>p, <2>1, <2>2, OnboardTyped, FailedTyped DEF Exported, GitTypes
  <2> QED BY <1>7, <1>p, <2>3, <2>4, TypePartsNext DEF Exported, GitTypes, HistoryTypes
<1>8. ASSUME NEW o \in Ops, NEW ws \in SUBSET Workflows, NEW s \in Snapshots,
             BackupExported(o, ws, s)
      PROVE  TypeOK'
  <2>1. task[o] \in Tasks /\ task[o].env \in Environments
    BY <1>8, <1>t DEF BackupExported
  <2>2. git' \in [Snapshots -> Folders \cup {None}]
    BY <1>8, <1>p, <2>1, CommitTyped DEF BackupExported
  <2>3. OutcomeTypes'
    <3>1. CASE Failed(o, task[o])
      BY <3>1, <1>p, <2>1, FailedTyped
    <3>2. CASE /\ CreateRow(o, "completed")
               /\ task' = [task EXCEPT ![o] = [Ended(task[o]) EXCEPT !.snapshot = s]]
               /\ UNCHANGED <<answer, runs>>
      <4>1. [Ended(task[o]) EXCEPT !.snapshot = s] \in Tasks
        BY <2>1 DEF Tasks, Ended
      <4>2. record' \in [Ops -> Statuses]
        BY <3>2, <1>p DEF OutcomeTypes, CreateRow, Statuses
      <4> QED BY <3>2, <4>1, <4>2, <1>p DEF OutcomeTypes
    <3> QED BY <1>8, <3>1, <3>2 DEF BackupExported
  <2> QED BY <1>8, <1>p, <2>2, <2>3, TypePartsNext DEF BackupExported, GitTypes, HistoryTypes
<1>9. ASSUME NEW o \in Ops, Approve(o)
      PROVE  TypeOK'
  <2>1. PICK ws \in Loaded(task[o].snapshot) :
            IF ws = {}
            THEN Failed(o, task[o]) /\ UNCHANGED approved
            ELSE /\ Begin(o, [task[o] EXCEPT !.todo = ws])
                 /\ \/ UpdateRow(o, {"approved"}, "deploying")
                    \/ "outage" \in Faults /\ UNCHANGED record
                 /\ approved' = approved \cup {o}
    BY <1>9 DEF Approve
  <2>2. record[o] # "none"
    BY <1>9 DEF Approve, Awaits
  <2>3. task[o] \in Tasks /\ task[o].snapshot \in Snapshots /\ git[task[o].snapshot] # None
    BY <2>2, <1>t
  <2>4. ws \in SUBSET Workflows
    BY <2>1, <2>3, <1>l
  <2>5. [task[o] EXCEPT !.todo = ws] \in Tasks
    BY <2>3, <2>4 DEF Tasks
  <2>6. OutcomeTypes' /\ approved' \subseteq Ops
    <3>1. CASE ws = {}
      BY <3>1, <2>1, <2>3, <1>p, FailedTyped DEF HistoryTypes
    <3>2. CASE ws # {}
      <4>1. record' \in [Ops -> Statuses]
        BY <3>2, <2>1, <1>p DEF UpdateRow, OutcomeTypes, Statuses
      <4> QED BY <3>2, <4>1, <2>1, <2>5, <1>p, BeginTyped DEF OutcomeTypes, HistoryTypes
    <3> QED BY <3>1, <3>2
  <2> QED BY <1>9, <1>p, <2>6, TypePartsNext DEF Approve, GitTypes, HistoryTypes
<1>10. ASSUME NEW o \in Ops, Reject(o)
       PROVE  TypeOK'
  BY <1>10, <1>p, TypePartsNext DEF Reject, OutcomeTypes, GitTypes, HistoryTypes, Statuses
<1>11. ASSUME NEW o \in Ops, NEW w \in Workflows, Deploy(o, w)
       PROVE  TypeOK'
  <2>1. PICK delivered \in BOOLEAN, answered \in BOOLEAN :
            /\ written' = IF delivered THEN [written EXCEPT ![o] = @ \cup {w}] ELSE written
            /\ LET t == [task[o] EXCEPT !.todo = @ \ {w},
                                        !.sent = @ \/ answered,
                                        !.failed = @ \/ ~answered]
               IN  IF t.todo # {}
                   THEN task' = [task EXCEPT ![o] = t] /\ UNCHANGED <<rows, runs>>
                   ELSE IF NothingSent(t)
                   THEN Failed(o, t)
                   ELSE /\ task' = [task EXCEPT ![o] = [Ended(t) EXCEPT !.pc = "verify"]]
                        /\ UpdateRowAtMost(o, {}, "verifying")
                        /\ UNCHANGED <<answer, runs>>
    BY <1>11 DEF Deploy
  <2> DEFINE t == [task[o] EXCEPT !.todo = @ \ {w},
                                  !.sent = @ \/ answered,
                                  !.failed = @ \/ ~answered]
  <2>2. t \in Tasks
    <3>1. /\ (task[o].sent \/ answered) \in BOOLEAN
          /\ (task[o].failed \/ ~answered) \in BOOLEAN
      OBVIOUS
    <3> QED BY <3>1, <1>t DEF Tasks
  <2>3. [Ended(t) EXCEPT !.pc = "verify"] \in Tasks
    <3>1. Ended(t) \in Tasks
      BY <2>2, EndedTyped
    <3> QED BY <3>1 DEF Tasks, Live
  <2>4. written' \in [Ops -> SUBSET Workflows]
    BY <2>1, <1>p DEF HistoryTypes
  <2> HIDE DEF t
  <2>5. OutcomeTypes'
    <3>1. CASE task' = [task EXCEPT ![o] = t] /\ UNCHANGED <<rows, runs>>
      BY <3>1, <2>2, <1>p DEF OutcomeTypes, rows
    <3>2. CASE Failed(o, t)
      BY <3>2, <2>2, <1>p, FailedTyped
    <3>3. CASE /\ task' = [task EXCEPT ![o] = [Ended(t) EXCEPT !.pc = "verify"]]
               /\ UpdateRowAtMost(o, {}, "verifying")
               /\ UNCHANGED <<answer, runs>>
      <4>1. record' \in [Ops -> Statuses]
        BY <3>3, <1>p, UpdateTyped DEF Statuses
      <4> QED BY <3>3, <4>1, <2>3, <1>p DEF OutcomeTypes
    <3> QED BY <2>1, <3>1, <3>2, <3>3 DEF t
  <2> QED BY <1>11, <1>p, <2>4, <2>5, TypePartsNext DEF Deploy, GitTypes, HistoryTypes
<1>12. ASSUME NEW o \in Ops, Verified(o)
       PROVE  TypeOK'
  <2>1. PICK w \in PointerWrites :
          /\ pointer' = IF w.moved THEN [pointer EXCEPT ![task[o].env] = task[o].snapshot]
                        ELSE pointer
          /\ movers' = IF w.moved THEN movers \cup {o} ELSE movers
          /\ LET outcome == IF w.told THEN "completed" ELSE "failed" IN
                /\ UpdateRowAtMost(o, {"updating_pointer"}, outcome)
                /\ answer' = [answer EXCEPT ![o] = outcome]
    BY <1>12 DEF Verified
  <2>2. record' \in [Ops -> Statuses]
    <3>1. UpdateRowAtMost(o, {"updating_pointer"}, "completed") => record' \in [Ops -> Statuses]
      BY <1>p, UpdateTyped DEF Statuses
    <3>2. UpdateRowAtMost(o, {"updating_pointer"}, "failed") => record' \in [Ops -> Statuses]
      BY <1>p, UpdateTyped DEF Statuses
    <3> QED BY <2>1, <3>1, <3>2
  <2>3. answer' \in [Ops -> {"none", "pending", "completed", "failed"}]
    BY <2>1, <1>p DEF OutcomeTypes
  <2>4. task' = [task EXCEPT ![o].pc = "ended"] /\ UNCHANGED runs
    BY <1>12 DEF Verified
  <2>5. task' \in [Ops -> Tasks]
    BY <2>4, <1>p DEF OutcomeTypes, Tasks
  <2>6. OutcomeTypes'
    BY <2>2, <2>3, <2>4, <2>5, <1>p DEF OutcomeTypes
  <2>7. pointer' \in [Environments -> Snapshots \cup {None}] /\ movers' \subseteq Ops
    <3>1. task[o].snapshot \in Snapshots \cup {None}
      BY <1>t DEF Tasks
    <3> QED BY <2>1, <3>1, <1>p DEF GitTypes, HistoryTypes
  <2> QED BY <1>12, <1>p, <2>6, <2>7, TypePartsNext DEF Verified, GitTypes, HistoryTypes
<1>13. ASSUME NEW e \in Environments, TriggerOnboarding(e)
       PROVE  TypeOK'
  <2>1. [by |-> Async, pc |-> "export"] \in Locks
    BY DEF Locks
  <2> QED BY <1>13, <2>1, <1>p, TypePartsNext
          DEF TriggerOnboarding, OutcomeTypes, GitTypes, HistoryTypes, history
<1>f. ASSUME NEW e \in Environments, OnboardingFailed(e)
      PROVE  OutcomeTypes' /\ onboarding' \in [Environments -> Locks]
  BY <1>f, <1>p, <1>t, FailedTyped, NobodyTyped DEF OnboardingFailed, Released, OutcomeTypes, GitTypes, rows
<1>14. ASSUME NEW e \in Environments, NEW ws \in SUBSET Workflows, NEW s \in Snapshots,
              OnboardingExported(e, ws, s)
       PROVE  TypeOK'
  <2>1. git' \in [Snapshots -> Folders \cup {None}]
    BY <1>14, <1>p, CommitTyped DEF OnboardingExported, GitTypes
  <2>2. pointer' \in [Environments -> Snapshots \cup {None}] /\ baselines' \subseteq Snapshots
    BY <1>14, <1>p DEF OnboardingExported, GitTypes
  <2>3. OutcomeTypes' /\ onboarding' \in [Environments -> Locks]
    <3>1. CASE OnboardingFailed(e)
      BY <3>1, <1>f
    <3>2. CASE /\ onboarding' = [onboarding EXCEPT ![e].pc = "verify"]
               /\ UNCHANGED <<task, rows, runs>>
      <4>1. onboarding' \in [Environments -> Locks]
        BY <3>2, <1>p DEF GitTypes, Locks
      <4> QED BY <4>1, <3>2, <1>p DEF OutcomeTypes, rows
    <3> QED BY <1>14, <3>1, <3>2 DEF OnboardingExported
  <2> QED BY <1>14, <1>p, <2>1, <2>2, <2>3, TypePartsNext DEF OnboardingExported, GitTypes, HistoryTypes
<1>15. ASSUME NEW e \in Environments, Onboarded(e)
       PROVE  TypeOK'
  <2>1. OutcomeTypes'
    BY <1>15, <1>p, <1>t, ProceedTyped DEF Onboarded, OutcomeTypes, rows
  <2>2. onboarding' \in [Environments -> Locks]
    BY <1>15, <1>p, NobodyTyped DEF Onboarded, Released, GitTypes
  <2> QED BY <1>15, <1>p, <2>1, <2>2, TypePartsNext DEF Onboarded, GitTypes, HistoryTypes
<1>16. CASE Crash
  <2>1. task' \in [Ops -> Tasks]
    BY <1>16, <1>t, EndedTyped DEF Crash
  <2>2. onboarding' \in [Environments -> Locks]
    BY <1>16, NobodyTyped DEF Crash
  <2> QED BY <1>16, <1>p, <2>1, <2>2, TypePartsNext DEF Crash, OutcomeTypes, GitTypes, HistoryTypes, history
<1> QED BY <1>1, <1>2, <1>3, <1>4, <1>5, <1>6, <1>7, <1>8, <1>9, <1>10, <1>11, <1>12, <1>13, <1>14,
           <1>15, <1>16 DEF Next

-----------------------------------------------------------------------------
(* Work: what is written, and from where.                                  *)

\* Snapshots in Git are not changed.
GitGrows == \A s \in Snapshots : git[s] # None => git'[s] = git[s]

LEMMA CommitGrows ==
    ASSUME GitTypes, NEW s \in Unused, NEW e, NEW kind, NEW ws,
           Commit(s, e, kind, ws) \/ TornCommit(s, e, kind, ws)
    PROVE  GitGrows
BY DEF GitTypes, Commit, TornCommit, GitGrows, Unused

\* An operation that a step leaves alone is as sound as before.
LEMMA WorkFrame ==
    ASSUME TypeOK, GitGrows, NEW q \in Ops, PlanOK(q), ProgressOK(q),
           task'[q] = task[q], written'[q] = written[q], record'[q] = record[q],
           approved \subseteq approved'
    PROVE  (PlanOK(q) /\ ProgressOK(q))'
<1>1. task[q] \in Tasks
  BY DEF TypeOK
<1>2. CASE task[q].snapshot = None
  BY <1>2 DEF PlanOK, ProgressOK
<1>3. CASE task[q].snapshot # None
  <2>1. /\ task[q].snapshot \in Snapshots
        /\ git[task[q].snapshot] # None
    BY <1>1, <1>3 DEF PlanOK, Exists, Tasks
  <2>2. git'[task[q].snapshot] = git[task[q].snapshot]
    BY <2>1 DEF GitGrows
  <2> QED BY <2>2, <1>3 DEF PlanOK, ProgressOK, Exists
<1> QED BY <1>2, <1>3

\* A task that has a snapshot of its environment, for what it is to write.
Planned(t) ==
    /\ t \in Tasks
    /\ t.env \in Environments
    /\ t.snapshot \in Snapshots
    /\ t.snapshot # None
    /\ git'[t.snapshot] # None
    /\ git'[t.snapshot].env = t.env
    /\ t.todo \subseteq git'[t.snapshot].files

LEMMA ProceedWork ==
    ASSUME OutcomeTypes, NEW o \in Ops, NEW t, Planned(t), Proceed(o, t),
           written'[o] = {}, ~t.sent,
           t.todo = {} => t.env \in Production \/ git'[t.snapshot].files = {}
    PROVE  (PlanOK(o) /\ ProgressOK(o))'
<1>1. CASE t.env \in Production
  <2>1. task'[o] = Ended(t)
    BY <1>1 DEF Proceed, OutcomeTypes
  <2> QED BY <2>1, <1>1 DEF PlanOK, ProgressOK, Exists, Planned, Ended, Tasks
<1>2. CASE t.env \notin Production
  <2>1. task'[o] = [t EXCEPT !.pc = IF t.todo = {} THEN "verify" ELSE "deploy"]
    BY <1>2 DEF Proceed, Begin, OutcomeTypes
  <2> QED BY <2>1, <1>2 DEF PlanOK, ProgressOK, Exists, Planned, Tasks
<1> QED BY <1>1, <1>2

\* An operation that ends before its snapshot is committed.
LEMMA FailedEarly ==
    ASSUME OutcomeTypes, NEW o \in Ops, NEW t \in Tasks, Failed(o, t),
           t.env \in Environments, t.snapshot = None, written'[o] = {}, record[o] = "none"
    PROVE  (PlanOK(o) /\ ProgressOK(o))'
<1>1. task'[o] = Ended(t) /\ record'[o] = "none"
  BY DEF Failed, OutcomeTypes
<1> QED BY <1>1 DEF PlanOK, ProgressOK, Exists, Ended, Tasks

\* An operation that ends after it.
LEMMA FailedLate ==
    ASSUME OutcomeTypes, NEW o \in Ops, NEW t, Planned(t), Failed(o, t),
           written'[o] \subseteq git'[t.snapshot].files,
           t.env \in Production /\ written'[o] # {} => o \in approved'
    PROVE  (PlanOK(o) /\ ProgressOK(o))'
<1>1. task'[o] = Ended(t)
  BY DEF Failed, OutcomeTypes
<1> QED BY <1>1 DEF PlanOK, ProgressOK, Exists, Ended, Tasks, Planned

LEMMA OnboardWork ==
    ASSUME OutcomeTypes, NEW o \in Ops, NEW t, Planned(t), Onboard(o, t),
           written'[o] = {}, ~t.sent, record[o] = "none",
           t.todo = {} => git'[t.snapshot].files = {}
    PROVE  (PlanOK(o) /\ ProgressOK(o))'
<1>1. CASE Proceed(o, t)
  BY <1>1, ProceedWork
<1>2. CASE Failed(o, t)
  BY <1>2, FailedLate
<1>3. CASE task' = [task EXCEPT ![o] = [t EXCEPT !.pc = "onboard"]] /\ UNCHANGED <<record, answer, runs>>
  <2>1. task'[o] = [t EXCEPT !.pc = "onboard"] /\ record'[o] = "none"
    BY <1>3 DEF OutcomeTypes
  <2>2. /\ task'[o].env = t.env /\ task'[o].snapshot = t.snapshot /\ task'[o].pc = "onboard"
        /\ task'[o].todo = t.todo /\ task'[o].sent = t.sent
    BY <2>1 DEF Planned, Tasks
  <2> QED BY <2>1, <2>2 DEF PlanOK, ProgressOK, Exists, Planned
<1> QED BY <1>1, <1>2, <1>3 DEF Onboard

\* The other operations' tasks and rows are left alone.
Alone(o) == \A q \in Ops \ {o} : task'[q] = task[q] /\ record'[q] = record[q]

LEMMA FailedAlone ==
    ASSUME OutcomeTypes, NEW o \in Ops, NEW t, Failed(o, t) PROVE Alone(o)
BY DEF OutcomeTypes, Failed, Alone
LEMMA ProceedAlone ==
    ASSUME OutcomeTypes, NEW o \in Ops, NEW t, Proceed(o, t) PROVE Alone(o)
BY DEF OutcomeTypes, Proceed, Begin, CreateRow, Alone
LEMMA OnboardAlone ==
    ASSUME OutcomeTypes, NEW o \in Ops, NEW t, Onboard(o, t) PROVE Alone(o)
BY FailedAlone, ProceedAlone DEF OutcomeTypes, Onboard, Alone

\* A step of one operation.
LEMMA WorkOne ==
    ASSUME TypeOK, WorkInv, GitGrows, NEW o \in Ops, Alone(o),
           \A q \in Ops \ {o} : written'[q] = written[q],
           approved \subseteq approved',
           (PlanOK(o) /\ ProgressOK(o))'
    PROVE  WorkInv'
<1>1. ASSUME NEW q \in Ops, q # o
      PROVE  (PlanOK(q) /\ ProgressOK(q))'
  BY <1>1, WorkFrame DEF Alone, WorkInv
<1> QED BY <1>1 DEF WorkInv

LEMMA WorkSame ==
    ASSUME TypeOK, WorkInv, GitGrows, UNCHANGED <<task, record, written, approved>>
    PROVE  WorkInv'
<1>1. ASSUME NEW q \in Ops
      PROVE  (PlanOK(q) /\ ProgressOK(q))'
  <2>1. /\ task'[q] = task[q]
        /\ written'[q] = written[q]
        /\ record'[q] = record[q]
        /\ approved \subseteq approved'
    OBVIOUS
  <2>2. PlanOK(q) /\ ProgressOK(q)
    BY DEF WorkInv
  <2> QED BY <2>1, <2>2, WorkFrame
<1> QED BY <1>1 DEF WorkInv

LEMMA Committed1 ==
    ASSUME GitTypes, NEW s \in Snapshots, NEW e \in Environments, NEW ws \in SUBSET Workflows,
           NEW kind \in {"onboarding", "promotion", "backup"}, Commit(s, e, kind, ws)
    PROVE  git'[s] = [env |-> e, kind |-> kind, files |-> ws] /\ git'[s] # None
<1>1. git'[s] = [env |-> e, kind |-> kind, files |-> ws]
  BY DEF GitTypes, Commit
<1>2. [env |-> e, kind |-> kind, files |-> ws] \in Folders
  BY DEF Folders
<1> QED BY <1>1, <1>2, FolderAssumption

\* An operation that has a snapshot still has it after a step.
LEMMA PlannedStill ==
    ASSUME TypeOK, GitGrows, NEW o \in Ops, PlanOK(o), task[o].snapshot # None
    PROVE  Planned(task[o])
<1>1. task[o] \in Tasks
  BY DEF TypeOK
<1>2. /\ task[o].snapshot \in Snapshots
      /\ git[task[o].snapshot] # None
      /\ task[o].env \in Environments
  BY <1>1 DEF PlanOK, Exists, Tasks
<1>3. git'[task[o].snapshot] = git[task[o].snapshot]
  BY <1>2 DEF GitGrows
<1> QED BY <1>1, <1>2, <1>3 DEF Planned, PlanOK, Exists

LEMMA AsyncIsNoOp == Async \notin Ops
BY NullAssumption

LEMMA WorkStep ==
    ASSUME TypeOK, TypeOK', WorkInv, HoldersInv, Next
    PROVE  WorkInv'
<1>p. OutcomeTypes /\ GitTypes /\ HistoryTypes
  BY TypeParts
<1>w. ASSUME NEW o \in Ops
      PROVE  task[o] \in Tasks /\ PlanOK(o) /\ ProgressOK(o)
  BY <1>p DEF OutcomeTypes, WorkInv
<1>g. UNCHANGED git => GitGrows
  BY DEF GitGrows
<1>n. ASSUME NEW o \in Ops, New(o)
      PROVE  written[o] = {} /\ record[o] = "none"
  BY <1>n, <1>w DEF New, PlanOK
<1>i. /\ Idle \in Tasks /\ ~Idle.sent /\ Idle.snapshot = None /\ Idle.todo = {}
  BY IdleTyped DEF Idle
<1>1. ASSUME NEW o \in Ops, NEW e \in Environments,
             Initiate(o, e) \/ Backup(o, e)
      PROVE  WorkInv'
  <2>1. /\ task'[o].env = e /\ task'[o].pc = "export" /\ task'[o].snapshot = None
        /\ task'[o].todo = {} /\ task'[o].sent = FALSE
    BY <1>1, <1>p DEF Initiate, Backup, Idle, OutcomeTypes
  <2>2. written'[o] = {} /\ record'[o] = "none"
    BY <1>1, <1>n DEF Initiate, Backup, history
  <2>3. (PlanOK(o) /\ ProgressOK(o))'
    BY <2>1, <2>2 DEF PlanOK, ProgressOK
  <2>4. Alone(o)
    BY <1>1, <1>p DEF Initiate, Backup, Alone, OutcomeTypes
  <2> QED BY <1>1, <2>3, <2>4, <1>g, WorkOne DEF Initiate, Backup, history
<1>3. ASSUME NEW o \in Ops, NEW e \in Environments, NEW s \in Snapshots, InitiateRollback(o, e, s)
      PROVE  WorkInv'
  <2>1. PICK ws \in Loaded(s) \ {{}} :
            Proceed(o, [Idle EXCEPT !.kind = "rollback", !.env = e, !.snapshot = s, !.todo = ws])
    BY <1>3 DEF InitiateRollback
  <2> DEFINE t == [Idle EXCEPT !.kind = "rollback", !.env = e, !.snapshot = s, !.todo = ws]
  <2>2. /\ git[s] # None /\ git[s].env = e /\ git' = git
        /\ ws \subseteq git[s].files /\ ws # {}
    BY <1>3, <2>1 DEF InitiateRollback, Exists, Loaded
  <2>3. s # None
    BY NullAssumption
  <2>4. Planned(t) /\ ~t.sent /\ t.todo # {}
    <3>1. ws \in SUBSET Workflows
      BY <2>2, <1>p DEF GitTypes, Folders
    <3> QED BY <3>1, <2>2, <2>3, <1>i DEF Planned, Tasks, Kinds
  <2> HIDE DEF t
  <2>5. written'[o] = {}
    BY <1>3, <1>n DEF InitiateRollback
  <2>6. (PlanOK(o) /\ ProgressOK(o))'
    BY <2>1, <2>4, <2>5, <1>p, ProceedWork DEF t
  <2>7. Alone(o)
    BY <2>1, <1>p, ProceedAlone
  <2> QED BY <1>3, <2>6, <2>7, <1>g, WorkOne DEF InitiateRollback
<1>4. ASSUME NEW o \in Ops, NEW e \in Environments, ApplyApproved(o, e)
      PROVE  WorkInv'
  <2>1. pointer[e] \in Snapshots
    BY <1>4, <1>p DEF ApplyApproved, GitTypes
  <2> QED BY <1>4, <2>1, <1>3 DEF ApplyApproved
<1>5. ASSUME NEW o \in Ops, NEW source \in Environments, NEW e \in Environments,
             NEW ws \in SUBSET Workflows, NEW s \in Snapshots,
             InitiateByPointer(o, source, e, ws, s)
      PROVE  WorkInv'
  <2> DEFINE t == [Idle EXCEPT !.env = e, !.snapshot = s]
             f == [Idle EXCEPT !.env = e]
  <2>1. written'[o] = {} /\ record[o] = "none"
    BY <1>5, <1>n DEF InitiateByPointer
  <2>2. GitGrows
    BY <1>5, <1>p, CommitGrows DEF InitiateByPointer
  <2>3. CASE Commit(s, e, "promotion", ws) /\ Proceed(o, t)
    <3>1. Planned(t) /\ ~t.sent /\ t.env \in Production
      <4>1. git'[s] = [env |-> e, kind |-> "promotion", files |-> ws] /\ git'[s] # None
        BY <2>3, <1>p, Committed1
      <4>2. t.env = e /\ t.snapshot = s /\ t.todo = {} /\ t.sent = FALSE
        BY <1>i DEF Tasks
      <4>3. t \in Tasks
        BY <1>i DEF Tasks
      <4>4. e \in Production /\ s # None
        BY <1>5, NullAssumption DEF InitiateByPointer
      <4> HIDE DEF t
      <4> QED BY <4>1, <4>2, <4>3, <4>4 DEF Planned
    <3> HIDE DEF t
    <3>2. (PlanOK(o) /\ ProgressOK(o))'
      BY <2>3, <3>1, <2>1, <1>p, ProceedWork
    <3>3. Alone(o)
      BY <2>3, <1>p, ProceedAlone
    <3> QED BY <1>5, <2>2, <3>2, <3>3, WorkOne DEF InitiateByPointer
  <2>4. CASE Failed(o, f)
    <3>1. f \in Tasks /\ f.env = e /\ f.snapshot = None
      BY <1>i DEF Tasks
    <3> HIDE DEF f
    <3>2. (PlanOK(o) /\ ProgressOK(o))'
      BY <2>4, <3>1, <2>1, <1>p, FailedEarly
    <3>3. Alone(o)
      BY <2>4, <1>p, FailedAlone
    <3> QED BY <1>5, <2>2, <3>2, <3>3, WorkOne DEF InitiateByPointer
  <2> QED BY <1>5, <2>3, <2>4 DEF InitiateByPointer
<1>x. ASSUME NEW o \in Ops, task[o].pc = "export"
      PROVE  /\ task[o].env \in Environments /\ task[o].snapshot = None
             /\ written[o] = {} /\ record[o] = "none" /\ ~task[o].sent
  BY <1>x, <1>w DEF PlanOK, ProgressOK
<1>6. ASSUME NEW o \in Ops, ExportRefused(o)
      PROVE  WorkInv'
  <2>1. Failed(o, task[o]) /\ UNCHANGED <<git, written, approved>>
    BY <1>6 DEF ExportRefused
  <2>2. (PlanOK(o) /\ ProgressOK(o))'
    BY <1>6, <2>1, <1>p, <1>w, <1>x, FailedEarly DEF ExportRefused
  <2>3. Alone(o)
    BY <2>1, <1>p, FailedAlone
  <2> QED BY <2>1, <2>2, <2>3, <1>g, WorkOne
<1>7. ASSUME NEW o \in Ops, NEW ws \in SUBSET Workflows, NEW s \in Snapshots, Exported(o, ws, s)
      PROVE  WorkInv'
  <2> DEFINE t == [task[o] EXCEPT !.snapshot = s, !.todo = ws]
  <2>1. /\ task[o] \in Tasks /\ task[o].env \in Environments /\ task[o].snapshot = None
        /\ written'[o] = {} /\ record[o] = "none" /\ ~task[o].sent
        /\ UNCHANGED <<written, approved>>
    BY <1>7, <1>w, <1>x DEF Exported
  <2>2. GitGrows
    BY <1>7, <1>p, CommitGrows DEF Exported
  <2>3. CASE Commit(s, task[o].env, "promotion", ws) /\ Onboard(o, t)
    <3>1. git'[s] = [env |-> task[o].env, kind |-> "promotion", files |-> ws] /\ git'[s] # None
      BY <2>1, <2>3, <1>p, Committed1
    <3>2. Planned(t) /\ ~t.sent /\ t.todo = git'[t.snapshot].files
      <4>1. t.env = task[o].env /\ t.snapshot = s /\ t.todo = ws /\ t.sent = task[o].sent
        BY <2>1 DEF Tasks
      <4>2. t \in Tasks
        BY <2>1 DEF Tasks
      <4>3. s # None
        BY NullAssumption
      <4> HIDE DEF t
      <4> QED BY <2>1, <3>1, <4>1, <4>2, <4>3 DEF Planned
    <3> HIDE DEF t
    <3>3. (PlanOK(o) /\ ProgressOK(o))'
      BY <2>3, <3>2, <2>1, <1>p, OnboardWork
    <3>4. Alone(o)
      BY <2>3, <1>p, OnboardAlone
    <3> QED BY <2>1, <2>2, <3>3, <3>4, WorkOne
  <2>4. CASE Failed(o, task[o])
    <3>1. (PlanOK(o) /\ ProgressOK(o))'
      BY <2>4, <2>1, <1>p, FailedEarly
    <3>2. Alone(o)
      BY <2>4, <1>p, FailedAlone
    <3> QED BY <2>1, <2>2, <3>1, <3>2, WorkOne
  <2> QED BY <1>7, <2>3, <2>4 DEF Exported
<1>8. ASSUME NEW o \in Ops, NEW ws \in SUBSET Workflows, NEW s \in Snapshots,
             BackupExported(o, ws, s)
      PROVE  WorkInv'
  <2>1. /\ task[o] \in Tasks /\ task[o].env \in Environments /\ task[o].snapshot = None
        /\ written'[o] = {} /\ record[o] = "none" /\ ~task[o].sent
        /\ UNCHANGED <<written, approved>>
    BY <1>8, <1>w, <1>x DEF BackupExported
  <2>2. GitGrows
    BY <1>8, <1>p, CommitGrows DEF BackupExported
  <2>3. CASE /\ Commit(s, task[o].env, "backup", ws)
             /\ CreateRow(o, "completed")
             /\ task' = [task EXCEPT ![o] = [Ended(task[o]) EXCEPT !.snapshot = s]]
    <3>1. git'[s] = [env |-> task[o].env, kind |-> "backup", files |-> ws] /\ git'[s] # None
      BY <2>1, <2>3, <1>p, Committed1
    <3>2. /\ task'[o].env = task[o].env /\ task'[o].snapshot = s /\ task'[o].pc = "ended"
          /\ task'[o].todo = {} /\ task'[o].sent = FALSE
      BY <2>1, <2>3, <1>p DEF Ended, OutcomeTypes, Tasks
    <3>3. (PlanOK(o) /\ ProgressOK(o))'
      BY <2>1, <3>1, <3>2, NullAssumption DEF PlanOK, ProgressOK, Exists
    <3>4. Alone(o)
      BY <2>3, <1>p DEF Alone, CreateRow, OutcomeTypes
    <3> QED BY <2>1, <2>2, <3>3, <3>4, WorkOne
  <2>4. CASE Failed(o, task[o])
    <3>1. (PlanOK(o) /\ ProgressOK(o))'
      BY <2>4, <2>1, <1>p, FailedEarly
    <3>2. Alone(o)
      BY <2>4, <1>p, FailedAlone
    <3> QED BY <2>1, <2>2, <3>1, <3>2, WorkOne
  <2> QED BY <1>8, <2>3, <2>4 DEF BackupExported
<1>9. ASSUME NEW o \in Ops, Approve(o)
      PROVE  WorkInv'
  <2>1. PICK ws \in Loaded(task[o].snapshot) :
            IF ws = {}
            THEN Failed(o, task[o]) /\ UNCHANGED approved
            ELSE /\ Begin(o, [task[o] EXCEPT !.todo = ws])
                 /\ \/ UpdateRow(o, {"approved"}, "deploying")
                    \/ "outage" \in Faults /\ UNCHANGED record
                 /\ approved' = approved \cup {o}
    BY <1>9 DEF Approve
  <2>2. record[o] # "none" /\ UNCHANGED <<git, written>>
    BY <1>9 DEF Approve, Awaits
  <2>3. task[o].snapshot # None /\ task[o] \in Tasks
    BY <2>2, <1>w DEF PlanOK
  <2>4. Planned(task[o])
    BY <2>2, <2>3, <1>w, <1>g, PlannedStill
  <2>5. written'[o] \subseteq git[task[o].snapshot].files
    BY <2>2, <2>3, <1>w DEF PlanOK
  <2>6. CASE ws = {}
    <3>1. (PlanOK(o) /\ ProgressOK(o))'
      BY <2>6, <2>1, <2>2, <2>4, <2>5, <1>p, <1>w, FailedLate DEF ProgressOK
    <3>2. Alone(o)
      BY <2>6, <2>1, <1>p, FailedAlone
    <3> QED BY <2>6, <2>1, <2>2, <3>1, <3>2, <1>g, WorkOne
  <2>7. CASE ws # {}
    <3>1. ws \subseteq git[task[o].snapshot].files
      BY <2>1 DEF Loaded
    <3>2. /\ task'[o].env = task[o].env /\ task'[o].snapshot = task[o].snapshot
          /\ task'[o].pc = "deploy" /\ task'[o].todo = ws /\ task'[o].sent = task[o].sent
      <4> DEFINE t == [task[o] EXCEPT !.todo = ws]
      <4>1. /\ t.env = task[o].env /\ t.snapshot = task[o].snapshot
            /\ t.todo = ws /\ t.sent = task[o].sent
        BY <2>3 DEF Tasks
      <4>2. ws \in SUBSET Workflows
        <5>1. task[o].snapshot \in Snapshots /\ git[task[o].snapshot] # None
          BY <2>2, <2>4 DEF Planned
        <5> QED BY <5>1, <3>1, <1>p DEF GitTypes, Folders
      <4>3. t \in Tasks
        BY <2>3, <4>2 DEF Tasks
      <4>4. Begin(o, t)
        BY <2>1, <2>7
      <4> HIDE DEF t
      <4>5. task'[o] = [t EXCEPT !.pc = "deploy"]
        BY <4>1, <4>4, <2>7, <1>p DEF Begin, OutcomeTypes
      <4> QED BY <4>1, <4>3, <4>5 DEF Tasks
    <3>3. (PlanOK(o) /\ ProgressOK(o))'
      BY <3>1, <3>2, <2>1, <2>2, <2>3, <2>4, <2>5, <2>7, <1>w DEF PlanOK, ProgressOK, Exists, Planned
    <3>4. Alone(o)
      BY <2>1, <2>7, <1>p DEF Alone, Begin, UpdateRow, OutcomeTypes
    <3> QED BY <2>1, <2>2, <2>7, <3>3, <3>4, <1>g, WorkOne
  <2> QED BY <2>6, <2>7
<1>10. ASSUME NEW o \in Ops, Reject(o)
       PROVE  WorkInv'
  <2>1. task[o].snapshot # None
    BY <1>10, <1>w DEF Reject, PlanOK
  <2>2. (PlanOK(o) /\ ProgressOK(o))'
    BY <1>10, <2>1, <1>w DEF Reject, PlanOK, ProgressOK, Exists
  <2>3. Alone(o)
    BY <1>10, <1>p DEF Reject, Alone, OutcomeTypes
  <2> QED BY <1>10, <2>2, <2>3, <1>g, WorkOne DEF Reject
<1>11. ASSUME NEW o \in Ops, NEW w \in Workflows, Deploy(o, w)
       PROVE  WorkInv'
  <2>1. PICK delivered \in BOOLEAN, answered \in BOOLEAN :
            /\ answered => delivered
            /\ written' = IF delivered THEN [written EXCEPT ![o] = @ \cup {w}] ELSE written
            /\ LET t == [task[o] EXCEPT !.todo = @ \ {w},
                                        !.sent = @ \/ answered,
                                        !.failed = @ \/ ~answered]
               IN  IF t.todo # {}
                   THEN task' = [task EXCEPT ![o] = t] /\ UNCHANGED <<rows, runs>>
                   ELSE IF NothingSent(t)
                   THEN Failed(o, t)
                   ELSE /\ task' = [task EXCEPT ![o] = [Ended(t) EXCEPT !.pc = "verify"]]
                        /\ UpdateRowAtMost(o, {}, "verifying")
                        /\ UNCHANGED <<answer, runs>>
    BY <1>11 DEF Deploy
  <2> DEFINE t == [task[o] EXCEPT !.todo = @ \ {w},
                                  !.sent = @ \/ answered,
                                  !.failed = @ \/ ~answered]
  <2>2. /\ task[o] \in Tasks /\ task[o].pc = "deploy" /\ w \in task[o].todo
        /\ UNCHANGED <<git, approved>>
    BY <1>11, <1>w DEF Deploy
  <2>3. task[o].snapshot # None
    BY <2>2, <1>w DEF PlanOK
  <2>4. Planned(task[o])
    BY <2>2, <2>3, <1>w, <1>g, PlannedStill
  <2>5. t \in Tasks
    <3>1. /\ (task[o].sent \/ answered) \in BOOLEAN
          /\ (task[o].failed \/ ~answered) \in BOOLEAN
      OBVIOUS
    <3> QED BY <3>1, <2>2 DEF Tasks
  <2>6. /\ t.env = task[o].env /\ t.snapshot = task[o].snapshot /\ t.pc = "deploy"
        /\ t.todo = task[o].todo \ {w}
        /\ t.sent = (task[o].sent \/ answered)
        /\ t.failed = (task[o].failed \/ ~answered)
    BY <2>2 DEF Tasks
  <2> HIDE DEF t
  <2>7. Planned(t)
    BY <2>4, <2>5, <2>6 DEF Planned
  <2>8. /\ written'[o] \subseteq git'[t.snapshot].files
        /\ written[o] \subseteq written'[o]
        /\ answered => written'[o] # {}
        /\ \A q \in Ops \ {o} : written'[q] = written[q]
    <3>1. written[o] \subseteq git'[task[o].snapshot].files
      BY <2>2, <2>3, <1>w DEF PlanOK
    <3>2. w \in git'[task[o].snapshot].files
      BY <2>2, <2>4 DEF Planned
    <3>3. written' = written \/ (delivered /\ written' = [written EXCEPT ![o] = @ \cup {w}])
      BY <2>1
    <3> QED BY <3>1, <3>2, <3>3, <2>1, <2>6, <1>p DEF HistoryTypes
  <2>9. /\ t.sent => written'[o] # {}
        /\ t.env \in Production => o \in approved'
    BY <2>2, <2>6, <2>8, <1>w DEF ProgressOK
  <2>10. CASE task' = [task EXCEPT ![o] = t] /\ UNCHANGED <<rows, runs>>
    <3>1. task'[o] = t
      BY <2>10, <1>p DEF OutcomeTypes
    <3>2. (PlanOK(o) /\ ProgressOK(o))'
      BY <3>1, <2>6, <2>7, <2>8, <2>9 DEF PlanOK, ProgressOK, Exists, Planned
    <3>3. Alone(o)
      BY <2>10, <1>p DEF Alone, OutcomeTypes, rows
    <3> QED BY <2>2, <2>8, <3>2, <3>3, <1>g, WorkOne
  <2>11. CASE Failed(o, t)
    <3>1. (PlanOK(o) /\ ProgressOK(o))'
      BY <2>11, <2>7, <2>8, <2>9, <1>p, FailedLate
    <3>2. Alone(o)
      BY <2>11, <1>p, FailedAlone
    <3> QED BY <2>2, <2>8, <3>1, <3>2, <1>g, WorkOne
  <2>12. CASE /\ t.todo = {} /\ ~NothingSent(t)
              /\ task' = [task EXCEPT ![o] = [Ended(t) EXCEPT !.pc = "verify"]]
              /\ UpdateRowAtMost(o, {}, "verifying")
    <3>1. /\ task'[o].env = t.env /\ task'[o].snapshot = t.snapshot
          /\ task'[o].pc = "verify" /\ task'[o].todo = {} /\ task'[o].sent = FALSE
      BY <2>12, <2>5, <1>p DEF Ended, OutcomeTypes, Tasks
    <3>2. written'[o] # {}
      <4>1. CASE answered
        BY <4>1, <2>8
      <4>2. CASE ~answered
        BY <4>2, <2>6, <2>9, <2>12 DEF NothingSent
      <4> QED BY <4>1, <4>2
    <3>3. (PlanOK(o) /\ ProgressOK(o))'
      BY <3>1, <3>2, <2>7, <2>8, <2>9 DEF PlanOK, ProgressOK, Exists, Planned
    <3>4. Alone(o)
      BY <2>12, <1>p DEF Alone, UpdateRowAtMost, UpdateRow, OutcomeTypes
    <3> QED BY <2>2, <2>8, <3>3, <3>4, <1>g, WorkOne
  <2> QED BY <2>1, <2>10, <2>11, <2>12 DEF t
<1>12. ASSUME NEW o \in Ops, Verified(o)
       PROVE  WorkInv'
  <2>1. /\ task[o].pc = "verify" /\ task[o] \in Tasks
        /\ task' = [task EXCEPT ![o].pc = "ended"]
        /\ UNCHANGED <<git, written, approved>>
    BY <1>12, <1>w DEF Verified
  <2>2. task[o].snapshot # None
    BY <2>1, <1>w DEF PlanOK
  <2>3. /\ task'[o].env = task[o].env /\ task'[o].snapshot = task[o].snapshot
        /\ task'[o].pc = "ended" /\ task'[o].todo = task[o].todo /\ task'[o].sent = task[o].sent
    BY <2>1, <1>p DEF OutcomeTypes, Tasks
  <2>4. (PlanOK(o) /\ ProgressOK(o))'
    BY <2>1, <2>2, <2>3, <1>w DEF PlanOK, ProgressOK, Exists
  <2>5. Alone(o)
    BY <1>12, <2>1, <1>p DEF Verified, Alone, UpdateRowAtMost, UpdateRow, OutcomeTypes
  <2> QED BY <2>1, <2>4, <2>5, <1>g, WorkOne
<1>13. ASSUME NEW e \in Environments, TriggerOnboarding(e)
       PROVE  WorkInv'
  BY <1>13, <1>g, WorkSame DEF TriggerOnboarding, history
<1>h. ASSUME NEW e \in Environments, onboarding[e].by \in Ops, GitGrows
      PROVE  LET h == onboarding[e].by IN
             /\ Planned(task[h]) /\ written[h] = {} /\ ~task[h].sent
             /\ task[h].todo = {} => git'[task[h].snapshot].files = {}
  <2> DEFINE h == onboarding[e].by
  <2>1. h \in Ops /\ task[h].pc = "onboard"
    BY <1>h DEF HoldersInv
  <2>2. /\ task[h].snapshot # None /\ written[h] = {} /\ ~task[h].sent
        /\ task[h].todo = {} => git[task[h].snapshot].files = {}
    BY <2>1, <1>w DEF PlanOK, ProgressOK
  <2>3. Planned(task[h])
    BY <2>1, <2>2, <1>h, <1>w, PlannedStill
  <2>4. git'[task[h].snapshot] = git[task[h].snapshot]
    BY <2>1, <2>2, <2>3, <1>h, <1>w DEF GitGrows, PlanOK, Exists, Planned
  <2> QED BY <2>2, <2>3, <2>4
<1>14. ASSUME NEW e \in Environments, NEW ws \in SUBSET Workflows, NEW s \in Snapshots,
              OnboardingExported(e, ws, s)
       PROVE  WorkInv'
  <2>1. GitGrows
    BY <1>14, <1>p, <1>g, CommitGrows DEF OnboardingExported
  <2>2. UNCHANGED <<written, approved>>
    BY <1>14 DEF OnboardingExported
  <2>3. CASE OnboardingFailed(e) /\ onboarding[e].by \in Ops
    <3> PICK h \in Ops : h = onboarding[e].by
      BY <2>3
    <3>1. Planned(task[h]) /\ written'[h] = {}
      BY <2>1, <2>2, <2>3, <1>h
    <3>2. Failed(h, task[h])
      BY <2>3, AsyncIsNoOp DEF OnboardingFailed
    <3>3. (PlanOK(h) /\ ProgressOK(h))'
      BY <3>1, <3>2, <1>p, FailedLate
    <3>4. Alone(h)
      BY <3>1, <3>2, <1>p, FailedAlone
    <3> QED BY <2>1, <2>2, <3>1, <3>3, <3>4, WorkOne
  <2>4. CASE UNCHANGED <<task, rows, runs>>
    BY <2>1, <2>2, <2>4, WorkSame DEF rows
  <2> QED BY <1>14, <2>3, <2>4 DEF OnboardingExported, OnboardingFailed
<1>15. ASSUME NEW e \in Environments, Onboarded(e)
       PROVE  WorkInv'
  <2>1. UNCHANGED <<git, written, approved>>
    BY <1>15 DEF Onboarded
  <2>2. CASE onboarding[e].by \in Ops
    <3> PICK h \in Ops : h = onboarding[e].by
      BY <2>2
    <3>1. /\ Planned(task[h]) /\ written'[h] = {} /\ ~task[h].sent
          /\ task[h].todo = {} => git'[task[h].snapshot].files = {}
      BY <2>1, <2>2, <1>g, <1>h
    <3>2. Proceed(h, task[h])
      BY <1>15, <2>2, AsyncIsNoOp DEF Onboarded
    <3>3. (PlanOK(h) /\ ProgressOK(h))'
      BY <3>1, <3>2, <1>p, ProceedWork
    <3>4. Alone(h)
      BY <3>1, <3>2, <1>p, ProceedAlone
    <3> QED BY <2>1, <3>1, <3>3, <3>4, <1>g, WorkOne
  <2>3. CASE onboarding[e].by = Async
    <3>1. UNCHANGED <<task, rows>>
      BY <1>15, <2>3, AsyncIsNoOp DEF Onboarded
    <3> QED BY <2>1, <3>1, <1>g, WorkSame DEF rows
  <2> QED BY <1>15, <2>2, <2>3 DEF Onboarded
<1>16. CASE Crash
  <2>1. UNCHANGED <<git, record, written, approved>>
    BY <1>16 DEF Crash, history
  <2>2. ASSUME NEW q \in Ops
        PROVE  (PlanOK(q) /\ ProgressOK(q))'
    <3>1. CASE task'[q] = task[q]
      BY <3>1, <2>1, <1>w, <1>g, WorkFrame
    <3>2. CASE task'[q] = Ended(task[q])
      <4>1. /\ task'[q].env = task[q].env /\ task'[q].snapshot = task[q].snapshot
            /\ task'[q].pc = "ended" /\ task'[q].todo = {} /\ task'[q].sent = FALSE
        BY <3>2, <1>w DEF Ended, Tasks
      <4>2. task[q].pc # "none" \/ task'[q] = task[q]
        BY <1>16 DEF Crash, Live
      <4>3. CASE task[q].pc # "none"
        BY <4>1, <4>3, <2>1, <1>w DEF PlanOK, ProgressOK, Exists
      <4> QED BY <4>2, <4>3, <3>1
    <3> QED BY <1>16, <3>1, <3>2 DEF Crash
  <2> QED BY <2>2 DEF WorkInv
<1> QED BY <1>1, <1>3, <1>4, <1>5, <1>6, <1>7, <1>8, <1>9, <1>10, <1>11, <1>12, <1>13, <1>14,
           <1>15, <1>16 DEF Next

-----------------------------------------------------------------------------
(* The onboarding locks.                                                   *)

LEMMA HoldersFrame ==
    ASSUME TypeOK, HoldersInv, UNCHANGED onboarding, NEW o \in Ops, Alone(o),
           task[o].pc # "onboard"
    PROVE  HoldersInv'
BY DEF HoldersInv, Alone

\* The holder of a lock goes on, or ends, when it is released.
LEMMA HoldersReleased ==
    ASSUME TypeOK, HoldersInv, NEW e \in Environments, Released(e),
           \A q \in Ops : task'[q] = task[q] \/ q = onboarding[e].by
    PROVE  HoldersInv'
<1>1. onboarding' \in [Environments -> Locks] /\ onboarding'[e].by = None
  BY NobodyTyped DEF Released, Nobody, TypeOK
<1>2. ASSUME NEW d \in Environments, onboarding'[d].by \in Ops
      PROVE  d # e /\ onboarding'[d] = onboarding[d]
  BY <1>1, <1>2, NullAssumption DEF Released, TypeOK
<1> QED BY <1>2 DEF HoldersInv

LEMMA HoldersStep ==
    ASSUME TypeOK, WorkInv, HoldersInv, Next
    PROVE  HoldersInv'
<1>p. OutcomeTypes /\ GitTypes /\ HistoryTypes
  BY TypeParts
<1>w. ASSUME NEW o \in Ops
      PROVE  task[o] \in Tasks /\ PlanOK(o) /\ ProgressOK(o)
  BY <1>p DEF OutcomeTypes, WorkInv
<1>1. ASSUME NEW o \in Ops, NEW e \in Environments, Initiate(o, e) \/ Backup(o, e)
      PROVE  HoldersInv'
  <2>1. Alone(o)
    BY <1>1, <1>p DEF Initiate, Backup, Alone, OutcomeTypes
  <2> QED BY <1>1, <2>1, HoldersFrame DEF Initiate, Backup, New
<1>3. ASSUME NEW o \in Ops, NEW e \in Environments, NEW s \in Snapshots, InitiateRollback(o, e, s)
      PROVE  HoldersInv'
  <2>1. Alone(o)
    BY <1>3, <1>p, ProceedAlone DEF InitiateRollback
  <2> QED BY <1>3, <2>1, HoldersFrame DEF InitiateRollback, New
<1>4. ASSUME NEW o \in Ops, NEW e \in Environments, ApplyApproved(o, e)
      PROVE  HoldersInv'
  <2>1. pointer[e] \in Snapshots
    BY <1>4, <1>p DEF ApplyApproved, GitTypes
  <2> QED BY <1>4, <2>1, <1>3 DEF ApplyApproved
<1>5. ASSUME NEW o \in Ops, NEW source \in Environments, NEW e \in Environments,
             NEW ws \in SUBSET Workflows, NEW s \in Snapshots,
             InitiateByPointer(o, source, e, ws, s)
      PROVE  HoldersInv'
  <2>1. Alone(o)
    BY <1>5, <1>p, ProceedAlone, FailedAlone DEF InitiateByPointer
  <2> QED BY <1>5, <2>1, HoldersFrame DEF InitiateByPointer, New
<1>6. ASSUME NEW o \in Ops, ExportRefused(o)
      PROVE  HoldersInv'
  <2>1. Alone(o)
    BY <1>6, <1>p, FailedAlone DEF ExportRefused
  <2> QED BY <1>6, <2>1, HoldersFrame DEF ExportRefused
<1>7. ASSUME NEW o \in Ops, NEW ws \in SUBSET Workflows, NEW s \in Snapshots, Exported(o, ws, s)
      PROVE  HoldersInv'
  <2> DEFINE t == [task[o] EXCEPT !.snapshot = s, !.todo = ws]
  <2>1. /\ t \in [kind : Kinds, env : Environments, snapshot : Snapshots \cup {None},
                  pc : {"export"}, todo : SUBSET Workflows, sent : BOOLEAN, failed : BOOLEAN]
        /\ task[o].pc = "export"
    BY <1>7, <1>w DEF Exported, Tasks, PlanOK
  <2> HIDE DEF t
  <2>2. Onboard(o, t) \/ (Failed(o, task[o]) /\ UNCHANGED onboarding)
    BY <1>7 DEF Exported, t
  <2>3. Alone(o)
    BY <2>2, <1>p, OnboardAlone, FailedAlone
  <2>4. CASE UNCHANGED onboarding
    BY <2>1, <2>3, <2>4, HoldersFrame
  <2>5. CASE /\ onboarding' = [onboarding EXCEPT ![t.env] = [by |-> o, pc |-> "export"]]
             /\ task' = [task EXCEPT ![o] = [t EXCEPT !.pc = "onboard"]]
    <3>1. task'[o].pc = "onboard" /\ task'[o].env = t.env
      BY <2>1, <2>5, <1>p DEF OutcomeTypes
    <3>2. ASSUME NEW d \in Environments, onboarding'[d].by \in Ops
          PROVE  /\ task'[onboarding'[d].by].pc = "onboard"
                 /\ task'[onboarding'[d].by].env = d
      <4>1. CASE d = t.env
        BY <4>1, <3>1, <2>5, <1>p DEF GitTypes
      <4>2. CASE d # t.env
        <5>1. onboarding'[d] = onboarding[d]
          BY <4>2, <2>5, <1>p DEF GitTypes
        <5>2. onboarding[d].by # o
          BY <3>2, <5>1, <2>1 DEF HoldersInv
        <5> QED BY <3>2, <5>1, <5>2, <2>3 DEF HoldersInv, Alone
      <4> QED BY <4>1, <4>2
    <3> QED BY <3>2 DEF HoldersInv
  <2> QED BY <2>2, <2>4, <2>5 DEF Onboard
<1>8. ASSUME NEW o \in Ops, NEW ws \in SUBSET Workflows, NEW s \in Snapshots,
             BackupExported(o, ws, s)
      PROVE  HoldersInv'
  <2>1. Alone(o)
    BY <1>8, <1>p, FailedAlone DEF BackupExported, Alone, CreateRow, OutcomeTypes
  <2> QED BY <1>8, <2>1, HoldersFrame DEF BackupExported
<1>9. ASSUME NEW o \in Ops, Approve(o)
      PROVE  HoldersInv'
  <2>1. task[o].pc # "onboard" /\ UNCHANGED onboarding
    BY <1>9, <1>w DEF Approve, Awaits, ProgressOK
  <2>2. Alone(o)
    BY <1>9, <1>p, FailedAlone DEF Approve, Begin, UpdateRow, Alone, OutcomeTypes
  <2> QED BY <2>1, <2>2, HoldersFrame
<1>10. ASSUME NEW o \in Ops, Reject(o)
       PROVE  HoldersInv'
  BY <1>10 DEF Reject, HoldersInv
<1>11. ASSUME NEW o \in Ops, NEW w \in Workflows, Deploy(o, w)
       PROVE  HoldersInv'
  <2>1. Alone(o)
    <3>1. UNCHANGED rows \/ \E t : Failed(o, t) \/ UpdateRowAtMost(o, {}, "verifying")
      BY <1>11 DEF Deploy
    <3>2. \A q \in Ops \ {o} : record'[q] = record[q]
      BY <3>1, <1>p DEF rows, Failed, UpdateRowAtMost, UpdateRow, OutcomeTypes
    <3>3. \A q \in Ops \ {o} : task'[q] = task[q]
      BY <1>11, <1>p DEF Deploy, Failed, OutcomeTypes
    <3> QED BY <3>2, <3>3 DEF Alone
  <2> QED BY <1>11, <2>1, HoldersFrame DEF Deploy
<1>12. ASSUME NEW o \in Ops, Verified(o)
       PROVE  HoldersInv'
  <2>1. Alone(o)
    BY <1>12, <1>p DEF Verified, Alone, UpdateRowAtMost, UpdateRow, OutcomeTypes
  <2> QED BY <1>12, <2>1, HoldersFrame DEF Verified
<1>13. ASSUME NEW e \in Environments, TriggerOnboarding(e)
       PROVE  HoldersInv'
  <2>1. UNCHANGED task /\ onboarding' = [onboarding EXCEPT ![e] = [by |-> Async, pc |-> "export"]]
    BY <1>13 DEF TriggerOnboarding
  <2> QED BY <2>1, <1>p, AsyncIsNoOp DEF HoldersInv, GitTypes
<1>f. ASSUME NEW e \in Environments, OnboardingFailed(e)
      PROVE  HoldersInv'
  <2>1. \A q \in Ops : task'[q] = task[q] \/ q = onboarding[e].by
    BY <1>f, <1>p, FailedAlone DEF OnboardingFailed, Alone
  <2> QED BY <1>f, <2>1, HoldersReleased DEF OnboardingFailed
<1>14. ASSUME NEW e \in Environments, NEW ws \in SUBSET Workflows, NEW s \in Snapshots,
              OnboardingExported(e, ws, s)
       PROVE  HoldersInv'
  <2>1. CASE /\ onboarding' = [onboarding EXCEPT ![e].pc = "verify"]
             /\ UNCHANGED task
    <3>1. \A d \in Environments : onboarding'[d].by = onboarding[d].by
      BY <2>1, <1>p DEF GitTypes, Locks
    <3> QED BY <2>1, <3>1 DEF HoldersInv
  <2> QED BY <1>14, <1>f, <2>1 DEF OnboardingExported
<1>15. ASSUME NEW e \in Environments, Onboarded(e)
       PROVE  HoldersInv'
  <2>1. \A q \in Ops : task'[q] = task[q] \/ q = onboarding[e].by
    BY <1>15, <1>p, ProceedAlone DEF Onboarded, Alone
  <2> QED BY <1>15, <2>1, HoldersReleased DEF Onboarded
<1>16. CASE Crash
  <2>1. \A e \in Environments : onboarding'[e].by = None
    BY <1>16 DEF Crash, Nobody
  <2> QED BY <2>1, NullAssumption DEF HoldersInv
<1> QED BY <1>1, <1>3, <1>4, <1>5, <1>6, <1>7, <1>8, <1>9, <1>10, <1>11, <1>12, <1>13, <1>14,
           <1>15, <1>16 DEF Next

-----------------------------------------------------------------------------
\* The inductive invariant that the theorems share.
CoreInv == TypeOK /\ WorkInv /\ HoldersInv

LEMMA CoreInit ==
    ASSUME Init
    PROVE  CoreInv
<1>1. TypeOK
  <2>1. git \in [Snapshots -> Folders \cup {None}]
    <3>1. ASSUME NEW s \in Snapshots, NEW e \in Environments, Earlier[e] = s
          PROVE  [env |-> CHOOSE d \in Environments : Earlier[d] = s,
                  kind |-> "onboarding", files |-> Workflows] \in Folders
      BY <3>1 DEF Folders
    <3> QED BY <3>1 DEF Init
  <2> QED BY <2>1, IdleTyped, NobodyTyped, EarlierAssumption DEF Init, TypeOK, Statuses
<1>2. WorkInv
  BY DEF Init, WorkInv, PlanOK, ProgressOK, Idle
<1>3. HoldersInv
  BY NullAssumption DEF Init, HoldersInv, Nobody
<1> QED BY <1>1, <1>2, <1>3 DEF CoreInv

LEMMA CoreStep ==
    ASSUME CoreInv, [Next]_vars
    PROVE  CoreInv'
<1>1. CASE Next
  BY <1>1, TypeStep, WorkStep, HoldersStep DEF CoreInv
<1>2. CASE UNCHANGED vars
  BY <1>2 DEF CoreInv, TypeOK, WorkInv, PlanOK, ProgressOK, Exists, HoldersInv, vars, rows, history
<1> QED BY <1>1, <1>2

\* Every variable has its type, whatever fails.
THEOREM TypeCorrect == Spec => []TypeOK
<1>1. CoreInv => TypeOK
  BY DEF CoreInv
<1> QED BY <1>1, CoreInit, CoreStep, PTL DEF Spec

\* An instance is written only from a complete snapshot of its own environment,
\* and in production only after an approval, whatever fails.
THEOREM Committed == Spec => []WritesAreCommitted
<1>1. CoreInv => WritesAreCommitted
  <2> SUFFICES ASSUME CoreInv, NEW o \in Ops, written[o] # {}
               PROVE  /\ git[task[o].snapshot] # None
                      /\ git[task[o].snapshot].env = task[o].env
                      /\ written[o] \subseteq git[task[o].snapshot].files
                      /\ task[o].env \in Production => o \in approved
    BY DEF WritesAreCommitted
  <2>1. PlanOK(o) /\ ProgressOK(o)
    BY DEF CoreInv, WorkInv
  <2> QED BY <2>1 DEF PlanOK, ProgressOK, Exists
<1> QED BY <1>1, CoreInit, CoreStep, PTL DEF Spec

-----------------------------------------------------------------------------
(* What a pointer names.                                                   *)

\* An operation that has written keeps its snapshot.
KeepsSnapshot(o) ==
    written[o] # {} => written'[o] # {} /\ task'[o].snapshot = task[o].snapshot

LEMMA Keeps ==
    ASSUME CoreInv, Next
    PROVE  GitGrows /\ \A o \in Ops : KeepsSnapshot(o)
<1>p. OutcomeTypes /\ GitTypes /\ HistoryTypes
  BY TypeParts DEF CoreInv
<1>w. ASSUME NEW o \in Ops
      PROVE  task[o] \in Tasks /\ PlanOK(o) /\ ProgressOK(o)
  BY <1>p DEF OutcomeTypes, WorkInv, CoreInv
<1>g. UNCHANGED git => GitGrows
  BY DEF GitGrows
<1>k. ASSUME NEW o \in Ops, Alone(o), UNCHANGED written, KeepsSnapshot(o)
      PROVE  \A q \in Ops : KeepsSnapshot(q)
  BY <1>k DEF Alone, KeepsSnapshot
<1>1. ASSUME NEW o \in Ops, NEW e \in Environments, Initiate(o, e) \/ Backup(o, e)
      PROVE  GitGrows /\ \A q \in Ops : KeepsSnapshot(q)
  <2>1. Alone(o)
    BY <1>1, <1>p DEF Initiate, Backup, Alone, OutcomeTypes
  <2> QED BY <1>1, <2>1, <1>g, <1>k, <1>w DEF Initiate, Backup, New, KeepsSnapshot, ProgressOK, history
<1>3. ASSUME NEW o \in Ops, NEW e \in Environments, NEW s \in Snapshots, InitiateRollback(o, e, s)
      PROVE  GitGrows /\ \A q \in Ops : KeepsSnapshot(q)
  <2>1. Alone(o)
    BY <1>3, <1>p, ProceedAlone DEF InitiateRollback
  <2> QED BY <1>3, <2>1, <1>g, <1>k, <1>w DEF InitiateRollback, New, KeepsSnapshot, ProgressOK
<1>4. ASSUME NEW o \in Ops, NEW e \in Environments, ApplyApproved(o, e)
      PROVE  GitGrows /\ \A q \in Ops : KeepsSnapshot(q)
  <2>1. pointer[e] \in Snapshots
    BY <1>4, <1>p DEF ApplyApproved, GitTypes
  <2> QED BY <1>4, <2>1, <1>3 DEF ApplyApproved
<1>5. ASSUME NEW o \in Ops, NEW source \in Environments, NEW e \in Environments,
             NEW ws \in SUBSET Workflows, NEW s \in Snapshots,
             InitiateByPointer(o, source, e, ws, s)
      PROVE  GitGrows /\ \A q \in Ops : KeepsSnapshot(q)
  <2>1. Alone(o)
    BY <1>5, <1>p, ProceedAlone, FailedAlone DEF InitiateByPointer
  <2>2. GitGrows
    BY <1>5, <1>p, CommitGrows DEF InitiateByPointer
  <2> QED BY <1>5, <2>1, <2>2, <1>k, <1>w DEF InitiateByPointer, New, KeepsSnapshot, ProgressOK
<1>6. ASSUME NEW o \in Ops, ExportRefused(o)
      PROVE  GitGrows /\ \A q \in Ops : KeepsSnapshot(q)
  <2>1. Alone(o)
    BY <1>6, <1>p, FailedAlone DEF ExportRefused
  <2> QED BY <1>6, <2>1, <1>g, <1>k, <1>w DEF ExportRefused, KeepsSnapshot, ProgressOK
<1>7. ASSUME NEW o \in Ops, NEW ws \in SUBSET Workflows, NEW s \in Snapshots,
             Exported(o, ws, s) \/ BackupExported(o, ws, s)
      PROVE  GitGrows /\ \A q \in Ops : KeepsSnapshot(q)
  <2>1. Alone(o)
    BY <1>7, <1>p, FailedAlone, OnboardAlone
       DEF Exported, BackupExported, Alone, CreateRow, OutcomeTypes
  <2>2. GitGrows
    BY <1>7, <1>p, CommitGrows DEF Exported, BackupExported
  <2> QED BY <1>7, <2>1, <2>2, <1>k, <1>w DEF Exported, BackupExported, KeepsSnapshot, ProgressOK
<1>e. ASSUME NEW t \in Tasks
      PROVE  Ended(t).snapshot = t.snapshot
  BY DEF Ended, Tasks
<1>9. ASSUME NEW o \in Ops, Approve(o)
      PROVE  GitGrows /\ \A q \in Ops : KeepsSnapshot(q)
  <2>1. UNCHANGED <<git, written>>
    BY <1>9 DEF Approve
  <2>2. Alone(o)
    BY <1>9, <1>p, FailedAlone DEF Approve, Begin, UpdateRow, Alone, OutcomeTypes
  <2>3. task'[o].snapshot = task[o].snapshot
    <3>1. CASE Failed(o, task[o])
      BY <3>1, <1>p, <1>w, <1>e DEF Failed, OutcomeTypes
    <3>2. CASE \E ws \in Loaded(task[o].snapshot) : Begin(o, [task[o] EXCEPT !.todo = ws])
      BY <3>2, <1>p, <1>w DEF Begin, OutcomeTypes, Tasks
    <3> QED BY <1>9, <3>1, <3>2 DEF Approve
  <2> QED BY <2>1, <2>2, <2>3, <1>g, <1>k DEF KeepsSnapshot
<1>10. ASSUME NEW o \in Ops, Reject(o)
       PROVE  GitGrows /\ \A q \in Ops : KeepsSnapshot(q)
  BY <1>10, <1>g DEF Reject, KeepsSnapshot
<1>11. ASSUME NEW o \in Ops, NEW w \in Workflows, Deploy(o, w)
       PROVE  GitGrows /\ \A q \in Ops : KeepsSnapshot(q)
  <2>1. PICK delivered \in BOOLEAN, answered \in BOOLEAN :
            /\ written' = IF delivered THEN [written EXCEPT ![o] = @ \cup {w}] ELSE written
            /\ LET t == [task[o] EXCEPT !.todo = @ \ {w},
                                        !.sent = @ \/ answered,
                                        !.failed = @ \/ ~answered]
               IN  IF t.todo # {}
                   THEN task' = [task EXCEPT ![o] = t] /\ UNCHANGED <<rows, runs>>
                   ELSE IF NothingSent(t)
                   THEN Failed(o, t)
                   ELSE /\ task' = [task EXCEPT ![o] = [Ended(t) EXCEPT !.pc = "verify"]]
                        /\ UpdateRowAtMost(o, {}, "verifying")
                        /\ UNCHANGED <<answer, runs>>
    BY <1>11 DEF Deploy
  <2> DEFINE t == [task[o] EXCEPT !.todo = @ \ {w},
                                  !.sent = @ \/ answered,
                                  !.failed = @ \/ ~answered]
  <2>2. t.snapshot = task[o].snapshot
    BY <1>w DEF Tasks
  <2>3. Ended(t).snapshot = t.snapshot /\ [Ended(t) EXCEPT !.pc = "verify"].snapshot = t.snapshot
    BY <1>w DEF Ended, Tasks
  <2> HIDE DEF t
  <2>4. /\ task'[o] \in {t, Ended(t), [Ended(t) EXCEPT !.pc = "verify"]}
        /\ \A q \in Ops \ {o} : task'[q] = task[q]
    BY <2>1, <1>p DEF Failed, OutcomeTypes, t
  <2>5. /\ \A q \in Ops : written[q] \subseteq written'[q]
        /\ GitGrows
    BY <1>11, <2>1, <1>g, <1>p DEF HistoryTypes, Deploy
  <2> QED BY <2>2, <2>3, <2>4, <2>5 DEF KeepsSnapshot
<1>12. ASSUME NEW o \in Ops, Verified(o)
       PROVE  GitGrows /\ \A q \in Ops : KeepsSnapshot(q)
  <2>1. UNCHANGED <<git, written>> /\ task' = [task EXCEPT ![o].pc = "ended"]
    BY <1>12 DEF Verified
  <2>2. \A q \in Ops : task'[q].snapshot = task[q].snapshot
    BY <2>1, <1>p DEF OutcomeTypes, Tasks
  <2> QED BY <2>1, <2>2, <1>g DEF KeepsSnapshot
<1>13. ASSUME NEW e \in Environments, TriggerOnboarding(e)
       PROVE  GitGrows /\ \A q \in Ops : KeepsSnapshot(q)
  BY <1>13, <1>g DEF TriggerOnboarding, KeepsSnapshot, history
<1>f. ASSUME NEW e \in Environments, UNCHANGED written,
             OnboardingFailed(e) \/ UNCHANGED task \/ Onboarded(e)
      PROVE  \A q \in Ops : KeepsSnapshot(q)
  <2>1. \A q \in Ops : task'[q] = task[q] \/ q = onboarding[e].by
    BY <1>f, <1>p, FailedAlone, ProceedAlone DEF OnboardingFailed, Onboarded, Alone
  <2>2. onboarding[e].by \in Ops => written[onboarding[e].by] = {}
    BY <1>w DEF CoreInv, HoldersInv, ProgressOK
  <2> QED BY <1>f, <2>1, <2>2 DEF KeepsSnapshot
<1>14. ASSUME NEW e \in Environments, NEW ws \in SUBSET Workflows, NEW s \in Snapshots,
              OnboardingExported(e, ws, s)
       PROVE  GitGrows /\ \A q \in Ops : KeepsSnapshot(q)
  <2>1. GitGrows
    BY <1>14, <1>p, <1>g, CommitGrows DEF OnboardingExported
  <2>2. UNCHANGED written /\ (OnboardingFailed(e) \/ UNCHANGED task)
    BY <1>14 DEF OnboardingExported
  <2> QED BY <2>1, <2>2, <1>f
<1>15. ASSUME NEW e \in Environments, Onboarded(e)
       PROVE  GitGrows /\ \A q \in Ops : KeepsSnapshot(q)
  BY <1>15, <1>g, <1>f DEF Onboarded
<1>16. CASE Crash
  BY <1>16, <1>g, <1>w, <1>e DEF Crash, KeepsSnapshot, history
<1> QED BY <1>1, <1>3, <1>4, <1>5, <1>6, <1>7, <1>9, <1>10, <1>11, <1>12, <1>13, <1>14,
           <1>15, <1>16 DEF Next

\* PointerWasDeployed of one environment.
NamesDeployed(e) ==
    pointer[e] # None =>
        /\ Exists(e, pointer[e])
        /\ \/ git[pointer[e]].kind = "onboarding"
           \/ git[pointer[e]].files = {}
           \/ \E o \in Ops : task[o].snapshot = pointer[e] /\ written[o] # {}

LEMMA PointerParts == PointerWasDeployed <=> \A e \in Environments : NamesDeployed(e)
BY DEF PointerWasDeployed, NamesDeployed

LEMMA PointerPartsNext == PointerWasDeployed' <=> \A e \in Environments : NamesDeployed(e)'
BY DEF PointerWasDeployed, NamesDeployed

LEMMA PointerStep ==
    ASSUME CoreInv, PointerWasDeployed, Next
    PROVE  PointerWasDeployed'
<1>p. OutcomeTypes /\ GitTypes /\ HistoryTypes
  BY TypeParts DEF CoreInv
<1>k. GitGrows /\ \A o \in Ops : KeepsSnapshot(o)
  BY Keeps
<1>f. ASSUME NEW e \in Environments, pointer'[e] = pointer[e]
      PROVE  NamesDeployed(e)'
  <2>1. NamesDeployed(e)
    BY PointerParts
  <2>2. CASE pointer[e] = None
    BY <1>f, <2>2 DEF NamesDeployed
  <2>3. CASE pointer[e] # None
    <3>1. pointer[e] \in Snapshots /\ git'[pointer[e]] = git[pointer[e]]
      BY <2>1, <2>3, <1>p, <1>k DEF GitTypes, GitGrows, NamesDeployed, Exists
    <3>2. ASSUME NEW o \in Ops, task[o].snapshot = pointer[e], written[o] # {}
          PROVE  task'[o].snapshot = pointer'[e] /\ written'[o] # {}
      BY <1>f, <3>2, <1>k DEF KeepsSnapshot
    <3> QED BY <1>f, <2>1, <3>1, <3>2 DEF NamesDeployed, Exists
  <2> QED BY <2>2, <2>3
<1>1. CASE UNCHANGED pointer
  BY <1>1, <1>f, PointerPartsNext
<1>2. ASSUME NEW o \in Ops, Verified(o)
      PROVE  PointerWasDeployed'
  <2>1. /\ task[o] \in Tasks /\ PlanOK(o) /\ ProgressOK(o) /\ task[o].pc = "verify"
        /\ UNCHANGED <<git, written>> /\ task' = [task EXCEPT ![o].pc = "ended"]
    BY <1>2, <1>p DEF Verified, CoreInv, WorkInv, OutcomeTypes
  <2>2. /\ task[o].snapshot # None /\ Exists(task[o].env, task[o].snapshot)
        /\ task'[o].snapshot = task[o].snapshot
    BY <2>1, <1>p DEF PlanOK, OutcomeTypes, Tasks
  <2>3. \/ UNCHANGED pointer
        \/ pointer' = [pointer EXCEPT ![task[o].env] = task[o].snapshot]
    BY <1>2 DEF Verified
  <2>4. ASSUME NEW e \in Environments, pointer'[e] # pointer[e]
        PROVE  NamesDeployed(e)'
    <3>1. e = task[o].env /\ pointer'[e] = task[o].snapshot
      BY <2>3, <2>4, <1>p DEF GitTypes
    <3>2. written'[o] # {} \/ git'[pointer'[e]].files = {}
      BY <2>1, <3>1 DEF ProgressOK
    <3> QED BY <2>1, <2>2, <3>1, <3>2 DEF NamesDeployed, Exists
  <2> QED BY <2>4, <1>f, PointerPartsNext
<1>3. ASSUME NEW e \in Environments, NEW ws \in SUBSET Workflows, NEW s \in Snapshots,
             OnboardingExported(e, ws, s)
      PROVE  PointerWasDeployed'
  <2>1. CASE UNCHANGED pointer
    BY <2>1, <1>1
  <2>2. CASE /\ Commit(s, e, "onboarding", ws)
             /\ pointer' = [pointer EXCEPT ![e] = s]
    <3>1. git'[s] = [env |-> e, kind |-> "onboarding", files |-> ws] /\ git'[s] # None
      BY <2>2, <1>p, Committed1
    <3>2. pointer'[e] = s /\ \A d \in Environments \ {e} : pointer'[d] = pointer[d]
      BY <2>2, <1>p DEF GitTypes
    <3>3. NamesDeployed(e)'
      BY <3>1, <3>2 DEF NamesDeployed, Exists
    <3> QED BY <3>2, <3>3, <1>f, PointerPartsNext
  <2> QED BY <1>3, <2>1, <2>2 DEF OnboardingExported
<1>4. \/ UNCHANGED pointer
      \/ \E o \in Ops : Verified(o)
      \/ \E e \in Environments, ws \in SUBSET Workflows, s \in Snapshots :
            OnboardingExported(e, ws, s)
  <2>1. ASSUME NEW o \in Ops, NEW e \in Environments, NEW s, NEW ws, NEW source,
               \/ Initiate(o, e) \/ Backup(o, e) \/ ApplyApproved(o, e)
               \/ InitiateRollback(o, e, s) \/ InitiateByPointer(o, source, e, ws, s)
               \/ Exported(o, ws, s) \/ BackupExported(o, ws, s)
        PROVE  UNCHANGED pointer
    BY <2>1 DEF Initiate, Backup, ApplyApproved, InitiateRollback, InitiateByPointer,
                Exported, BackupExported
  <2>2. ASSUME NEW o \in Ops, NEW w,
               ExportRefused(o) \/ Approve(o) \/ Reject(o) \/ Deploy(o, w)
        PROVE  UNCHANGED pointer
    BY <2>2 DEF ExportRefused, Approve, Reject, Deploy
  <2>3. ASSUME NEW e \in Environments, TriggerOnboarding(e) \/ Onboarded(e) \/ Crash
        PROVE  UNCHANGED pointer
    BY <2>3 DEF TriggerOnboarding, Onboarded, Crash
  <2>4. Crash => UNCHANGED pointer
    BY DEF Crash
  <2>5. ASSUME NEW o \in Ops,
               \/ \E e \in Environments :
                     \/ Initiate(o, e) \/ Backup(o, e) \/ ApplyApproved(o, e)
                     \/ \E s \in Snapshots : InitiateRollback(o, e, s)
                     \/ \E source \in Environments, ws \in SUBSET Workflows, s \in Snapshots :
                           InitiateByPointer(o, source, e, ws, s)
               \/ \E ws \in SUBSET Workflows, s \in Snapshots :
                     Exported(o, ws, s) \/ BackupExported(o, ws, s)
        PROVE  UNCHANGED pointer
    <3>1. CASE \E ws \in SUBSET Workflows, s \in Snapshots :
                  Exported(o, ws, s) \/ BackupExported(o, ws, s)
      BY <3>1 DEF Exported, BackupExported
    <3> QED BY <2>1, <2>5, <3>1
  <2> QED BY <2>2, <2>3, <2>4, <2>5 DEF Next
<1> QED BY <1>1, <1>2, <1>3, <1>4

\* What a pointer names is in the environment's own folder and is a baseline, or
\* empty, or was deployed in part at least, whatever fails.
THEOREM PointerDeployed == Spec => []PointerWasDeployed
<1>1. Init => PointerWasDeployed
  <2> SUFFICES ASSUME Init, NEW e \in Environments, pointer[e] # None
               PROVE  /\ Exists(e, pointer[e])
                      /\ git[pointer[e]].kind = "onboarding"
    BY DEF PointerWasDeployed
  <2>1. pointer[e] = Earlier[e] /\ pointer[e] \in Snapshots
    BY EarlierAssumption DEF Init
  <2>2. git[pointer[e]] = [env |-> CHOOSE d \in Environments : Earlier[d] = pointer[e],
                           kind |-> "onboarding", files |-> Workflows]
    BY <2>1 DEF Init
  <2>3. (CHOOSE d \in Environments : Earlier[d] = pointer[e]) = e
    BY <2>1, EarlierAssumption
  <2>4. git[pointer[e]] = [env |-> e, kind |-> "onboarding", files |-> Workflows]
    BY <2>2, <2>3, Zenon
  <2>5. [env |-> e, kind |-> "onboarding", files |-> Workflows] # None
    BY FolderAssumption DEF Folders
  <2> QED BY <2>4, <2>5 DEF Exists
<1>2. CoreInv /\ PointerWasDeployed /\ [Next]_vars => PointerWasDeployed'
  <2>1. CoreInv /\ PointerWasDeployed /\ UNCHANGED vars => PointerWasDeployed'
    BY DEF PointerWasDeployed, Exists, vars, history
  <2> QED BY <2>1, PointerStep
<1> QED BY <1>1, <1>2, CoreInit, CoreStep, PTL DEF Spec

-----------------------------------------------------------------------------
(* Decisions.                                                              *)

\* Of the other operations, what decisions are about is left alone.
Undecided(o) ==
    /\ Alone(o)
    /\ \A q \in Ops \ {o} : runs'[q] = runs[q] /\ (q \in refused' <=> q \in refused)

LEMMA DecisionOne ==
    ASSUME DecisionInv, NEW o \in Ops, Undecided(o), DecisionOK(o)'
    PROVE  DecisionInv'
<1>1. ASSUME NEW q \in Ops, q # o
      PROVE  DecisionOK(q)'
  BY <1>1 DEF DecisionInv, DecisionOK, Undecided, Alone
<1> QED BY <1>1 DEF DecisionInv

LEMMA FailedDecision ==
    ASSUME OutcomeTypes, NEW o \in Ops, NEW t \in Tasks, Failed(o, t), UNCHANGED refused,
           DecisionOK(o)
    PROVE  Undecided(o) /\ DecisionOK(o)'
<1>1. task'[o].pc = "ended" /\ UNCHANGED <<record, runs>>
  BY DEF Failed, Ended, OutcomeTypes, Tasks
<1>2. Undecided(o)
  BY <1>1, FailedAlone DEF Undecided
<1> QED BY <1>1, <1>2 DEF DecisionOK

LEMMA ProceedDecision ==
    ASSUME OutcomeTypes, NEW o \in Ops, NEW t \in Tasks, Proceed(o, t), UNCHANGED refused,
           DecisionOK(o), record[o] = "none", runs[o] = "never", o \notin refused
    PROVE  Undecided(o) /\ DecisionOK(o)'
<1>1. CASE t.env \in Production
  <2>1. task'[o].pc = "ended" /\ UNCHANGED runs
    <3>1. Ended(t).pc = "ended"
      BY DEF Ended, Tasks
    <3> QED BY <1>1, <3>1 DEF Proceed, OutcomeTypes
  <2> QED BY <2>1, ProceedAlone DEF Undecided, DecisionOK
<1>2. CASE t.env \notin Production
  <2>1. Begin(o, t) /\ UNCHANGED record
    BY <1>2 DEF Proceed
  <2>2. /\ task'[o].pc \in {"deploy", "verify"}
        /\ runs'[o] = "once"
        /\ \A q \in Ops \ {o} : runs'[q] = runs[q]
    BY <2>1 DEF Begin, OutcomeTypes, Tasks
  <2> QED BY <2>1, <2>2, ProceedAlone DEF Undecided, DecisionOK
<1> QED BY <1>1, <1>2

\* As long as an approval is written at least once, it is carried out once, and
\* never after a rejection.
LEMMA DecisionStep ==
    ASSUME CoreInv, DecisionInv, Next, "outage" \notin Faults
    PROVE  DecisionInv'
<1>p. OutcomeTypes /\ GitTypes /\ HistoryTypes
  BY TypeParts DEF CoreInv
<1>w. ASSUME NEW o \in Ops
      PROVE  task[o] \in Tasks /\ PlanOK(o) /\ ProgressOK(o) /\ DecisionOK(o)
  BY <1>p DEF OutcomeTypes, WorkInv, CoreInv, DecisionInv
<1>e. ASSUME NEW o \in Ops, task[o].pc \in {"none", "export", "onboard"}
      PROVE  record[o] = "none" /\ runs[o] = "never" /\ o \notin refused
  BY <1>e, <1>w DEF ProgressOK, DecisionOK
<1>n. ASSUME NEW o \in Ops, New(o)
      PROVE  record[o] = "none" /\ runs[o] = "never" /\ o \notin refused
  BY <1>n, <1>e DEF New
<1>1. ASSUME NEW o \in Ops, NEW e \in Environments, Initiate(o, e) \/ Backup(o, e)
      PROVE  DecisionInv'
  <2>1. /\ task'[o].pc = "export" /\ UNCHANGED <<record, runs, refused>>
        /\ Undecided(o)
    BY <1>1, <1>p DEF Initiate, Backup, Undecided, Alone, Idle, OutcomeTypes, history
  <2>2. record[o] = "none" /\ runs[o] = "never" /\ o \notin refused
    BY <1>1, <1>n DEF Initiate, Backup
  <2>3. DecisionOK(o)'
    BY <2>1, <2>2 DEF DecisionOK
  <2> QED BY <2>1, <2>3, DecisionOne
<1>3. ASSUME NEW o \in Ops, NEW e \in Environments, NEW s \in Snapshots, InitiateRollback(o, e, s)
      PROVE  DecisionInv'
  <2>1. PICK ws \in Loaded(s) \ {{}} :
            Proceed(o, [Idle EXCEPT !.kind = "rollback", !.env = e, !.snapshot = s, !.todo = ws])
    BY <1>3 DEF InitiateRollback
  <2>2. ws \in SUBSET Workflows
    BY <1>3, <1>p DEF InitiateRollback, Exists, Loaded, GitTypes, Folders
  <2>3. [Idle EXCEPT !.kind = "rollback", !.env = e, !.snapshot = s, !.todo = ws] \in Tasks
    BY <2>2, IdleTyped DEF Tasks, Kinds
  <2>4. Undecided(o) /\ DecisionOK(o)'
    BY <1>3, <2>1, <2>3, <1>p, <1>n, <1>w, ProceedDecision DEF InitiateRollback
  <2> QED BY <2>4, DecisionOne
<1>4. ASSUME NEW o \in Ops, NEW e \in Environments, ApplyApproved(o, e)
      PROVE  DecisionInv'
  <2>1. pointer[e] \in Snapshots
    BY <1>4, <1>p DEF ApplyApproved, GitTypes
  <2> QED BY <1>4, <2>1, <1>3 DEF ApplyApproved
<1>5. ASSUME NEW o \in Ops, NEW source \in Environments, NEW e \in Environments,
             NEW ws \in SUBSET Workflows, NEW s \in Snapshots,
             InitiateByPointer(o, source, e, ws, s)
      PROVE  DecisionInv'
  <2>1. [Idle EXCEPT !.env = e, !.snapshot = s] \in Tasks /\ [Idle EXCEPT !.env = e] \in Tasks
    BY IdleTyped DEF Tasks
  <2>2. /\ New(o) /\ UNCHANGED refused
        /\ \/ Proceed(o, [Idle EXCEPT !.env = e, !.snapshot = s])
           \/ Failed(o, [Idle EXCEPT !.env = e])
    BY <1>5 DEF InitiateByPointer
  <2>3. Undecided(o) /\ DecisionOK(o)'
    BY <2>1, <2>2, <1>p, <1>n, <1>w, ProceedDecision, FailedDecision
  <2> QED BY <2>3, DecisionOne
<1>6. ASSUME NEW o \in Ops, ExportRefused(o)
      PROVE  DecisionInv'
  <2>1. Undecided(o) /\ DecisionOK(o)'
    BY <1>6, <1>p, <1>w, FailedDecision DEF ExportRefused
  <2> QED BY <2>1, DecisionOne
<1>7. ASSUME NEW o \in Ops, NEW ws \in SUBSET Workflows, NEW s \in Snapshots, Exported(o, ws, s)
      PROVE  DecisionInv'
  <2> DEFINE t == [task[o] EXCEPT !.snapshot = s, !.todo = ws]
  <2>1. t \in Tasks /\ record[o] = "none" /\ runs[o] = "never" /\ o \notin refused
        /\ UNCHANGED refused
    BY <1>7, <1>w, <1>e DEF Exported, Tasks
  <2> HIDE DEF t
  <2>2. Onboard(o, t) \/ Failed(o, task[o])
    BY <1>7 DEF Exported, t
  <2>3. CASE Proceed(o, t) \/ Failed(o, t) \/ Failed(o, task[o])
    <3>1. Undecided(o) /\ DecisionOK(o)'
      BY <2>1, <2>3, <1>p, <1>w, ProceedDecision, FailedDecision
    <3> QED BY <3>1, DecisionOne
  <2>4. CASE /\ task' = [task EXCEPT ![o] = [t EXCEPT !.pc = "onboard"]]
             /\ UNCHANGED <<record, answer, runs>>
    <3>1. task'[o].pc = "onboard"
      BY <2>1, <2>4, <1>p DEF OutcomeTypes, Tasks
    <3>2. DecisionOK(o)'
      BY <2>1, <2>4, <3>1 DEF DecisionOK
    <3>3. Undecided(o)
      BY <2>1, <2>4, <1>p DEF Undecided, Alone, OutcomeTypes
    <3> QED BY <3>2, <3>3, DecisionOne
  <2> QED BY <2>2, <2>3, <2>4 DEF Onboard
<1>8. ASSUME NEW o \in Ops, NEW ws \in SUBSET Workflows, NEW s \in Snapshots,
             BackupExported(o, ws, s)
      PROVE  DecisionInv'
  <2>1. record[o] = "none" /\ runs[o] = "never" /\ o \notin refused /\ UNCHANGED refused
    BY <1>8, <1>e DEF BackupExported
  <2>2. CASE Failed(o, task[o])
    <3>1. Undecided(o) /\ DecisionOK(o)'
      BY <2>1, <2>2, <1>p, <1>w, FailedDecision
    <3> QED BY <3>1, DecisionOne
  <2>3. CASE /\ CreateRow(o, "completed")
             /\ task' = [task EXCEPT ![o] = [Ended(task[o]) EXCEPT !.snapshot = s]]
             /\ UNCHANGED <<answer, runs>>
    <3>1. task'[o].pc = "ended"
      BY <2>3, <1>p, <1>w DEF Ended, OutcomeTypes, Tasks
    <3>2. DecisionOK(o)'
      BY <2>1, <2>3, <3>1 DEF DecisionOK
    <3>3. Undecided(o)
      BY <2>1, <2>3, <1>p DEF Undecided, Alone, CreateRow, OutcomeTypes
    <3> QED BY <3>2, <3>3, DecisionOne
  <2> QED BY <1>8, <2>2, <2>3 DEF BackupExported
<1>9. ASSUME NEW o \in Ops, Approve(o)
      PROVE  DecisionInv'
  <2>1. record[o] = "pending_approval" /\ UNCHANGED refused
    BY <1>9 DEF Approve, Awaits
  <2>2. runs[o] = "never" /\ o \notin refused
    BY <2>1, <1>w DEF DecisionOK
  <2>3. CASE Failed(o, task[o])
    <3>1. Undecided(o) /\ DecisionOK(o)'
      BY <2>1, <2>3, <1>p, <1>w, FailedDecision
    <3> QED BY <3>1, DecisionOne
  <2>4. CASE \E ws \in Loaded(task[o].snapshot) :
                /\ Begin(o, [task[o] EXCEPT !.todo = ws])
                /\ UpdateRow(o, {"approved"}, "deploying")
    <3>1. /\ task'[o].pc \in {"deploy", "verify"}
          /\ runs' = [runs EXCEPT ![o] = "once"]
          /\ \A q \in Ops \ {o} : task'[q] = task[q]
      BY <2>2, <2>4, <1>p, <1>w DEF Begin, OutcomeTypes, Tasks
    <3>2. /\ record'[o] \in {"approved", "deploying"}
          /\ \A q \in Ops \ {o} : record'[q] = record[q]
      BY <2>1, <2>4, <1>p DEF UpdateRow, OutcomeTypes
    <3>3. DecisionOK(o)'
      BY <2>1, <2>2, <3>1, <3>2, <1>p DEF DecisionOK, OutcomeTypes
    <3>4. Undecided(o)
      BY <2>1, <3>1, <3>2, <1>p DEF Undecided, Alone, OutcomeTypes
    <3> QED BY <3>3, <3>4, DecisionOne
  <2> QED BY <1>9, <2>3, <2>4, "outage" \notin Faults DEF Approve
<1>10. ASSUME NEW o \in Ops, Reject(o)
       PROVE  DecisionInv'
  <2>l. CASE UNCHANGED <<record, refused>>
    BY <1>10, <2>l DEF Reject, DecisionInv, DecisionOK
  <2>m. CASE /\ record' = [record EXCEPT ![o] = "rejected"]
             /\ refused' = IF Awaits(o) THEN refused \cup {o} ELSE refused
    <3>1. /\ record[o] # "none" /\ record'[o] = "rejected"
          /\ UNCHANGED <<task, runs>>
          /\ Undecided(o)
      BY <1>10, <2>m, <1>p DEF Reject, Undecided, Alone, OutcomeTypes
    <3>2. o \in refused' => o \in refused \/ record[o] = "pending_approval"
      BY <2>m DEF Awaits
    <3>3. record[o] = "pending_approval" => runs[o] = "never" /\ task[o].pc = "ended"
      BY <3>1, <1>w, <1>e DEF DecisionOK, Tasks, Live
    <3>4. DecisionOK(o)'
      BY <3>1, <3>2, <3>3, <1>w DEF DecisionOK
    <3> QED BY <3>1, <3>4, DecisionOne
  <2> QED BY <1>10, <2>l, <2>m DEF Reject
<1>11. ASSUME NEW o \in Ops, NEW w \in Workflows, Deploy(o, w)
       PROVE  DecisionInv'
  <2>1. runs[o] = "once" /\ o \notin refused /\ UNCHANGED <<runs, refused>>
    BY <1>11, <1>w DEF Deploy, Failed, DecisionOK
  <2>2. /\ \E t : task' = [task EXCEPT ![o] = t] /\ t.pc \in {"deploy", "verify", "ended"}
        /\ UNCHANGED record \/ UpdateRowAtMost(o, {}, "verifying")
    <3>1. PICK delivered \in BOOLEAN, answered \in BOOLEAN :
             LET t == [task[o] EXCEPT !.todo = @ \ {w},
                                      !.sent = @ \/ answered,
                                      !.failed = @ \/ ~answered]
             IN  IF t.todo # {}
                 THEN task' = [task EXCEPT ![o] = t] /\ UNCHANGED <<rows, runs>>
                 ELSE IF NothingSent(t)
                 THEN Failed(o, t)
                 ELSE /\ task' = [task EXCEPT ![o] = [Ended(t) EXCEPT !.pc = "verify"]]
                      /\ UpdateRowAtMost(o, {}, "verifying")
                      /\ UNCHANGED <<answer, runs>>
      BY <1>11 DEF Deploy
    <3> DEFINE t == [task[o] EXCEPT !.todo = @ \ {w},
                                    !.sent = @ \/ answered,
                                    !.failed = @ \/ ~answered]
    <3>2. /\ t.pc = "deploy" /\ Ended(t).pc = "ended"
          /\ [Ended(t) EXCEPT !.pc = "verify"].pc = "verify"
      BY <1>11, <1>w DEF Deploy, Ended, Tasks
    <3> HIDE DEF t
    <3>3. CASE task' = [task EXCEPT ![o] = t] /\ UNCHANGED <<rows, runs>>
      BY <3>2, <3>3 DEF rows
    <3>4. CASE Failed(o, t)
      BY <3>2, <3>4 DEF Failed
    <3>5. CASE /\ task' = [task EXCEPT ![o] = [Ended(t) EXCEPT !.pc = "verify"]]
               /\ UpdateRowAtMost(o, {}, "verifying")
      BY <3>2, <3>5
    <3> QED BY <3>1, <3>3, <3>4, <3>5 DEF t
  <2>3. /\ task'[o].pc \in {"deploy", "verify", "ended"}
        /\ record'[o] \in {record[o], "verifying"}
        /\ Undecided(o)
    BY <2>1, <2>2, <1>p DEF UpdateRowAtMost, UpdateRow, Undecided, Alone, OutcomeTypes
  <2>4. DecisionOK(o)'
    BY <2>1, <2>3, <1>w DEF DecisionOK
  <2> QED BY <2>3, <2>4, DecisionOne
<1>12. ASSUME NEW o \in Ops, Verified(o)
       PROVE  DecisionInv'
  <2>1. /\ runs[o] = "once" /\ o \notin refused /\ UNCHANGED <<runs, refused>>
        /\ task' = [task EXCEPT ![o].pc = "ended"]
    BY <1>12, <1>w DEF Verified, DecisionOK
  <2>2. /\ record'[o] \in {record[o], "updating_pointer", "completed", "failed"}
        /\ \A q \in Ops \ {o} : record'[q] = record[q]
    BY <1>12, <1>p DEF Verified, UpdateRowAtMost, UpdateRow, OutcomeTypes
  <2>3. task'[o].pc = "ended" /\ Undecided(o)
    BY <2>1, <2>2, <1>p DEF Undecided, Alone, OutcomeTypes, Tasks
  <2>4. DecisionOK(o)'
    BY <2>1, <2>2, <2>3, <1>w DEF DecisionOK
  <2> QED BY <2>3, <2>4, DecisionOne
<1>s. ASSUME UNCHANGED <<task, record, runs, refused>>
      PROVE  DecisionInv'
  BY <1>s DEF DecisionInv, DecisionOK
<1>13. ASSUME NEW e \in Environments, TriggerOnboarding(e)
       PROVE  DecisionInv'
  BY <1>13, <1>s DEF TriggerOnboarding, history
<1>h. ASSUME NEW e \in Environments, NEW o \in Ops, o = onboarding[e].by
      PROVE  task[o].pc = "onboard"
  BY <1>h DEF CoreInv, HoldersInv
<1>f. ASSUME NEW e \in Environments, OnboardingFailed(e), UNCHANGED refused
      PROVE  DecisionInv'
  <2>1. CASE onboarding[e].by \in Ops
    <3> PICK o \in Ops : o = onboarding[e].by
      BY <2>1
    <3>1. Undecided(o) /\ DecisionOK(o)'
      BY <1>f, <1>p, <1>w, FailedDecision, AsyncIsNoOp DEF OnboardingFailed
    <3> QED BY <3>1, DecisionOne
  <2>2. CASE onboarding[e].by \notin Ops
    BY <1>f, <2>2, <1>s DEF OnboardingFailed, rows
  <2> QED BY <2>1, <2>2
<1>14. ASSUME NEW e \in Environments, NEW ws \in SUBSET Workflows, NEW s \in Snapshots,
              OnboardingExported(e, ws, s)
       PROVE  DecisionInv'
  BY <1>14, <1>f, <1>s DEF OnboardingExported, rows
<1>15. ASSUME NEW e \in Environments, Onboarded(e)
       PROVE  DecisionInv'
  <2>1. CASE onboarding[e].by \in Ops
    <3> PICK o \in Ops : o = onboarding[e].by
      BY <2>1
    <3>1. record[o] = "none" /\ runs[o] = "never" /\ o \notin refused
      BY <1>h, <1>e
    <3>2. Undecided(o) /\ DecisionOK(o)'
      BY <1>15, <3>1, <1>p, <1>w, ProceedDecision, AsyncIsNoOp DEF Onboarded
    <3> QED BY <3>2, DecisionOne
  <2>2. CASE onboarding[e].by \notin Ops
    BY <1>15, <2>2, <1>s DEF Onboarded, rows
  <2> QED BY <2>1, <2>2
<1>16. CASE Crash
  <2>1. UNCHANGED <<record, runs, refused>>
    BY <1>16 DEF Crash, history
  <2>2. ASSUME NEW o \in Ops
        PROVE  DecisionOK(o)'
    <3>1. task'[o].pc \in {task[o].pc, "ended"}
      BY <1>16, <1>w DEF Crash, Ended, Tasks
    <3> QED BY <2>1, <3>1, <1>w DEF DecisionOK
  <2> QED BY <2>2 DEF DecisionInv
<1> QED BY <1>1, <1>3, <1>4, <1>5, <1>6, <1>7, <1>8, <1>9, <1>10, <1>11, <1>12, <1>13, <1>14,
           <1>15, <1>16 DEF Next

LEMMA DecisionInit ==
    ASSUME Init
    PROVE  DecisionInv
BY DEF Init, DecisionInv, DecisionOK, Idle

LEMMA DecisionAlways ==
    ASSUME CoreInv, DecisionInv, [Next]_vars, "outage" \notin Faults
    PROVE  DecisionInv'
<1>1. CASE UNCHANGED vars
  BY <1>1 DEF DecisionInv, DecisionOK, vars, rows, history
<1> QED BY <1>1, DecisionStep

\* An approval is carried out once, and never after a rejection that its row recorded,
\* as long as one of its own two writes of the row gets through.
THEOREM DecisionsHold ==
    ASSUME "outage" \notin Faults
    PROVE  Spec => []ExecutedAsDecided
<1>1. DecisionInv => ExecutedAsDecided
  BY DEF DecisionInv, DecisionOK, ExecutedAsDecided
<1>2. CoreInv /\ DecisionInv /\ [Next]_vars => DecisionInv'
  BY DecisionAlways
<1> QED BY <1>1, <1>2, CoreInit, CoreStep, DecisionInit, PTL DEF Spec

-----------------------------------------------------------------------------
(* Operations as decided: every step of the code decides on an operation,  *)
(* finishes one, begins or ends a look for a baseline, or is hidden.       *)

\* What is carried out stays what it was, and what has ended stays so.
Fixed ==
    \A q \in Ops : runs[q] # "never" =>
        /\ task'[q].env = task[q].env
        /\ task'[q].snapshot = task[q].snapshot
        /\ task[q].pc = "ended" => task'[q].pc = "ended"

Hidden == Fixed /\ UNCHANGED <<runs, movers, approved, refused, pointer, Looking>>

Begun(o) ==
    /\ runs[o] = "never"
    /\ runs' = [runs EXCEPT ![o] = "once"]
    /\ o \notin refused
    /\ task'[o].env \in Environments
    /\ task'[o].snapshot \in Snapshots
    /\ Fixed
    /\ UNCHANGED <<movers, refused, pointer, Looking>>

Starts(o) == Begun(o) /\ task'[o].env \notin Production /\ UNCHANGED approved

Approves(o) == Begun(o) /\ approved' = approved \cup {o}

Rejects(o) ==
    /\ runs[o] = "never"
    /\ o \notin refused
    /\ refused' = refused \cup {o}
    /\ UNCHANGED <<task, runs, movers, approved, pointer, Looking>>

Finishes(o) ==
    /\ task[o].pc = "verify"
    /\ task'[o].pc = "ended"
    /\ Fixed
    /\ movers' = movers \cup {o}
    /\ pointer' = [pointer EXCEPT ![task[o].env] = task[o].snapshot]
    /\ UNCHANGED <<runs, approved, refused, Looking>>

Looks(e) ==
    /\ Fixed
    /\ e \notin Looking
    /\ NotOnboarded(e)
    /\ Looking' = Looking \cup {e}
    /\ UNCHANGED <<runs, movers, approved, refused, pointer>>

Finds(e, s) ==
    /\ Fixed
    /\ e \in Looking
    /\ s \in Unused
    /\ pointer' = [pointer EXCEPT ![e] = s]
    /\ Looking' = Looking \ {e}
    /\ UNCHANGED <<runs, movers, approved, refused>>

GivesUp(es) ==
    /\ Fixed
    /\ Looking' = Looking \ es
    /\ UNCHANGED <<runs, movers, approved, refused, pointer>>

DecisionKinds ==
    \/ Hidden
    \/ \E o \in Ops : Starts(o) \/ Approves(o) \/ Rejects(o) \/ Finishes(o)
    \/ \E e \in Environments : Looks(e) \/ \E s \in Snapshots : Finds(e, s)
    \/ \E es \in SUBSET Environments : GivesUp(es)

\* A pointer is moved at the end of an operation, and an approval starts one.
CourseInv ==
    /\ \A o \in movers : task[o].pc = "ended" /\ runs[o] = "once"
    /\ \A o \in approved : runs[o] # "never"

\* The step of an operation that is not carried out yet, and may be now.
LEMMA NotYetBegun ==
    ASSUME CoreInv, CoreInv', CourseInv, NEW o \in Ops, runs[o] = "never", o \notin refused,
           \A q \in Ops \ {o} : task'[q] = task[q],
           UNCHANGED <<movers, approved, refused, pointer, Looking>>,
           \/ UNCHANGED runs
           \/ runs' = [runs EXCEPT ![o] = "once"] /\ task'[o].pc \in {"deploy", "verify"}
    PROVE  DecisionKinds
<1>1. Fixed
  BY DEF Fixed
<1>2. CASE UNCHANGED runs
  BY <1>1, <1>2 DEF Hidden, DecisionKinds
<1>3. CASE runs' = [runs EXCEPT ![o] = "once"] /\ task'[o].pc \in {"deploy", "verify"}
  <2>1. task'[o] \in Tasks /\ PlanOK(o)' /\ ProgressOK(o)'
    BY DEF CoreInv, TypeOK, WorkInv
  <2>2. task'[o].env \in Environments /\ task'[o].snapshot \in Snapshots
    BY <1>3, <2>1 DEF PlanOK, Tasks
  <2>3. o \notin approved'
    BY DEF CourseInv
  <2>4. task'[o].env \notin Production
    BY <1>3, <2>1, <2>3 DEF ProgressOK
  <2> QED BY <1>1, <1>3, <2>2, <2>4 DEF Begun, Starts, DecisionKinds
<1> QED BY <1>2, <1>3

LEMMA ProceedRuns ==
    ASSUME OutcomeTypes, NEW o \in Ops, NEW t \in Tasks, Proceed(o, t), runs[o] = "never"
    PROVE  /\ \A q \in Ops \ {o} : task'[q] = task[q]
           /\ \/ UNCHANGED runs
              \/ runs' = [runs EXCEPT ![o] = "once"] /\ task'[o].pc \in {"deploy", "verify"}
<1>1. CASE t.env \in Production
  BY <1>1 DEF Proceed, OutcomeTypes
<1>2. CASE t.env \notin Production
  BY <1>2 DEF Proceed, Begin, OutcomeTypes, Tasks
<1> QED BY <1>1, <1>2

LEMMA FailedRuns ==
    ASSUME OutcomeTypes, NEW o \in Ops, NEW t, Failed(o, t)
    PROVE  UNCHANGED runs /\ \A q \in Ops \ {o} : task'[q] = task[q]
BY DEF Failed, OutcomeTypes

LEMMA StepDecides ==
    ASSUME CoreInv, CoreInv', DecisionInv, CourseInv, Next
    PROVE  DecisionKinds
<1>p. OutcomeTypes /\ GitTypes /\ HistoryTypes
  BY TypeParts DEF CoreInv
<1>w. ASSUME NEW o \in Ops
      PROVE  task[o] \in Tasks /\ DecisionOK(o)
  BY <1>p DEF OutcomeTypes, DecisionInv
<1>e. ASSUME NEW o \in Ops, task[o].pc \in {"none", "export", "onboard"}
      PROVE  runs[o] = "never" /\ o \notin refused
  BY <1>e, <1>w DEF DecisionOK
\* A look begins.
<1>b. ASSUME NEW e \in Environments, NEW by, onboarding[e] = Nobody,
             onboarding' = [onboarding EXCEPT ![e] = [by |-> by, pc |-> "export"]]
      PROVE  Looking' = Looking \cup {e} /\ e \notin Looking
  BY <1>b, <1>p DEF Looking, GitTypes, Nobody
<1>r. ASSUME NEW o \in Ops, record[o] = "pending_approval"
      PROVE  runs[o] = "never" /\ o \notin refused
  BY <1>r, <1>w DEF DecisionOK
<1>l. ASSUME UNCHANGED onboarding
      PROVE  UNCHANGED Looking
  BY <1>l DEF Looking
<1>h. ASSUME Fixed, UNCHANGED <<runs, movers, approved, refused, pointer, onboarding>>
      PROVE  DecisionKinds
  BY <1>h, <1>l DEF Hidden, DecisionKinds
<1>1. ASSUME NEW o \in Ops, NEW e \in Environments, Initiate(o, e) \/ Backup(o, e)
      PROVE  DecisionKinds
  <2>1. runs[o] = "never" /\ o \notin refused
    BY <1>1, <1>e DEF Initiate, Backup, New
  <2>2. /\ \A q \in Ops \ {o} : task'[q] = task[q]
        /\ UNCHANGED <<runs, movers, approved, refused, pointer, onboarding>>
    BY <1>1, <1>p DEF Initiate, Backup, history, OutcomeTypes
  <2> QED BY <2>1, <2>2, <1>l, NotYetBegun
<1>3. ASSUME NEW o \in Ops, NEW e \in Environments, NEW s \in Snapshots, InitiateRollback(o, e, s)
      PROVE  DecisionKinds
  <2>1. PICK ws \in Loaded(s) \ {{}} :
            Proceed(o, [Idle EXCEPT !.kind = "rollback", !.env = e, !.snapshot = s, !.todo = ws])
    BY <1>3 DEF InitiateRollback
  <2>2. ws \in SUBSET Workflows
    BY <1>3, <1>p DEF InitiateRollback, Exists, Loaded, GitTypes, Folders
  <2>3. [Idle EXCEPT !.kind = "rollback", !.env = e, !.snapshot = s, !.todo = ws] \in Tasks
    BY <2>2, IdleTyped DEF Tasks, Kinds
  <2>4. /\ runs[o] = "never" /\ o \notin refused
        /\ UNCHANGED <<movers, approved, refused, pointer, onboarding>>
    BY <1>3, <1>e DEF InitiateRollback, New
  <2> QED BY <2>1, <2>3, <2>4, <1>p, <1>l, ProceedRuns, NotYetBegun
<1>4. ASSUME NEW o \in Ops, NEW e \in Environments, ApplyApproved(o, e)
      PROVE  DecisionKinds
  <2>1. pointer[e] \in Snapshots
    BY <1>4, <1>p DEF ApplyApproved, GitTypes
  <2> QED BY <1>4, <2>1, <1>3 DEF ApplyApproved
<1>5. ASSUME NEW o \in Ops, NEW source \in Environments, NEW e \in Environments,
             NEW ws \in SUBSET Workflows, NEW s \in Snapshots,
             InitiateByPointer(o, source, e, ws, s)
      PROVE  DecisionKinds
  <2>1. [Idle EXCEPT !.env = e, !.snapshot = s] \in Tasks
    BY IdleTyped DEF Tasks
  <2>2. /\ runs[o] = "never" /\ o \notin refused
        /\ UNCHANGED <<movers, approved, refused, pointer, onboarding>>
        /\ \/ Proceed(o, [Idle EXCEPT !.env = e, !.snapshot = s])
           \/ Failed(o, [Idle EXCEPT !.env = e])
    BY <1>5, <1>e DEF InitiateByPointer, New
  <2> QED BY <2>1, <2>2, <1>p, <1>l, ProceedRuns, FailedRuns, NotYetBegun
<1>6. ASSUME NEW o \in Ops, ExportRefused(o)
      PROVE  DecisionKinds
  <2>1. /\ runs[o] = "never" /\ o \notin refused /\ Failed(o, task[o])
        /\ UNCHANGED <<movers, approved, refused, pointer, onboarding>>
    BY <1>6, <1>e DEF ExportRefused
  <2> QED BY <2>1, <1>p, <1>l, FailedRuns, NotYetBegun
<1>7. ASSUME NEW o \in Ops, NEW ws \in SUBSET Workflows, NEW s \in Snapshots, Exported(o, ws, s)
      PROVE  DecisionKinds
  <2> DEFINE t == [task[o] EXCEPT !.snapshot = s, !.todo = ws]
  <2>1. /\ t \in Tasks /\ runs[o] = "never" /\ o \notin refused
        /\ UNCHANGED <<movers, approved, refused, pointer>>
    BY <1>7, <1>w, <1>e DEF Exported, Tasks
  <2> HIDE DEF t
  <2>2. Onboard(o, t) \/ (Failed(o, task[o]) /\ UNCHANGED onboarding)
    BY <1>7 DEF Exported, t
  <2>e. t.env \in Environments
    <3>1. task[o].env \in Environments
      BY <1>7 DEF Exported, CoreInv, WorkInv, PlanOK
    <3> QED BY <3>1, <1>w DEF t, Tasks
  <2>3. CASE /\ Proceed(o, t) \/ Failed(o, t) \/ Failed(o, task[o])
             /\ UNCHANGED onboarding
    BY <2>1, <2>3, <1>p, <1>l, ProceedRuns, FailedRuns, NotYetBegun
  <2>4. CASE /\ NotOnboarded(t.env)
             /\ onboarding[t.env] = Nobody
             /\ onboarding' = [onboarding EXCEPT ![t.env] = [by |-> o, pc |-> "export"]]
             /\ task' = [task EXCEPT ![o] = [t EXCEPT !.pc = "onboard"]]
             /\ UNCHANGED <<record, answer, runs>>
    <3>1. Fixed
      BY <2>1, <2>4, <1>p DEF Fixed, OutcomeTypes
    <3>2. Looking' = Looking \cup {t.env} /\ t.env \notin Looking
      BY <2>4, <2>e, <1>b
    <3> QED BY <2>1, <2>4, <2>e, <3>1, <3>2 DEF Looks, DecisionKinds
  <2> QED BY <2>2, <2>3, <2>4 DEF Onboard
<1>8. ASSUME NEW o \in Ops, NEW ws \in SUBSET Workflows, NEW s \in Snapshots,
             BackupExported(o, ws, s)
      PROVE  DecisionKinds
  <2>1. /\ runs[o] = "never" /\ o \notin refused
        /\ UNCHANGED <<runs, movers, approved, refused, pointer, onboarding>>
        /\ \A q \in Ops \ {o} : task'[q] = task[q]
    BY <1>8, <1>e, <1>p, FailedRuns DEF BackupExported, OutcomeTypes
  <2> QED BY <2>1, <1>l, NotYetBegun
<1>9. ASSUME NEW o \in Ops, Approve(o)
      PROVE  DecisionKinds
  <2>1. runs[o] = "never" /\ o \notin refused /\ UNCHANGED <<movers, refused, pointer, Looking>>
    BY <1>9, <1>r, <1>l DEF Approve, Awaits
  <2>2. CASE Failed(o, task[o]) /\ UNCHANGED approved
    BY <2>1, <2>2, <1>p, FailedRuns, NotYetBegun
  <2>3. CASE /\ \E ws \in Loaded(task[o].snapshot) : Begin(o, [task[o] EXCEPT !.todo = ws])
             /\ approved' = approved \cup {o}
    <3>1. /\ runs' = [runs EXCEPT ![o] = "once"]
          /\ task'[o].pc \in {"deploy", "verify"}
          /\ \A q \in Ops \ {o} : task'[q] = task[q]
      BY <2>1, <2>3, <1>p, <1>w DEF Begin, OutcomeTypes, Tasks
    <3>2. task'[o].env \in Environments /\ task'[o].snapshot \in Snapshots
      <4>1. task'[o] \in Tasks /\ PlanOK(o)'
        BY DEF CoreInv, TypeOK, WorkInv
      <4> QED BY <3>1, <4>1 DEF PlanOK, Tasks
    <3>3. Fixed
      BY <2>1, <3>1 DEF Fixed
    <3> QED BY <2>1, <2>3, <3>1, <3>2, <3>3 DEF Begun, Approves, DecisionKinds
  <2> QED BY <1>9, <2>2, <2>3 DEF Approve
<1>10. ASSUME NEW o \in Ops, Reject(o)
       PROVE  DecisionKinds
  <2>1. UNCHANGED <<task, runs, movers, approved, pointer, onboarding>>
    BY <1>10 DEF Reject
  <2>2. CASE Awaits(o) /\ refused' = refused \cup {o}
    BY <2>1, <2>2, <1>r, <1>l DEF Awaits, Rejects, DecisionKinds
  <2>3. CASE UNCHANGED refused
    BY <2>1, <2>3, <1>h DEF Fixed
  <2> QED BY <1>10, <2>2, <2>3 DEF Reject
<1>11. ASSUME NEW o \in Ops, NEW w \in Workflows, Deploy(o, w)
       PROVE  DecisionKinds
  <2>1. PICK delivered \in BOOLEAN, answered \in BOOLEAN :
            LET t == [task[o] EXCEPT !.todo = @ \ {w},
                                     !.sent = @ \/ answered,
                                     !.failed = @ \/ ~answered]
            IN  IF t.todo # {}
                THEN task' = [task EXCEPT ![o] = t] /\ UNCHANGED <<rows, runs>>
                ELSE IF NothingSent(t)
                THEN Failed(o, t)
                ELSE /\ task' = [task EXCEPT ![o] = [Ended(t) EXCEPT !.pc = "verify"]]
                     /\ UpdateRowAtMost(o, {}, "verifying")
                     /\ UNCHANGED <<answer, runs>>
    BY <1>11 DEF Deploy
  <2> DEFINE t == [task[o] EXCEPT !.todo = @ \ {w},
                                  !.sent = @ \/ answered,
                                  !.failed = @ \/ ~answered]
             ts == {t, Ended(t), [Ended(t) EXCEPT !.pc = "verify"]}
  <2>2. task[o].pc = "deploy" /\ UNCHANGED <<runs, movers, approved, refused, pointer, onboarding>>
    BY <1>11, <2>1 DEF Deploy, Failed
  <2>3. \A u \in ts : u.env = task[o].env /\ u.snapshot = task[o].snapshot
    BY <1>w DEF Ended, Tasks
  <2> HIDE DEF t
  <2>4. task'[o] \in ts /\ \A q \in Ops \ {o} : task'[q] = task[q]
    BY <2>1, <1>p DEF Failed, OutcomeTypes, t
  <2> HIDE DEF ts
  <2>5. Fixed
    BY <2>2, <2>3, <2>4 DEF Fixed
  <2> QED BY <2>2, <2>5, <1>h
<1>12. ASSUME NEW o \in Ops, Verified(o)
       PROVE  DecisionKinds
  <2>1. PICK w \in PointerWrites :
            /\ pointer' = IF w.moved THEN [pointer EXCEPT ![task[o].env] = task[o].snapshot]
                          ELSE pointer
            /\ movers' = IF w.moved THEN movers \cup {o} ELSE movers
    BY <1>12 DEF Verified
  <2>2. /\ task[o].pc = "verify" /\ task' = [task EXCEPT ![o].pc = "ended"]
        /\ UNCHANGED <<runs, approved, refused, onboarding>>
    BY <1>12 DEF Verified
  <2>3. Fixed /\ task'[o].pc = "ended"
    BY <2>2, <1>p DEF Fixed, OutcomeTypes, Tasks
  <2>4. w.moved \in BOOLEAN
    BY DEF PointerWrites
  <2>5. CASE w.moved
    BY <2>1, <2>2, <2>3, <2>5, <1>l DEF Finishes, DecisionKinds
  <2>6. CASE ~w.moved
    BY <2>1, <2>2, <2>3, <2>6, <1>h
  <2> QED BY <2>5, <2>6
<1>s. ASSUME UNCHANGED task
      PROVE  Fixed
  BY <1>s DEF Fixed
<1>13. ASSUME NEW e \in Environments, TriggerOnboarding(e)
       PROVE  DecisionKinds
  <2>1. Looking' = Looking \cup {e} /\ e \notin Looking
    BY <1>13, <1>b DEF TriggerOnboarding
  <2> QED BY <1>13, <2>1, <1>s DEF TriggerOnboarding, history, Looks, DecisionKinds
<1>o. ASSUME NEW e \in Environments, onboarding[e].by \in Ops
      PROVE  runs[onboarding[e].by] = "never" /\ onboarding[e].by \notin refused
  BY <1>o, <1>e DEF CoreInv, HoldersInv
<1>x. ASSUME NEW e \in Environments, Released(e)
      PROVE  Looking' = Looking \ {e}
  BY <1>x, <1>p DEF Released, Looking, GitTypes, Nobody
<1>f. ASSUME NEW e \in Environments, OnboardingFailed(e)
      PROVE  Fixed /\ UNCHANGED runs /\ Looking' = Looking \ {e}
  <2>l. Looking' = Looking \ {e}
    BY <1>f, <1>x DEF OnboardingFailed
  <2>1. CASE onboarding[e].by \in Ops
    <3>1. Failed(onboarding[e].by, task[onboarding[e].by])
      BY <1>f, <2>1, AsyncIsNoOp DEF OnboardingFailed
    <3>2. UNCHANGED runs /\ \A q \in Ops \ {onboarding[e].by} : task'[q] = task[q]
      BY <2>1, <3>1, <1>p, FailedRuns
    <3> QED BY <2>1, <2>l, <3>2, <1>o DEF Fixed
  <2>2. CASE onboarding[e].by \notin Ops
    BY <1>f, <2>2, <2>l, <1>s DEF OnboardingFailed
  <2> QED BY <2>1, <2>2
<1>14. ASSUME NEW e \in Environments, NEW ws \in SUBSET Workflows, NEW s \in Snapshots,
              OnboardingExported(e, ws, s)
       PROVE  DecisionKinds
  <2>1. /\ onboarding[e].pc = "export" /\ s \in Unused
        /\ UNCHANGED <<movers, approved, refused>>
    BY <1>14 DEF OnboardingExported
  <2>2. CASE OnboardingFailed(e)
    <3>1. pointer' = [pointer EXCEPT ![e] = s] \/ UNCHANGED pointer
      BY <1>14 DEF OnboardingExported
    <3>2. Fixed /\ UNCHANGED runs /\ Looking' = Looking \ {e} /\ e \in Looking
      BY <2>1, <2>2, <1>f DEF Looking
    <3>3. CASE UNCHANGED pointer
      BY <2>1, <3>2, <3>3 DEF GivesUp, DecisionKinds
    <3>4. CASE pointer' = [pointer EXCEPT ![e] = s]
      BY <2>1, <3>2, <3>4 DEF Finds, DecisionKinds
    <3> QED BY <3>1, <3>3, <3>4
  <2>3. CASE /\ pointer' = [pointer EXCEPT ![e] = s]
             /\ onboarding' = [onboarding EXCEPT ![e].pc = "verify"]
             /\ UNCHANGED <<task, rows, runs>>
    <3>1. Looking' = Looking \ {e}
      BY <2>3, <1>p DEF Looking, GitTypes, Locks
    <3> QED BY <2>1, <2>3, <3>1, <1>s DEF Finds, DecisionKinds, Looking
  <2> QED BY <1>14, <2>2, <2>3 DEF OnboardingExported
<1>15. ASSUME NEW e \in Environments, Onboarded(e)
       PROVE  DecisionKinds
  <2>1. UNCHANGED <<movers, approved, refused, pointer, Looking>>
    <3>1. Looking' = Looking \ {e} /\ e \notin Looking
      BY <1>15, <1>x DEF Onboarded, Looking
    <3> QED BY <1>15, <3>1 DEF Onboarded
  <2>2. CASE onboarding[e].by \in Ops
    <3> PICK o \in Ops : o = onboarding[e].by
      BY <2>2
    <3>1. Proceed(o, task[o])
      BY <1>15, AsyncIsNoOp DEF Onboarded
    <3>2. runs[o] = "never" /\ o \notin refused
      BY <1>o
    <3> QED BY <2>1, <3>1, <3>2, <1>p, <1>w, ProceedRuns, NotYetBegun
  <2>3. CASE onboarding[e].by \notin Ops
    BY <1>15, <2>1, <2>3, <1>s DEF Onboarded, Hidden, DecisionKinds
  <2> QED BY <2>2, <2>3
<1>16. CASE Crash
  <2>1. UNCHANGED <<runs, movers, approved, refused, pointer>>
    BY <1>16 DEF Crash, history
  <2>2. ASSUME NEW q \in Ops
        PROVE  /\ task'[q].env = task[q].env
               /\ task'[q].snapshot = task[q].snapshot
               /\ task[q].pc = "ended" => task'[q].pc = "ended"
    BY <1>16, <1>w DEF Crash, Ended, Tasks
  <2>3. Looking' = Looking \ Environments
    BY <1>16 DEF Crash, Looking, Nobody
  <2> QED BY <2>1, <2>2, <2>3 DEF Fixed, GivesUp, DecisionKinds
<1> QED BY <1>1, <1>3, <1>4, <1>5, <1>6, <1>7, <1>8, <1>9, <1>10, <1>11, <1>12, <1>13, <1>14,
           <1>15, <1>16 DEF Next

LEMMA CourseStep ==
    ASSUME CoreInv, DecisionInv, CourseInv, DecisionKinds
    PROVE  CourseInv'
<1>1. CASE Hidden
  BY <1>1 DEF CoreInv, TypeOK, CourseInv, Hidden, Fixed
<1>2. ASSUME NEW o \in Ops, Starts(o) \/ Approves(o)
      PROVE  CourseInv'
  BY <1>2 DEF CoreInv, TypeOK, CourseInv, Starts, Approves, Begun, Fixed
<1>3. ASSUME NEW o \in Ops, Rejects(o)
      PROVE  CourseInv'
  BY <1>3 DEF CourseInv, Rejects
<1>4. ASSUME NEW o \in Ops, Finishes(o)
      PROVE  CourseInv'
  <2>1. runs[o] = "once"
    BY <1>4 DEF DecisionInv, DecisionOK, Finishes
  <2> QED BY <1>4, <2>1 DEF CoreInv, TypeOK, CourseInv, Finishes, Fixed
<1>5. ASSUME NEW e \in Environments,
             Looks(e) \/ (\E s \in Snapshots : Finds(e, s))
      PROVE  CourseInv'
  BY <1>5 DEF CoreInv, TypeOK, CourseInv, Looks, Finds, Fixed
<1>6. ASSUME NEW es \in SUBSET Environments, GivesUp(es)
      PROVE  CourseInv'
  BY <1>6 DEF CoreInv, TypeOK, CourseInv, GivesUp, Fixed
<1> QED BY <1>1, <1>2, <1>3, <1>4, <1>5, <1>6 DEF DecisionKinds

\* An operation about which nothing changes is where it was.
LEMMA CourseStays ==
    ASSUME Fixed, NEW q \in Ops, runs'[q] = runs[q], q \in movers' <=> q \in movers,
           q \in approved' <=> q \in approved, q \in refused' <=> q \in refused
    PROVE  Course(q)' = Course(q)
<1>1. Stage(q)' = Stage(q)
  BY DEF Stage
<1> QED BY <1>1 DEF Course, Fixed

LEMMA CourseBecomes ==
    ASSUME NEW o \in Ops, NEW c, Course(o)' = c, \A q \in Ops \ {o} : Course(q)' = Course(q)
    PROVE  Decided!Becomes(o, c)
BY DEF Decided!Becomes

\* Before its execution an operation that nobody rejected is undecided.
LEMMA UndecidedCourse ==
    ASSUME NEW o \in Ops, runs[o] = "never", o \notin refused
    PROVE  Course(o) = Decided!Undecided
<1>1. Stage(o) = "undecided"
  BY DEF Stage
<1> QED BY <1>1 DEF Course, Decided!Undecided

LEMMA BegunDecides ==
    ASSUME CoreInv, CourseInv, NEW o \in Ops, Begun(o),
           \A q \in Ops \ {o} : q \in approved' <=> q \in approved,
           NEW stage, stage = IF o \in approved' THEN "approved" ELSE "started"
    PROVE  Decided!Decide(o, stage, {task'[o].env}, Snapshots)
<1>1. runs'[o] = "once" /\ o \notin movers' /\ \A q \in Ops \ {o} : runs'[q] = runs[q]
  BY DEF Begun, CoreInv, TypeOK, CourseInv
<1>2. Stage(o)' = stage
  BY <1>1 DEF Stage
<1> DEFINE c == [stage |-> stage, env |-> task'[o].env, snapshot |-> task'[o].snapshot]
<1>3. Course(o)' = c
  BY <1>1, <1>2 DEF Course
<1>4. \A q \in Ops \ {o} : Course(q)' = Course(q)
  BY <1>1, CourseStays DEF Begun
<1>5. Decided!Becomes(o, c)
  BY <1>3, <1>4, CourseBecomes
<1>6. Course(o) = Decided!Undecided
  BY UndecidedCourse DEF Begun
<1> HIDE DEF c
<1>7. \E e \in {task'[o].env}, s \in Snapshots :
          Decided!Becomes(o, [stage |-> stage, env |-> e, snapshot |-> s])
  BY <1>5 DEF Begun, c
<1> QED BY <1>6, <1>7 DEF Decided!Decide, Begun

\* A snapshot that is not in Git yet is no pointer's and no operation's.
LEMMA UnusedIsNew ==
    ASSUME CoreInv, PointerWasDeployed, NEW s \in Unused
    PROVE  Decided!New(s)
<1>1. s \in Snapshots /\ s # None /\ git[s] = None
  BY NullAssumption DEF Unused
<1>2. ASSUME NEW o \in Ops
      PROVE  Course(o).snapshot # s
  <2>1. task[o].snapshot # s
    BY <1>1 DEF CoreInv, WorkInv, PlanOK, Exists
  <2> QED BY <1>1, <2>1 DEF Course
<1>3. ASSUME NEW e \in Environments
      PROVE  pointer[e] # s
  BY <1>1 DEF PointerWasDeployed, Exists
<1> QED BY <1>2, <1>3 DEF Decided!New

LEMMA DecidedStep ==
    ASSUME CoreInv, PointerWasDeployed, DecisionInv, CourseInv, DecisionKinds
    PROVE  Decided!Next \/ UNCHANGED Decided!vars
<1>1. CASE Hidden
  <2>1. \A q \in Ops : Course(q)' = Course(q)
    BY <1>1, CourseStays DEF Hidden
  <2> QED BY <1>1, <2>1 DEF Hidden, Decided!vars
<1>2. ASSUME NEW o \in Ops, Starts(o)
      PROVE  Decided!Next
  <2>1. o \notin approved'
    BY <1>2 DEF Starts, Begun, CourseInv
  <2>2. Decided!Decide(o, "started", {task'[o].env}, Snapshots)
    BY <1>2, <2>1, BegunDecides DEF Starts
  <2>3. task'[o].env \in Environments \ Production
    BY <1>2 DEF Starts, Begun
  <2>4. Decided!Start(o)
    BY <2>2, <2>3 DEF Decided!Decide, Decided!Start
  <2> QED BY <2>4 DEF Decided!Next
<1>3. ASSUME NEW o \in Ops, Approves(o)
      PROVE  Decided!Next
  <2>1. Decided!Decide(o, "approved", {task'[o].env}, Snapshots)
    BY <1>3, BegunDecides DEF Approves
  <2>2. task'[o].env \in Environments
    BY <1>3 DEF Approves, Begun
  <2>3. Decided!Approve(o)
    BY <2>1, <2>2 DEF Decided!Decide, Decided!Approve
  <2> QED BY <2>3 DEF Decided!Next
<1>4. ASSUME NEW o \in Ops, Rejects(o)
      PROVE  Decided!Next
  <2>1. Fixed
    BY <1>4 DEF Rejects, Fixed
  <2>2. \A q \in Ops \ {o} : Course(q)' = Course(q)
    BY <1>4, <2>1, CourseStays DEF Rejects
  <2>3. Stage(o)' = "rejected"
    BY <1>4 DEF Rejects, Stage
  <2>4. Course(o)' = [stage |-> "rejected", env |-> None, snapshot |-> None]
    BY <1>4, <2>3 DEF Rejects, Course
  <2>5. Decided!Becomes(o, [stage |-> "rejected", env |-> None, snapshot |-> None])
    BY <2>2, <2>4, CourseBecomes
  <2>6. Course(o) = Decided!Undecided
    BY <1>4, UndecidedCourse DEF Rejects
  <2>7. Decided!Reject(o)
    BY <1>4, <2>5, <2>6 DEF Rejects, Decided!Reject, Decided!Decide
  <2> QED BY <2>7 DEF Decided!Next
<1>5. ASSUME NEW o \in Ops, Finishes(o)
      PROVE  Decided!Next
  <2>1. runs[o] = "once" /\ o \notin movers
    BY <1>5 DEF DecisionInv, DecisionOK, CourseInv, Finishes
  <2>2. Stage(o) \in {"started", "approved"} /\ Stage(o)' = "finished"
    BY <1>5, <2>1 DEF Finishes, Stage
  <2>3. \A q \in Ops \ {o} : Course(q)' = Course(q)
    BY <1>5, CourseStays DEF Finishes
  <2>4. /\ Course(o) = [stage |-> Stage(o), env |-> task[o].env, snapshot |-> task[o].snapshot]
        /\ Course(o)' = [stage |-> "finished", env |-> task[o].env, snapshot |-> task[o].snapshot]
    BY <1>5, <2>1, <2>2 DEF Course, Finishes, Fixed
  <2>5. Course(o)' = [Course(o) EXCEPT !.stage = "finished"]
    BY <2>4
  <2>6. Decided!Becomes(o, [Course(o) EXCEPT !.stage = "finished"])
    BY <2>3, <2>5, CourseBecomes
  <2>7. /\ Course(o).stage \in {"started", "approved"}
        /\ Course(o).env = task[o].env /\ Course(o).snapshot = task[o].snapshot
    BY <2>2, <2>4
  <2>8. Decided!Finish(o)
    BY <1>5, <2>6, <2>7 DEF Finishes, Decided!Finish
  <2> QED BY <2>8 DEF Decided!Next
<1>6. ASSUME NEW e \in Environments, NEW s \in Snapshots, Finds(e, s)
      PROVE  Decided!Next
  <2>1. \A q \in Ops : Course(q)' = Course(q)
    BY <1>6, CourseStays DEF Finds
  <2>2. Decided!New(s)
    BY <1>6, UnusedIsNew DEF Finds
  <2>3. Decided!Find(e, s)
    BY <1>6, <2>1, <2>2 DEF Finds, Decided!Find
  <2> QED BY <2>3 DEF Decided!Next
<1>7. ASSUME NEW e \in Environments, Looks(e)
      PROVE  Decided!Next
  <2>1. \A q \in Ops : Course(q)' = Course(q)
    BY <1>7, CourseStays DEF Looks
  <2>2. Decided!Look(e)
    BY <1>7, <2>1 DEF Looks, NotOnboarded, Decided!Look
  <2> QED BY <2>2 DEF Decided!Next
<1>8. ASSUME NEW es \in SUBSET Environments, GivesUp(es)
      PROVE  Decided!Next
  <2>1. \A q \in Ops : Course(q)' = Course(q)
    BY <1>8, CourseStays DEF GivesUp
  <2>2. Decided!GiveUp(es)
    BY <1>8, <2>1 DEF GivesUp, Decided!GiveUp
  <2> QED BY <2>2 DEF Decided!Next
<1> QED BY <1>1, <1>2, <1>3, <1>4, <1>5, <1>6, <1>7, <1>8 DEF DecisionKinds

LEMMA DecidedInit ==
    ASSUME Init
    PROVE  CourseInv /\ Decided!Init
<1>1. \A o \in Ops : Course(o) = Decided!Undecided
  BY UndecidedCourse DEF Init
<1>2. pointer \in [Environments -> Snapshots \cup {None}]
  BY EarlierAssumption DEF Init
<1>3. Looking = {}
  BY DEF Init, Looking, Nobody
<1> QED BY <1>1, <1>2, <1>3 DEF Init, CourseInv, Decided!Init

\* As long as one of an approval's two writes of the row gets through, the operations
\* are carried out as decided: each once at most, with the environment and the snapshot
\* that were decided on, in production after an approval, and none after a rejection
\* that its row recorded.  A pointer is moved by the end of such an operation, to its
\* snapshot, or by the end of the export of an onboarding that saw no pointer, to a new
\* snapshot, and by nothing else.
THEOREM AsDecided ==
    ASSUME "outage" \notin Faults
    PROVE  Spec => OperationsAsDecided
<1>1. CoreInv /\ CoreInv' /\ PointerWasDeployed /\ DecisionInv /\ CourseInv /\ [Next]_vars
        => CourseInv' /\ [Decided!Next]_(Decided!vars)
  <2> SUFFICES ASSUME CoreInv, CoreInv', PointerWasDeployed, DecisionInv, CourseInv, [Next]_vars
               PROVE  CourseInv' /\ [Decided!Next]_(Decided!vars)
    OBVIOUS
  <2>1. DecisionKinds
    <3>1. CASE UNCHANGED vars
      BY <3>1 DEF vars, history, DecisionKinds, Hidden, Fixed, Looking
    <3> QED BY <3>1, StepDecides
  <2> QED BY <2>1, CourseStep, DecidedStep
<1>2. CoreInv /\ DecisionInv /\ [Next]_vars => DecisionInv'
  BY DecisionAlways
<1>3. CoreInv /\ [Next]_vars => CoreInv'
  BY CoreStep
<1> QED BY <1>1, <1>2, <1>3, CoreInit, DecisionInit, DecidedInit, PointerDeployed, PTL
        DEF Spec, OperationsAsDecided, Decided!Spec

-----------------------------------------------------------------------------
(* Outcomes.                                                               *)

\* Of the other operations, what outcomes are about is left alone.
Unanswered(o) ==
    /\ Alone(o)
    /\ \A q \in Ops \ {o} :
          /\ task'[q].kind = task[q].kind
          /\ answer'[q] = answer[q]
          /\ runs'[q] = runs[q]
          /\ q \in movers' <=> q \in movers

LEMMA OutcomeOne ==
    ASSUME OutcomeInv, NEW o \in Ops, Unanswered(o), OutcomeOK(o)'
    PROVE  OutcomeInv'
<1>1. ASSUME NEW q \in Ops, q # o
      PROVE  OutcomeOK(q)'
  BY <1>1 DEF OutcomeInv, OutcomeOK, Unanswered, Alone
<1> QED BY <1>1 DEF OutcomeInv

\* An operation that has not moved a pointer yet and whose row is not final.
Undone(o) == o \notin movers' /\ record[o] \notin {"failed", "completed"}

LEMMA FailedOutcome ==
    ASSUME OutcomeTypes, NEW o \in Ops, NEW t \in Tasks, Failed(o, t), UNCHANGED movers,
           Undone(o)
    PROVE  Unanswered(o) /\ OutcomeOK(o)'
<1>1. /\ answer'[o] = "failed" /\ UNCHANGED <<record, runs>>
      /\ \A q \in Ops \ {o} : answer'[q] = answer[q]
  BY DEF Failed, OutcomeTypes
<1>2. Unanswered(o)
  BY <1>1, FailedAlone DEF Unanswered, Alone
<1> QED BY <1>1, <1>2 DEF OutcomeOK, Undone

LEMMA ProceedOutcome ==
    ASSUME OutcomeTypes, NEW o \in Ops, NEW t \in Tasks, Proceed(o, t), UNCHANGED movers,
           Undone(o), answer[o] # "completed"
    PROVE  Unanswered(o) /\ OutcomeOK(o)'
<1>1. /\ answer'[o] # "completed" /\ record'[o] \notin {"failed", "completed"}
      /\ \A q \in Ops \ {o} : answer'[q] = answer[q] /\ runs'[q] = runs[q]
  BY DEF Proceed, Begin, CreateRow, OutcomeTypes, Undone
<1>2. Unanswered(o)
  BY <1>1, ProceedAlone DEF Unanswered, Alone
<1> QED BY <1>1, <1>2 DEF OutcomeOK, Undone

\* A pointer is moved once, in the last step, by an operation that is told so.
LEMMA OutcomeStep ==
    ASSUME CoreInv, DecisionInv, OutcomeInv, Next, "gitlost" \notin Faults
    PROVE  OutcomeInv'
<1>p. OutcomeTypes /\ GitTypes /\ HistoryTypes
  BY TypeParts DEF CoreInv
<1>w. ASSUME NEW o \in Ops
      PROVE  /\ task[o] \in Tasks /\ PlanOK(o) /\ ProgressOK(o)
             /\ DecisionOK(o) /\ OutcomeOK(o)
  BY <1>p DEF OutcomeTypes, WorkInv, CoreInv, DecisionInv, OutcomeInv
<1>e. ASSUME NEW o \in Ops, task[o].pc \in {"none", "export", "onboard"}, UNCHANGED movers
      PROVE  Undone(o) /\ answer[o] # "completed" /\ record[o] = "none" /\ o \notin movers
  BY <1>e, <1>w DEF ProgressOK, OutcomeOK, Undone
<1>1. ASSUME NEW o \in Ops, NEW e \in Environments, Initiate(o, e) \/ Backup(o, e)
      PROVE  OutcomeInv'
  <2>1. UNCHANGED <<record, answer, runs, movers>> /\ task[o].pc = "none"
    BY <1>1 DEF Initiate, Backup, New, history
  <2>2. Unanswered(o)
    BY <1>1, <2>1, <1>p DEF Initiate, Backup, Unanswered, Alone, OutcomeTypes
  <2>3. OutcomeOK(o)'
    BY <2>1, <1>e DEF OutcomeOK
  <2> QED BY <2>2, <2>3, OutcomeOne
<1>3. ASSUME NEW o \in Ops, NEW e \in Environments, NEW s \in Snapshots, InitiateRollback(o, e, s)
      PROVE  OutcomeInv'
  <2>1. PICK ws \in Loaded(s) \ {{}} :
            Proceed(o, [Idle EXCEPT !.kind = "rollback", !.env = e, !.snapshot = s, !.todo = ws])
    BY <1>3 DEF InitiateRollback
  <2>2. ws \in SUBSET Workflows
    BY <1>3, <1>p DEF InitiateRollback, Exists, Loaded, GitTypes, Folders
  <2>3. [Idle EXCEPT !.kind = "rollback", !.env = e, !.snapshot = s, !.todo = ws] \in Tasks
    BY <2>2, IdleTyped DEF Tasks, Kinds
  <2>4. Unanswered(o) /\ OutcomeOK(o)'
    BY <1>3, <2>1, <2>3, <1>p, <1>e, ProceedOutcome DEF InitiateRollback, New
  <2> QED BY <2>4, OutcomeOne
<1>4. ASSUME NEW o \in Ops, NEW e \in Environments, ApplyApproved(o, e)
      PROVE  OutcomeInv'
  <2>1. pointer[e] \in Snapshots
    BY <1>4, <1>p DEF ApplyApproved, GitTypes
  <2> QED BY <1>4, <2>1, <1>3 DEF ApplyApproved
<1>5. ASSUME NEW o \in Ops, NEW source \in Environments, NEW e \in Environments,
             NEW ws \in SUBSET Workflows, NEW s \in Snapshots,
             InitiateByPointer(o, source, e, ws, s)
      PROVE  OutcomeInv'
  <2>1. [Idle EXCEPT !.env = e, !.snapshot = s] \in Tasks /\ [Idle EXCEPT !.env = e] \in Tasks
    BY IdleTyped DEF Tasks
  <2>2. /\ New(o) /\ UNCHANGED movers
        /\ \/ Proceed(o, [Idle EXCEPT !.env = e, !.snapshot = s])
           \/ Failed(o, [Idle EXCEPT !.env = e])
    BY <1>5 DEF InitiateByPointer
  <2>3. Unanswered(o) /\ OutcomeOK(o)'
    BY <2>1, <2>2, <1>p, <1>e, ProceedOutcome, FailedOutcome DEF New
  <2> QED BY <2>3, OutcomeOne
<1>6. ASSUME NEW o \in Ops, ExportRefused(o)
      PROVE  OutcomeInv'
  <2>1. Unanswered(o) /\ OutcomeOK(o)'
    BY <1>6, <1>p, <1>w, <1>e, FailedOutcome DEF ExportRefused
  <2> QED BY <2>1, OutcomeOne
<1>7. ASSUME NEW o \in Ops, NEW ws \in SUBSET Workflows, NEW s \in Snapshots, Exported(o, ws, s)
      PROVE  OutcomeInv'
  <2> DEFINE t == [task[o] EXCEPT !.snapshot = s, !.todo = ws]
  <2>1. t \in Tasks /\ task[o].pc = "export" /\ UNCHANGED movers
    BY <1>7, <1>w DEF Exported, Tasks
  <2>2. /\ Undone(o) /\ answer[o] # "completed" /\ record[o] = "none" /\ o \notin movers
        /\ task[o].kind = t.kind
    BY <2>1, <1>w, <1>e DEF Tasks
  <2> HIDE DEF t
  <2>3. Onboard(o, t) \/ Failed(o, task[o])
    BY <1>7 DEF Exported, t
  <2>4. CASE Proceed(o, t) \/ Failed(o, t) \/ Failed(o, task[o])
    <3>1. Unanswered(o) /\ OutcomeOK(o)'
      BY <2>1, <2>2, <2>4, <1>p, <1>w, ProceedOutcome, FailedOutcome
    <3> QED BY <3>1, OutcomeOne
  <2>5. CASE /\ task' = [task EXCEPT ![o] = [t EXCEPT !.pc = "onboard"]]
             /\ UNCHANGED <<record, answer, runs>>
    <3>1. OutcomeOK(o)'
      BY <2>1, <2>2, <2>5 DEF OutcomeOK
    <3>2. Unanswered(o)
      BY <2>1, <2>5, <1>p DEF Unanswered, Alone, OutcomeTypes
    <3> QED BY <3>1, <3>2, OutcomeOne
  <2> QED BY <2>3, <2>4, <2>5 DEF Onboard
<1>8. ASSUME NEW o \in Ops, NEW ws \in SUBSET Workflows, NEW s \in Snapshots,
             BackupExported(o, ws, s)
      PROVE  OutcomeInv'
  <2>1. task[o].pc = "export" /\ task[o].kind = "backup" /\ UNCHANGED movers
    BY <1>8 DEF BackupExported
  <2>2. CASE Failed(o, task[o])
    <3>1. Unanswered(o) /\ OutcomeOK(o)'
      BY <2>1, <2>2, <1>p, <1>w, <1>e, FailedOutcome
    <3> QED BY <3>1, OutcomeOne
  <2>3. CASE /\ CreateRow(o, "completed")
             /\ task' = [task EXCEPT ![o] = [Ended(task[o]) EXCEPT !.snapshot = s]]
             /\ UNCHANGED <<answer, runs>>
    <3>1. task'[o].kind = "backup"
      BY <2>1, <2>3, <1>p, <1>w DEF Ended, OutcomeTypes, Tasks
    <3>2. record'[o] \in {"none", "completed"}
      BY <2>1, <2>3, <1>p, <1>e DEF CreateRow, OutcomeTypes
    <3>3. OutcomeOK(o)'
      BY <2>1, <2>3, <3>1, <3>2, <1>e DEF OutcomeOK
    <3>4. Unanswered(o)
      BY <2>1, <2>3, <1>p DEF Unanswered, Alone, CreateRow, OutcomeTypes
    <3> QED BY <3>3, <3>4, OutcomeOne
  <2> QED BY <1>8, <2>2, <2>3 DEF BackupExported
<1>9. ASSUME NEW o \in Ops, Approve(o)
      PROVE  OutcomeInv'
  <2>1. record[o] = "pending_approval" /\ UNCHANGED movers
    BY <1>9 DEF Approve, Awaits
  <2>2. o \notin movers /\ Undone(o) /\ answer[o] # "completed"
    BY <2>1, <1>w DEF DecisionOK, OutcomeOK, Undone
  <2>3. CASE Failed(o, task[o])
    <3>1. Unanswered(o) /\ OutcomeOK(o)'
      BY <2>1, <2>2, <2>3, <1>p, <1>w, FailedOutcome
    <3> QED BY <3>1, OutcomeOne
  <2>4. CASE \E ws \in Loaded(task[o].snapshot) :
                /\ Begin(o, [task[o] EXCEPT !.todo = ws])
                /\ UpdateRow(o, {"approved"}, "deploying") \/ UNCHANGED record
    <3>1. /\ UNCHANGED answer
          /\ \A q \in Ops \ {o} : task'[q] = task[q] /\ runs'[q] = runs[q]
      BY <2>4, <1>p DEF Begin, OutcomeTypes
    <3>2. /\ record'[o] \in {"pending_approval", "approved", "deploying"}
          /\ \A q \in Ops \ {o} : record'[q] = record[q]
      BY <2>1, <2>4, <1>p DEF UpdateRow, OutcomeTypes
    <3>3. OutcomeOK(o)'
      BY <2>1, <2>2, <3>1, <3>2 DEF OutcomeOK
    <3>4. Unanswered(o)
      BY <2>1, <3>1, <3>2 DEF Unanswered, Alone
    <3> QED BY <3>3, <3>4, OutcomeOne
  <2> QED BY <1>9, <2>3, <2>4 DEF Approve
<1>10. ASSUME NEW o \in Ops, Reject(o)
       PROVE  OutcomeInv'
  <2>1. CASE UNCHANGED record
    BY <1>10, <2>1 DEF Reject, OutcomeInv, OutcomeOK
  <2>2. CASE record' = [record EXCEPT ![o] = "rejected"]
    <3>1. /\ record'[o] = "rejected" /\ UNCHANGED <<task, answer, runs, movers>>
          /\ Unanswered(o)
      BY <1>10, <2>2, <1>p DEF Reject, Unanswered, Alone, OutcomeTypes
    <3>2. OutcomeOK(o)'
      BY <3>1, <1>w DEF OutcomeOK
    <3> QED BY <3>1, <3>2, OutcomeOne
  <2> QED BY <1>10, <2>1, <2>2 DEF Reject
<1>11. ASSUME NEW o \in Ops, NEW w \in Workflows, Deploy(o, w)
       PROVE  OutcomeInv'
  <2>1. task[o].pc = "deploy" /\ UNCHANGED movers
    BY <1>11 DEF Deploy
  <2>2. o \notin movers /\ record[o] # "failed" /\ answer[o] # "completed"
    BY <2>1, <1>w DEF OutcomeOK
  <2>3. PICK delivered \in BOOLEAN, answered \in BOOLEAN :
             LET t == [task[o] EXCEPT !.todo = @ \ {w},
                                      !.sent = @ \/ answered,
                                      !.failed = @ \/ ~answered]
             IN  IF t.todo # {}
                 THEN task' = [task EXCEPT ![o] = t] /\ UNCHANGED <<rows, runs>>
                 ELSE IF NothingSent(t)
                 THEN Failed(o, t)
                 ELSE /\ task' = [task EXCEPT ![o] = [Ended(t) EXCEPT !.pc = "verify"]]
                      /\ UpdateRowAtMost(o, {}, "verifying")
                      /\ UNCHANGED <<answer, runs>>
    BY <1>11 DEF Deploy
  <2> DEFINE t == [task[o] EXCEPT !.todo = @ \ {w},
                                  !.sent = @ \/ answered,
                                  !.failed = @ \/ ~answered]
  <2>4. /\ t.kind = task[o].kind /\ Ended(t).kind = task[o].kind
        /\ [Ended(t) EXCEPT !.pc = "verify"].kind = task[o].kind
    BY <1>w DEF Ended, Tasks
  <2> HIDE DEF t
  <2>5. /\ \E u \in {t, Ended(t), [Ended(t) EXCEPT !.pc = "verify"]} : task' = [task EXCEPT ![o] = u]
        /\ UNCHANGED record \/ UpdateRowAtMost(o, {}, "verifying")
        /\ UNCHANGED answer \/ answer' = [answer EXCEPT ![o] = "failed"]
        /\ UNCHANGED runs
    <3>1. CASE task' = [task EXCEPT ![o] = t] /\ UNCHANGED <<rows, runs>>
      BY <3>1 DEF rows
    <3>2. CASE Failed(o, t)
      BY <3>2 DEF Failed
    <3>3. CASE /\ task' = [task EXCEPT ![o] = [Ended(t) EXCEPT !.pc = "verify"]]
               /\ UpdateRowAtMost(o, {}, "verifying")
               /\ UNCHANGED <<answer, runs>>
      BY <3>3
    <3> QED BY <2>3, <3>1, <3>2, <3>3 DEF t
  <2>6. /\ task'[o].kind = task[o].kind
        /\ record'[o] \in {record[o], "verifying"}
        /\ answer'[o] \in {answer[o], "failed"}
        /\ Unanswered(o)
    BY <2>1, <2>4, <2>5, <1>p DEF UpdateRowAtMost, UpdateRow, Unanswered, Alone, OutcomeTypes
  <2>7. OutcomeOK(o)'
    BY <2>1, <2>2, <2>6, <1>w DEF OutcomeOK
  <2> QED BY <2>6, <2>7, OutcomeOne
<1>12. ASSUME NEW o \in Ops, Verified(o)
       PROVE  OutcomeInv'
  <2>1. PICK w \in PointerWrites :
          /\ movers' = IF w.moved THEN movers \cup {o} ELSE movers
          /\ LET outcome == IF w.told THEN "completed" ELSE "failed" IN
                /\ UpdateRowAtMost(o, {"updating_pointer"}, outcome)
                /\ answer' = [answer EXCEPT ![o] = outcome]
    BY <1>12 DEF Verified
  <2>2. /\ task[o].pc = "verify" /\ UNCHANGED runs
        /\ task' = [task EXCEPT ![o].pc = "ended"]
    BY <1>12 DEF Verified
  <2>3. o \notin movers /\ record[o] # "failed" /\ runs[o] = "once" /\ answer[o] # "completed"
    BY <2>2, <1>w DEF OutcomeOK, DecisionOK
  <2>4. w.moved <=> w.told
    BY "gitlost" \notin Faults DEF PointerWrites
  <2>5. task'[o].pc = "ended" /\ task'[o].kind = task[o].kind
    BY <2>2, <1>p DEF OutcomeTypes, Tasks
  <2>6. CASE w.told
    <3>1. /\ record'[o] \in {record[o], "updating_pointer", "completed"}
          /\ answer'[o] = "completed" /\ movers' = movers \cup {o}
          /\ Unanswered(o)
      BY <2>1, <2>2, <2>4, <2>6, <1>p DEF UpdateRowAtMost, UpdateRow, Unanswered, Alone, OutcomeTypes
    <3>2. OutcomeOK(o)'
      BY <2>2, <2>3, <2>5, <3>1 DEF OutcomeOK
    <3> QED BY <3>1, <3>2, OutcomeOne
  <2>7. CASE ~w.told
    <3>1. /\ record'[o] \in {record[o], "updating_pointer", "failed"}
          /\ answer'[o] = "failed" /\ movers' = movers
          /\ Unanswered(o)
      BY <2>1, <2>2, <2>4, <2>7, <1>p DEF UpdateRowAtMost, UpdateRow, Unanswered, Alone, OutcomeTypes
    <3>2. OutcomeOK(o)'
      BY <2>2, <2>3, <2>5, <3>1, <1>w DEF OutcomeOK
    <3> QED BY <3>1, <3>2, OutcomeOne
  <2> QED BY <2>6, <2>7
<1>s. ASSUME UNCHANGED <<task, rows, runs, movers>>
      PROVE  OutcomeInv'
  BY <1>s DEF OutcomeInv, OutcomeOK, rows
<1>13. ASSUME NEW e \in Environments, TriggerOnboarding(e)
       PROVE  OutcomeInv'
  BY <1>13, <1>s DEF TriggerOnboarding, history, rows
<1>h. ASSUME NEW e \in Environments, NEW o \in Ops, o = onboarding[e].by
      PROVE  task[o].pc = "onboard"
  BY <1>h DEF CoreInv, HoldersInv
<1>f. ASSUME NEW e \in Environments, OnboardingFailed(e), UNCHANGED movers
      PROVE  OutcomeInv'
  <2>1. CASE onboarding[e].by \in Ops
    <3> PICK o \in Ops : o = onboarding[e].by
      BY <2>1
    <3>1. Undone(o)
      BY <1>f, <1>h, <1>e
    <3>2. Unanswered(o) /\ OutcomeOK(o)'
      BY <1>f, <3>1, <1>p, <1>w, FailedOutcome, AsyncIsNoOp DEF OnboardingFailed
    <3> QED BY <3>2, OutcomeOne
  <2>2. CASE onboarding[e].by \notin Ops
    BY <1>f, <2>2, <1>s DEF OnboardingFailed
  <2> QED BY <2>1, <2>2
<1>14. ASSUME NEW e \in Environments, NEW ws \in SUBSET Workflows, NEW s \in Snapshots,
              OnboardingExported(e, ws, s)
       PROVE  OutcomeInv'
  BY <1>14, <1>f, <1>s DEF OnboardingExported
<1>15. ASSUME NEW e \in Environments, Onboarded(e)
       PROVE  OutcomeInv'
  <2>1. CASE onboarding[e].by \in Ops
    <3> PICK o \in Ops : o = onboarding[e].by
      BY <2>1
    <3>1. UNCHANGED movers /\ Undone(o) /\ answer[o] # "completed"
      BY <1>15, <1>h, <1>e DEF Onboarded
    <3>2. Unanswered(o) /\ OutcomeOK(o)'
      BY <1>15, <3>1, <1>p, <1>w, ProceedOutcome, AsyncIsNoOp DEF Onboarded
    <3> QED BY <3>2, OutcomeOne
  <2>2. CASE onboarding[e].by \notin Ops
    BY <1>15, <2>2, <1>s DEF Onboarded
  <2> QED BY <2>1, <2>2
<1>16. CASE Crash
  <2>1. UNCHANGED <<record, answer, runs, movers>>
    BY <1>16 DEF Crash, history
  <2>2. ASSUME NEW o \in Ops
        PROVE  OutcomeOK(o)'
    <3>1. task'[o] = task[o] \/ task'[o] = Ended(task[o])
      BY <1>16 DEF Crash
    <3>2. task'[o].pc \in {task[o].pc, "ended"} /\ task'[o].kind = task[o].kind
      BY <3>1, <1>w DEF Ended, Tasks
    <3> QED BY <2>1, <3>2, <1>w DEF OutcomeOK
  <2> QED BY <2>2 DEF OutcomeInv
<1> QED BY <1>1, <1>3, <1>4, <1>5, <1>6, <1>7, <1>8, <1>9, <1>10, <1>11, <1>12, <1>13, <1>14,
           <1>15, <1>16 DEF Next

\* What is told of an operation, and what its row says, agrees with the pointer, as
\* long as the answer to the write of the pointer arrives.
THEOREM OutcomesAgree ==
    ASSUME "outage" \notin Faults, "gitlost" \notin Faults
    PROVE  Spec => []OutcomeAgrees
<1>1. OutcomeInv => OutcomeAgrees
  BY DEF OutcomeInv, OutcomeOK, OutcomeAgrees
<1>2. CoreInv /\ DecisionInv /\ [Next]_vars => DecisionInv'
  BY DecisionAlways
<1>3. CoreInv /\ DecisionInv /\ OutcomeInv /\ [Next]_vars => OutcomeInv'
  <2>1. OutcomeInv /\ UNCHANGED vars => OutcomeInv'
    BY DEF OutcomeInv, OutcomeOK, vars, rows, history
  <2> QED BY <2>1, OutcomeStep
<1>4. Init => OutcomeInv
  BY DEF Init, OutcomeInv, OutcomeOK
<1> QED BY <1>1, <1>2, <1>3, <1>4, CoreInit, CoreStep, DecisionInit, PTL DEF Spec

-----------------------------------------------------------------------------
(* Baselines.                                                              *)

\* A step that adds no baseline begins an onboarding only where no pointer is.
LEMMA BaselinesFrame ==
    ASSUME TypeOK, BaselinesInv, GitGrows, UNCHANGED baselines,
           \A e \in Environments : pointer[e] # None => pointer'[e] # None,
           \A e \in Environments :
              onboarding'[e].pc = "export" => onboarding[e].pc = "export" \/ pointer[e] = None
    PROVE  BaselinesInv'
<1>1. ASSUME NEW s \in baselines
      PROVE  /\ git'[s] = git[s] /\ git[s] # None
             /\ git[s].env \in Environments
  <2>1. s \in Snapshots /\ git[s] # None
    BY DEF TypeOK, BaselinesInv
  <2> QED BY <2>1 DEF TypeOK, GitGrows, Folders
<1> QED BY <1>1 DEF BaselinesInv, OnboardedOnce

\* As long as Git is read, an onboarding begins only where no pointer is.
LEMMA BaselinesStep ==
    ASSUME CoreInv, BaselinesInv, Next, "gitread" \notin Faults
    PROVE  BaselinesInv'
<1>p. TypeOK /\ OutcomeTypes /\ GitTypes /\ HistoryTypes
  BY TypeParts DEF CoreInv
<1>g. GitGrows
  BY Keeps
<1>n. ASSUME NEW e, NotOnboarded(e)
      PROVE  pointer[e] = None
  BY <1>n DEF NotOnboarded
<1>s. ASSUME UNCHANGED <<pointer, onboarding, baselines>>
      PROVE  BaselinesInv'
  BY <1>s, <1>p, <1>g, BaselinesFrame
<1>1. ASSUME NEW o \in Ops, NEW ws \in SUBSET Workflows, NEW s \in Snapshots, Exported(o, ws, s)
      PROVE  BaselinesInv'
  <2>1. task[o].env \in Environments
    BY <1>1, <1>p DEF Exported, CoreInv, WorkInv, PlanOK
  <2> DEFINE t == [task[o] EXCEPT !.snapshot = s, !.todo = ws]
  <2>2. t.env = task[o].env
    BY <1>p DEF OutcomeTypes, Tasks
  <2> HIDE DEF t
  <2>3. /\ UNCHANGED <<pointer, baselines>>
        /\ \/ UNCHANGED onboarding
           \/ /\ NotOnboarded(t.env)
              /\ onboarding' = [onboarding EXCEPT ![t.env] = [by |-> o, pc |-> "export"]]
    BY <1>1 DEF Exported, Onboard, t
  <2>4. \A e \in Environments :
           onboarding'[e].pc = "export" => onboarding[e].pc = "export" \/ pointer[e] = None
    BY <2>1, <2>2, <2>3, <1>n, <1>p DEF GitTypes
  <2> QED BY <2>3, <2>4, <1>p, <1>g, BaselinesFrame
<1>2. ASSUME NEW e \in Environments, TriggerOnboarding(e)
      PROVE  BaselinesInv'
  <2>1. /\ UNCHANGED <<pointer, baselines>> /\ pointer[e] = None
        /\ onboarding' = [onboarding EXCEPT ![e] = [by |-> Async, pc |-> "export"]]
    BY <1>2, <1>n DEF TriggerOnboarding, history
  <2>2. \A d \in Environments :
           onboarding'[d].pc = "export" => onboarding[d].pc = "export" \/ pointer[d] = None
    BY <2>1, <1>p DEF GitTypes
  <2> QED BY <2>1, <2>2, <1>p, <1>g, BaselinesFrame
<1>r. ASSUME NEW e \in Environments,
             Released(e) \/ onboarding' = [onboarding EXCEPT ![e].pc = "verify"]
      PROVE  /\ onboarding'[e].pc # "export"
             /\ \A d \in Environments \ {e} : onboarding'[d] = onboarding[d]
  BY <1>r, <1>p DEF Released, Nobody, GitTypes, Locks
<1>3. ASSUME NEW e \in Environments, NEW ws \in SUBSET Workflows, NEW s \in Snapshots,
             OnboardingExported(e, ws, s)
      PROVE  BaselinesInv'
  <2>1. /\ onboarding'[e].pc # "export"
        /\ \A d \in Environments \ {e} : onboarding'[d] = onboarding[d]
    BY <1>3, <1>r DEF OnboardingExported, OnboardingFailed
  <2>2. CASE UNCHANGED <<pointer, baselines>>
    <3>1. \A d \in Environments :
             onboarding'[d].pc = "export" => onboarding[d].pc = "export" \/ pointer[d] = None
      BY <2>1
    <3> QED BY <2>2, <3>1, <1>p, <1>g, BaselinesFrame
  <2>3. CASE /\ Commit(s, e, "onboarding", ws)
             /\ pointer' = [pointer EXCEPT ![e] = s]
             /\ baselines' = baselines \cup {s}
    <3>1. git'[s] = [env |-> e, kind |-> "onboarding", files |-> ws] /\ git'[s] # None
      BY <2>3, <1>p, Committed1
    <3>2. ASSUME NEW u \in baselines
          PROVE  git'[u] = git[u] /\ git'[u] # None /\ git[u].env \in Environments \ {e}
      <4>1. u \in Snapshots /\ git[u] # None
        BY <1>p DEF GitTypes, BaselinesInv
      <4>2. git[u].env # e
        BY <1>3 DEF BaselinesInv, OnboardingExported
      <4> QED BY <4>1, <4>2, <1>p, <1>g DEF GitTypes, GitGrows, Folders
    <3>3. pointer'[e] # None /\ \A d \in Environments \ {e} : pointer'[d] = pointer[d]
      BY <2>3, <1>p, NullAssumption DEF GitTypes
    <3>4. ASSUME NEW u \in baselines'
          PROVE  /\ git'[u] # None
                 /\ pointer'[git'[u].env] # None
                 /\ onboarding'[git'[u].env].pc # "export"
      <4>1. CASE u = s
        BY <4>1, <3>1, <3>3, <2>1
      <4>2. CASE u \in baselines
        BY <4>2, <3>2, <3>3, <2>1 DEF BaselinesInv
      <4> QED BY <2>3, <4>1, <4>2
    <3>5. ASSUME NEW u \in baselines', NEW v \in baselines', git'[u].env = git'[v].env
          PROVE  u = v
      BY <2>3, <3>1, <3>2, <3>5 DEF BaselinesInv, OnboardedOnce
    <3> QED BY <3>4, <3>5 DEF BaselinesInv, OnboardedOnce
  <2> QED BY <1>3, <2>2, <2>3 DEF OnboardingExported
<1>4. ASSUME NEW e \in Environments, Onboarded(e)
      PROVE  BaselinesInv'
  <2>1. UNCHANGED <<pointer, baselines>> /\ Released(e)
    BY <1>4 DEF Onboarded
  <2>2. \A d \in Environments :
           onboarding'[d].pc = "export" => onboarding[d].pc = "export" \/ pointer[d] = None
    BY <2>1, <1>r
  <2> QED BY <2>1, <2>2, <1>p, <1>g, BaselinesFrame
<1>5. ASSUME NEW o \in Ops, Verified(o)
      PROVE  BaselinesInv'
  <2>1. task[o] \in Tasks /\ PlanOK(o) /\ task[o].pc = "verify"
    BY <1>5, <1>p DEF Verified, CoreInv, WorkInv, OutcomeTypes
  <2>2. task[o].snapshot # None
    BY <2>1 DEF PlanOK
  <2>3. /\ UNCHANGED <<onboarding, baselines>>
        /\ \/ UNCHANGED pointer
           \/ pointer' = [pointer EXCEPT ![task[o].env] = task[o].snapshot]
    BY <1>5 DEF Verified
  <2>4. \A e \in Environments : pointer[e] # None => pointer'[e] # None
    BY <2>2, <2>3, <1>p DEF GitTypes
  <2> QED BY <2>3, <2>4, <1>p, <1>g, BaselinesFrame
<1>6. CASE Crash
  <2>1. UNCHANGED <<pointer, baselines>> /\ \A e \in Environments : onboarding'[e].pc = "none"
    BY <1>6 DEF Crash, Nobody, history
  <2> QED BY <2>1, <1>p, <1>g, BaselinesFrame
<1>7. ASSUME NEW o \in Ops, NEW e \in Environments, Initiate(o, e) \/ Backup(o, e)
      PROVE  BaselinesInv'
  BY <1>7, <1>s DEF Initiate, Backup, history
<1>8. ASSUME NEW o \in Ops, NEW e \in Environments, NEW s, InitiateRollback(o, e, s)
      PROVE  BaselinesInv'
  BY <1>8, <1>s DEF InitiateRollback
<1>9. ASSUME NEW o \in Ops, NEW e \in Environments, ApplyApproved(o, e)
      PROVE  BaselinesInv'
  BY <1>9, <1>8 DEF ApplyApproved
<1>10. ASSUME NEW o \in Ops, NEW source, NEW e, NEW ws, NEW s, InitiateByPointer(o, source, e, ws, s)
       PROVE  BaselinesInv'
  BY <1>10, <1>s DEF InitiateByPointer
<1>11. ASSUME NEW o \in Ops, NEW ws, NEW s, BackupExported(o, ws, s)
       PROVE  BaselinesInv'
  BY <1>11, <1>s DEF BackupExported
<1>12. ASSUME NEW o \in Ops, NEW w, ExportRefused(o) \/ Approve(o) \/ Reject(o) \/ Deploy(o, w)
       PROVE  BaselinesInv'
  BY <1>12, <1>s DEF ExportRefused, Approve, Reject, Deploy
<1> QED BY <1>1, <1>2, <1>3, <1>4, <1>5, <1>6, <1>7, <1>8, <1>9, <1>10, <1>11, <1>12 DEF Next

\* As long as Git is read, an environment is given one baseline, whoever onboards it
\* at the same time.
THEOREM OneBaseline ==
    ASSUME "gitread" \notin Faults
    PROVE  Spec => []OnboardedOnce
<1>1. BaselinesInv => OnboardedOnce
  BY DEF BaselinesInv
<1>2. CoreInv /\ BaselinesInv /\ [Next]_vars => BaselinesInv'
  <2>1. BaselinesInv /\ UNCHANGED vars => BaselinesInv'
    BY DEF BaselinesInv, OnboardedOnce, vars, history
  <2> QED BY <2>1, BaselinesStep
<1>3. ASSUME Init
      PROVE  BaselinesInv
  <2>1. ASSUME NEW s \in baselines
        PROVE  \E e \in Environments :
                  s = Earlier[e] /\ s # None /\ git[s] # None /\ git[s].env = e
    <3> PICK e \in Environments : s \in Snapshots /\ Earlier[e] = s
      BY <1>3 DEF Init
    <3>1. s # None
      BY NullAssumption
    <3>2. git[s] = [env |-> CHOOSE d \in Environments : Earlier[d] = s,
                    kind |-> "onboarding", files |-> Workflows]
      BY <1>3 DEF Init
    <3>3. (CHOOSE d \in Environments : Earlier[d] = s) = e
      BY <3>1, EarlierAssumption
    <3>4. git[s] = [env |-> e, kind |-> "onboarding", files |-> Workflows]
      BY <3>2, <3>3, Zenon
    <3>5. [env |-> e, kind |-> "onboarding", files |-> Workflows] # None
      BY FolderAssumption DEF Folders
    <3> QED BY <3>1, <3>4, <3>5
  <2>2. \A s \in baselines : git[s] # None
    BY <2>1
  <2>3. \A s \in baselines : pointer[git[s].env] # None /\ onboarding[git[s].env].pc # "export"
    BY <1>3, <2>1 DEF Init, Nobody
  <2>4. OnboardedOnce
    BY <2>1 DEF OnboardedOnce
  <2> QED BY <2>2, <2>3, <2>4 DEF BaselinesInv
<1> QED BY <1>1, <1>2, <1>3, CoreInit, CoreStep, PTL DEF Spec
=============================================================================
