---------------------------- MODULE CanonicalMap ----------------------------
(***************************************************************************)
(* The mapping of one DEV environment: its workflows in n8n, the rows of    *)
(* workflow_env_map that mirror them, and the files in Git to which they    *)
(* are backed up (services/canonical_env_sync_service.py,                  *)
(* _commit_dev_workflows_to_git of api/endpoints/canonical_workflows.py,    *)
(* services/canonical_repo_sync_service.py).                               *)
(*                                                                         *)
(* Several syncs may be at work: refreshes go through the orchestrator,     *)
(* backups, deletions, restores and the scheduler call sync_environment     *)
(* themselves.  A sync suspends only in its calls to n8n.  From the last    *)
(* fetch of a batch to the next fetch it has the event loop to itself:      *)
(* loop is the sync that has, and the others wait.  What a failure or a     *)
(* crash tears apart within such a segment is an action of its own.        *)
(*                                                                         *)
(* Content is what compute_workflow_hash tells apart.                      *)
(*                                                                         *)
(* Faults:  "list"   the listing of n8n's workflows raises                 *)
(*          "fetch"  get_workflow raises, and the listed copy is used       *)
(*          "read"   a lookup raises, which is read as "no row"            *)
(*          "row"    the write of a row raises                             *)
(*          "mark"   some rows of vanished workflows are not marked         *)
(*          "db"     another statement raises                              *)
(*          "git"    the commit of a file raises                           *)
(*          "push"   somebody else commits a file                          *)
(*          "crash"  the process dies                                      *)
(***************************************************************************)
EXTENDS Naturals, Sequences

CONSTANTS
    Ids,           \* ids of workflows in n8n, which never uses one twice
    Contents,
    Initially,     \* the contents of the workflows there are at the start
    Canonicals,    \* canonical ids that can be drawn
    Syncs,         \* syncs that can be at work at once
    Scheduler,     \* the one of the scheduler
    Backups,       \* those that go on to commit to Git
    Free,          \* nobody has the event loop
    NoCanonical,   \* the null of canonical_id
    Nothing,       \* no such file, no such row of canonical_workflow_git_state
    BatchSize,     \* BATCH_SIZE
    MaxEvents,     \* bound on changes by users and on failures, together
    Second,        \* the second of n8n's clock into which each of them falls
    Faults         \* which failures this instance exhibits

ASSUME ValuesAssumption ==
    /\ Scheduler \in Syncs
    /\ Backups \subseteq Syncs
    /\ Free \notin Syncs
    /\ NoCanonical \notin Canonicals
    /\ Nothing \notin Contents
    /\ Initially \in [Ids -> Contents \cup {Nothing}]
ASSUME BoundsAssumption ==
    /\ BatchSize \in Nat \ {0}
    /\ MaxEvents \in Nat
    /\ Second \in [0..MaxEvents -> Nat]

VARIABLES
    flow,        \* the workflows in n8n, with their updatedAt
    row,         \* the rows of workflow_env_map, by n8n_workflow_id
    held,        \* the canonicals of the rows whose n8n_workflow_id was cleared
    canonicals,  \* the rows of canonical_workflows
    gitState,    \* git_content_hash, by canonical
    file,        \* the files in the folder of the environment, by canonical
    deleting,    \* the workflows deleted in n8n whose row is not marked yet
    sync,        \* the syncs
    loop,        \* the sync that has the event loop
    misread,     \* history: the workflows whose row a lookup missed
    clock        \* n8n's clock, which ticks with each change and each failure

rows == <<row, held, deleting, misread>>
git == <<canonicals, gitState, file>>
vars == <<flow, rows, git, sync, loop, clock>>

Unborn == [state |-> "unborn"]
Gone == [state |-> "gone"]
Version(x, t) == [state |-> "live", content |-> x, at |-> t]
Versions == [state : {"live"}, content : Contents, at : 0..MaxEvents]

Live(w) == flow[w].state = "live"

NoRow == [status |-> "none"]
Rows ==
    [status : {"linked", "unmapped", "missing", "ignored"},
     canon : Canonicals \cup {NoCanonical},
     content : Contents,
     at : 0..MaxEvents]

\* A row to be committed, as it was read.
Items ==
    [id : Ids, canon : Canonicals \cup {NoCanonical}, content : Contents]

\* What a sync keeps in its variables.
Activities ==
    [pc : {"idle", "listing", "fetching", "processing", "marking", "planning",
           "committing"},
     listed : [Ids -> Versions \cup {Gone}],       \* n8n_workflow_summaries
     left : SUBSET Ids,                            \* to be fetched
     batch : Seq([id : Ids, version : Versions]),  \* to be processed
     created : SUBSET Ids,                         \* created_workflow_ids
     todo : SUBSET Items,                          \* to be committed
     result : {"clean", "failed"}]

Idle ==
    [pc |-> "idle", listed |-> [w \in Ids |-> Gone],
     left |-> {}, batch |-> <<>>, created |-> {}, todo |-> {}, result |-> "clean"]

TypeOK ==
    /\ flow \in [Ids -> Versions \cup {Unborn, Gone}]
    /\ row \in [Ids -> Rows \cup {NoRow}]
    /\ held \subseteq Canonicals
    /\ canonicals \subseteq Canonicals
    /\ gitState \in [Canonicals -> Contents \cup {Nothing}]
    /\ file \in [Canonicals -> Contents \cup {Nothing}]
    /\ deleting \subseteq Ids
    /\ sync \in [Syncs -> Activities]
    /\ loop \in Syncs \cup {Free}
    /\ misread \subseteq Ids
    /\ clock \in 0..MaxEvents

\* An environment that was connected just now.
Init ==
    /\ flow = [w \in Ids |-> IF Initially[w] = Nothing THEN Unborn
                             ELSE Version(Initially[w], 0)]
    /\ row = [w \in Ids |-> NoRow]
    /\ held = {}
    /\ canonicals = {}
    /\ gitState = [c \in Canonicals |-> Nothing]
    /\ file = [c \in Canonicals |-> Nothing]
    /\ deleting = {}
    /\ sync = [s \in Syncs |-> Idle]
    /\ loop = Free
    /\ misread = {}
    /\ clock = 0

Ticks == clock < MaxEvents /\ clock' = clock + 1

Fails(fault) == fault \in Faults /\ Ticks

-----------------------------------------------------------------------------
(* What users do, in n8n and in the application.                           *)

CreateFlow(w, x) ==
    /\ flow[w] = Unborn
    /\ Ticks
    /\ flow' = [flow EXCEPT ![w] = Version(x, clock + 1)]
    /\ UNCHANGED <<rows, git, sync, loop>>

EditFlow(w, x) ==
    /\ Live(w)
    /\ x # flow[w].content
    /\ Ticks
    /\ flow' = [flow EXCEPT ![w] = Version(x, clock + 1)]
    /\ UNCHANGED <<rows, git, sync, loop>>

RemoveFlow(w) ==
    /\ Live(w)
    /\ Ticks
    /\ flow' = [flow EXCEPT ![w] = Gone]
    /\ UNCHANGED <<rows, git, sync, loop>>

\* delete_workflow: the call to flow ...
DeleteFlow(w) ==
    /\ Live(w)
    /\ Ticks
    /\ flow' = [flow EXCEPT ![w] = Gone]
    /\ deleting' = deleting \cup {w}
    /\ UNCHANGED <<row, held, misread, git, sync, loop>>

\* Mutant: what a row without canonical held is recorded as held.
MarkDeletedNull(w) ==
    /\ loop = Free
    /\ w \in deleting
    /\ deleting' = deleting \ {w}
    /\ row' = [row EXCEPT ![w] = NoRow]
    /\ held' = IF row[w] = NoRow THEN held ELSE held \cup {row[w].canon}
    /\ UNCHANGED <<misread, flow, git, sync, loop, clock>>

\* ... and, when it has returned, delete_workflow_from_cache.
MarkDeleted(w) ==
    /\ loop = Free
    /\ w \in deleting
    /\ deleting' = deleting \ {w}
    /\ row' = [row EXCEPT ![w] = NoRow]
    /\ held' = held \cup {c \in Canonicals : row[w] # NoRow /\ row[w].canon = c}
    /\ UNCHANGED <<misread, flow, git, sync, loop, clock>>

MarkDeletedFails(w) ==
    /\ loop = Free
    /\ w \in deleting
    /\ Fails("row")
    /\ deleting' = deleting \ {w}
    /\ UNCHANGED <<row, held, misread, flow, git, sync, loop>>

SetStatus(w, status) ==
    /\ loop = Free
    /\ row[w] # NoRow
    /\ row[w].status # status
    /\ Ticks
    /\ row' = [row EXCEPT ![w].status = status]
    /\ UNCHANGED <<held, deleting, misread, flow, git, sync, loop>>

ArchiveWorkflow(w) == SetStatus(w, "ignored")

\* unarchive_workflow asks neither for a canonical nor for the old status.
UnarchiveWorkflow(w) == SetStatus(w, "linked")

-----------------------------------------------------------------------------
(* sync_environment: listing and fetching.                                 *)

To(s, r) == sync' = [sync EXCEPT ![s] = r]

Begin(s) ==
    /\ loop = Free
    /\ sync[s].pc = "idle"
    /\ To(s, [Idle EXCEPT !.pc = "listing"])
    /\ UNCHANGED <<flow, rows, git, loop, clock>>

List(s) ==
    /\ loop = Free
    /\ sync[s].pc = "listing"
    /\ LET present == {w \in Ids : Live(w)}
       IN /\ To(s, [sync[s] EXCEPT
                       !.listed = [w \in Ids |-> IF Live(w) THEN flow[w] ELSE Gone],
                       !.left = present,
                       !.pc = IF present = {} THEN "marking" ELSE "fetching"])
          /\ loop' = IF present = {} THEN s ELSE Free
    /\ UNCHANGED <<flow, rows, git, clock>>

ListFails(s) ==
    /\ loop = Free
    /\ sync[s].pc = "listing"
    /\ Fails("list")
    /\ To(s, Idle)
    /\ UNCHANGED <<flow, rows, git, loop>>

\* The answer for a workflow is added to the batch, which it may complete.
Fetched(s, w, version) ==
    LET batch == Append(sync[s].batch, [id |-> w, version |-> version])
        left == sync[s].left \ {w}
        full == Len(batch) = BatchSize \/ left = {}
    IN /\ loop = Free
       /\ sync[s].pc = "fetching"
       /\ w \in sync[s].left
       /\ To(s, [sync[s] EXCEPT !.batch = batch,
                                !.left = left,
                                !.pc = IF full THEN "processing" ELSE @])
       /\ loop' = IF full THEN s ELSE Free

\* get_workflow; of a workflow that is gone, the listed copy serves.
Fetch(s, w) ==
    /\ Fetched(s, w, IF Live(w) THEN flow[w] ELSE sync[s].listed[w])
    /\ UNCHANGED <<flow, rows, git, clock>>

FetchFails(s, w) ==
    /\ Fails("fetch")
    /\ Fetched(s, w, sync[s].listed[w])
    /\ UNCHANGED <<flow, rows, git>>

-----------------------------------------------------------------------------
(* _process_workflow_batch, one workflow at a time.                        *)

\* created_workflow_ids, which only a backup reads.
Created(s, w) == {v \in {w} : s \in Backups}

\* The result so far, which only a backup remembers.
Result(s, result) ==
    IF result = "failed" /\ s \in Backups THEN "failed" ELSE sync[s].result

\* The workflow at the head of the batch has been processed.
Processed(s, created, result) ==
    LET batch == Tail(sync[s].batch)
        left == sync[s].left
    IN /\ To(s, [sync[s] EXCEPT
                    !.batch = batch,
                    !.created = @ \cup created,
                    !.result = Result(s, result),
                    !.pc = IF batch # <<>> THEN @
                           ELSE IF left # {} THEN "fetching" ELSE "marking"])
       /\ loop' = IF batch = <<>> /\ left # {} THEN Free ELSE loop

Current(s) == Head(sync[s].batch)

Processing(s) == loop = s /\ sync[s].pc = "processing"

\* _normalize_timestamp cuts a date off at its second.  The database gives a date
\* back without a fraction that is zero, which is not cut off and differs: such a
\* workflow is written again instead of skipped, to the same effect.
Normalized(t) == Second[t]

\* Mutant: a row that was marked missing is skipped as well.
UnchangedAnyStatus(w, version) == Normalized(row[w].at) = Normalized(version.at)

\* The short circuit of _process_workflow_batch.
Unchanged(w, version) ==
    row[w].status # "missing" /\ Normalized(row[w].at) = Normalized(version.at)

Skip(s) ==
    /\ Processing(s)
    /\ row[Current(s).id] # NoRow
    /\ Unchanged(Current(s).id, Current(s).version)
    /\ Processed(s, {}, "clean")
    /\ UNCHANGED <<flow, rows, git, clock>>

Reappeared(r) ==
    IF r.status # "missing" THEN r.status
    ELSE IF r.canon # NoCanonical THEN "linked" ELSE "unmapped"

\* _update_workflow_mapping.
Update(s) ==
    LET w == Current(s).id
        version == Current(s).version
    IN /\ Processing(s)
       /\ row[w] # NoRow
       /\ ~Unchanged(w, version)
       /\ row' = [row EXCEPT ![w] =
                     [status |-> Reappeared(row[w]), canon |-> row[w].canon,
                      content |-> version.content, at |-> version.at]]
       /\ Processed(s, {}, "clean")
       /\ UNCHANGED <<held, deleting, misread, flow, git, clock>>

Holds(w, c) == row[w] # NoRow /\ row[w].canon = c

\* _try_auto_link_by_hash: at most one canonical.
Candidates(w, x) ==
    {c \in Canonicals :
        /\ \A d \in Canonicals : gitState[d] = x <=> d = c
        /\ \A v \in Ids \ {w} : Holds(v, c) => row[v].status = "missing"}

\* The unique index on canonical_id, which has missing and deleted rows too.
Admits(w, c) == c \notin held /\ \A v \in Ids \ {w} : ~Holds(v, c)

\* _get_mapping_by_flow_id finds nothing.
NotFound(w) ==
    \/ row[w] = NoRow /\ UNCHANGED <<clock, misread>>
    \/ row[w] # NoRow /\ Fails("read") /\ misread' = misread \cup {w}

\* _create_workflow_mapping, an upsert.
InsertLinked(s, c) ==
    LET w == Current(s).id
        version == Current(s).version
    IN /\ Processing(s)
       /\ NotFound(w)
       /\ c \in Candidates(w, version.content)
       /\ Admits(w, c)
       /\ row' = [row EXCEPT ![w] =
                     [status |-> "linked", canon |-> c,
                      content |-> version.content, at |-> version.at]]
       /\ Processed(s, {}, "clean")
       /\ UNCHANGED <<held, deleting, flow, git>>

InsertRefused(s, c) ==
    LET w == Current(s).id
    IN /\ Processing(s)
       /\ NotFound(w)
       /\ c \in Candidates(w, Current(s).version.content)
       /\ ~Admits(w, c)
       /\ Processed(s, {}, "failed")
       /\ UNCHANGED <<row, held, deleting, flow, git>>

\* _create_unmapped_mapping; the upsert leaves the canonical of a row alone.
InsertUnmapped(s) ==
    LET w == Current(s).id
        version == Current(s).version
    IN /\ Processing(s)
       /\ \/ NotFound(w) /\ Candidates(w, version.content) = {}
          \/ row[w] = NoRow /\ Fails("read") /\ UNCHANGED misread
       /\ row' = [row EXCEPT ![w] =
                     [status |-> "unmapped",
                      canon |-> IF row[w] = NoRow THEN NoCanonical ELSE row[w].canon,
                      content |-> version.content, at |-> version.at]]
       /\ Processed(s, Created(s, w), "clean")
       /\ UNCHANGED <<held, deleting, flow, git>>

ProcessFails(s) ==
    /\ Processing(s)
    /\ Fails("row")
    /\ Processed(s, {}, "failed")
    /\ UNCHANGED <<flow, rows, git>>

-----------------------------------------------------------------------------
(* _mark_missing_workflows_missing, with the ids of the listing.           *)

Vanished(s) ==
    {w \in Ids : /\ row[w] # NoRow
                 /\ row[w].status # "missing"
                 /\ sync[s].listed[w] = Gone}

Observed(s) == {w \in Ids : sync[s].listed[w] # Gone}

MarkMissing(s, some, result) ==
    /\ loop = s
    /\ sync[s].pc = "marking"
    /\ row' = [w \in Ids |-> IF w \in some
                             THEN [row[w] EXCEPT !.status = "missing"] ELSE row[w]]
    /\ IF s \in Backups /\ Observed(s) # {}
       THEN /\ To(s, [sync[s] EXCEPT !.result = Result(s, result), !.pc = "planning"])
            /\ UNCHANGED loop
       ELSE To(s, Idle) /\ loop' = Free
    /\ UNCHANGED <<held, deleting, misread, flow, git>>

Mark(s) == MarkMissing(s, Vanished(s), "clean") /\ UNCHANGED clock

MarkFails(s) ==
    /\ Fails("mark")
    /\ \E some \in SUBSET Vanished(s) : MarkMissing(s, some, "failed")

-----------------------------------------------------------------------------
(* _commit_dev_workflows_to_git.                                           *)

\* Mutant: whether a workflow has a canonical is not looked at.
ItemAfresh(w) == [id |-> w, canon |-> NoCanonical, content |-> row[w].content]

Item(w) == [id |-> w, canon |-> row[w].canon, content |-> row[w].content]

Bootstrap == \A c \in Canonicals : gitState[c] = Nothing

\* Everything that was observed.
ToBootstrap(s) == {w \in Observed(s) : row[w] # NoRow}

\* Mutant: a linked workflow is committed once only.
ToCommitOnce(s) ==
    {w \in Ids : /\ row[w] # NoRow
                 /\ row[w].status = "linked"
                 /\ row[w].canon # NoCanonical
                 /\ gitState[row[w].canon] = Nothing}

\* Linked workflows that differ from what Git is known to hold.
ToCommit(s) ==
    {w \in Ids : /\ row[w] # NoRow
                 /\ row[w].status = "linked"
                 /\ row[w].canon # NoCanonical
                 /\ gitState[row[w].canon] # row[w].content}

\* New workflows of this sync.
ToCanonicalise(s) ==
    {w \in sync[s].created : /\ row[w] # NoRow
                             /\ row[w].status = "unmapped"
                             /\ row[w].canon = NoCanonical}

Plan(s) ==
    /\ loop = s
    /\ sync[s].pc = "planning"
    /\ To(s, [sync[s] EXCEPT
                 !.todo = {Item(w) : w \in IF Bootstrap THEN ToBootstrap(s)
                                           ELSE ToCommit(s) \cup ToCanonicalise(s)},
                 !.pc = "committing"])
    /\ UNCHANGED <<flow, rows, git, loop, clock>>

\* A statement raises that serves no single workflow: it writes the progress of
\* the job, or reads what there is to commit.
Abort(s) ==
    /\ loop = s
    /\ sync[s].pc \in {"processing", "marking", "planning"}
    /\ Fails("db")
    /\ To(s, Idle)
    /\ loop' = Free
    /\ UNCHANGED <<flow, rows, git>>

Committing(s, i) == loop = s /\ sync[s].pc = "committing" /\ i \in sync[s].todo

Dropped(s, i) == [sync[s] EXCEPT !.todo = @ \ {i}]
Failed(s, i) == [sync[s] EXCEPT !.todo = @ \ {i}, !.result = "failed"]

\* A new uuid.
Fresh == {c \in Canonicals \ canonicals : file[c] = Nothing}

Link(i, c) ==
    row' = [row EXCEPT ![i.id].canon = c, ![i.id].status = "linked"]

\* create_canonical_workflow, and the update of the row.
Canonicalise(s, i, c) ==
    /\ Committing(s, i)
    /\ i.canon = NoCanonical
    /\ c \in Fresh
    /\ canonicals' = canonicals \cup {c}
    /\ Link(i, c)
    /\ To(s, [sync[s] EXCEPT !.todo = (@ \ {i}) \cup {[i EXCEPT !.canon = c]}])
    /\ UNCHANGED <<held, deleting, misread, flow, gitState, file, loop, clock>>

\* One of the two raises, or the bound on canonicals is reached.
CanonicaliseFails(s, i) ==
    /\ Committing(s, i)
    /\ i.canon = NoCanonical
    /\ \/ Fails("db") /\ UNCHANGED canonicals
       \/ Fails("db") /\ \E c \in Fresh : canonicals' = canonicals \cup {c}
       \/ Fresh = {} /\ UNCHANGED <<clock, canonicals>>
    /\ To(s, Failed(s, i))
    /\ UNCHANGED <<flow, rows, gitState, file, loop>>

\* write_workflow_file, and the upsert of canonical_workflow_git_state.
Commit(s, i) ==
    /\ Committing(s, i)
    /\ i.canon # NoCanonical
    /\ file' = [file EXCEPT ![i.canon] = i.content]
    /\ gitState' = [gitState EXCEPT ![i.canon] = i.content]
    /\ To(s, Dropped(s, i))
    /\ UNCHANGED <<flow, rows, canonicals, loop, clock>>

CommitFails(s, i) ==
    /\ Committing(s, i)
    /\ i.canon # NoCanonical
    /\ \/ Fails("git") /\ UNCHANGED file
       \/ Fails("db") /\ file' = [file EXCEPT ![i.canon] = i.content]
    /\ To(s, Failed(s, i))
    /\ UNCHANGED <<flow, rows, canonicals, gitState, loop>>

Finish(s) ==
    /\ loop = s
    /\ sync[s].pc = "committing"
    /\ sync[s].todo = {}
    /\ To(s, Idle)
    /\ loop' = Free
    /\ UNCHANGED <<flow, rows, git, clock>>

-----------------------------------------------------------------------------
(* sync_repository, a file at a time, and commits by somebody else.        *)

RepoSync(c) ==
    /\ loop = Free
    /\ file[c] \notin {Nothing, gitState[c]}
    /\ canonicals' = canonicals \cup {c}
    /\ gitState' = [gitState EXCEPT ![c] = file[c]]
    /\ UNCHANGED <<flow, rows, file, sync, loop, clock>>

Push(c, x) ==
    /\ "push" \in Faults
    /\ x # file[c]
    /\ Ticks
    /\ file' = [file EXCEPT ![c] = x]
    /\ UNCHANGED <<flow, rows, canonicals, gitState, sync, loop>>

Crash ==
    /\ Fails("crash")
    /\ sync' = [s \in Syncs |-> Idle]
    /\ loop' = Free
    /\ deleting' = {}
    /\ UNCHANGED <<row, held, misread, flow, git>>

-----------------------------------------------------------------------------
Process(s) ==
    \/ Skip(s)
    \/ Update(s)
    \/ \E c \in Canonicals : InsertLinked(s, c)
    \/ \E c \in Canonicals : InsertRefused(s, c)
    \/ InsertUnmapped(s)
    \/ ProcessFails(s)

Backup(s) ==
    \/ Plan(s)
    \/ \E i \in sync[s].todo :
        \/ \E c \in Canonicals : Canonicalise(s, i, c)
        \/ CanonicaliseFails(s, i)
        \/ Commit(s, i)
        \/ CommitFails(s, i)
    \/ Finish(s)

\* A step of a sync that has begun.
Step(s) ==
    \/ List(s)
    \/ ListFails(s)
    \/ \E w \in Ids : Fetch(s, w)
    \/ \E w \in Ids : FetchFails(s, w)
    \/ Process(s)
    \/ Mark(s)
    \/ MarkFails(s)
    \/ Backup(s)
    \/ Abort(s)

UserActs ==
    \E w \in Ids :
        \/ \E x \in Contents : CreateFlow(w, x)
        \/ \E x \in Contents : EditFlow(w, x)
        \/ RemoveFlow(w)
        \/ DeleteFlow(w)
        \/ MarkDeleted(w)
        \/ MarkDeletedFails(w)
        \/ ArchiveWorkflow(w)
        \/ UnarchiveWorkflow(w)

Next ==
    \/ UserActs
    \/ \E s \in Syncs : Begin(s)
    \/ \E s \in Syncs : Step(s)
    \/ \E c \in Canonicals : RepoSync(c)
    \/ \E c \in Canonicals, x \in Contents : Push(c, x)
    \/ Crash

Spec == Init /\ [][Next]_vars

\* The scheduler comes round, and the event loop resumes whoever is answered.
Fairness ==
    /\ SF_vars(Begin(Scheduler))
    /\ \A s \in Syncs : SF_vars(Step(s))

FairSpec == Spec /\ Fairness

-----------------------------------------------------------------------------
(* Properties.                                                             *)

\* The row agrees with n8n.
Mirrored(w) ==
    IF Live(w)
    THEN /\ row[w] # NoRow
         /\ row[w].status # "missing"
         /\ row[w].content = flow[w].content
    ELSE row[w] = NoRow \/ row[w].status = "missing"

\* A workflow edited again within the second of the version that its row shows:
\* to the short circuit it has not changed.
Overlooked(w) ==
    /\ Live(w)
    /\ row[w] # NoRow
    /\ row[w].status # "missing"
    /\ row[w].at # flow[w].at
    /\ Normalized(row[w].at) = Normalized(flow[w].at)

\* A workflow with the content of one that is gone: the auto-link chooses the
\* canonical of that one, and the index refuses it, because a row that is deleted or
\* marked missing still has it.
Shadowed(w) ==
    /\ row[w] = NoRow
    /\ Live(w)
    /\ \E c \in Candidates(w, flow[w].content) : ~Admits(w, c)

Mirror == \A w \in Ids : Mirrored(w) \/ Overlooked(w) \/ Shadowed(w)

\* Once users and failures leave it alone, a sync ends up mirroring n8n, though a
\* refresh and a backup at the same time put older versions back and mark rows by
\* listings older than the rows: every workflow but those of which the short circuit
\* or the index hides a change (canonical_env_sync_service.py:80-85, 366-376, 538-554).
RowsMirror == <>[]Mirror

\* When a backup that met no failure ends, Git is known to hold the recorded
\* content of every linked workflow.
BackupIsComplete ==
    [][\A s \in Syncs :
        /\ Finish(s)
        /\ sync[s].result = "clean"
        => \A w \in Ids :
            /\ row[w] # NoRow
            /\ row[w].status = "linked"
            /\ row[w].canon # NoCanonical
            => gitState[row[w].canon] = row[w].content]_vars

\* A workflow keeps its canonical as long as its row lives, except for one
\* whose row a lookup missed.
IdentityStays ==
    [][\A w \in Ids \ misread' :
        /\ row[w] # NoRow
        /\ row[w].canon # NoCanonical
        /\ row'[w] # NoRow
        => row'[w].canon = row[w].canon]_vars

-----------------------------------------------------------------------------
(* The safety part of RowsMirror: what makes a sync repair the rows.       *)

Listing == [w \in Ids |-> IF Live(w) THEN flow[w] ELSE Gone]

Batched(s) == {sync[s].batch[n] : n \in DOMAIN sync[s].batch}

\* What the sync has read is what n8n still has.
UpToDate(s) ==
    sync[s].pc \notin {"idle", "listing"} =>
        /\ sync[s].listed = Listing
        /\ \A b \in Batched(s) : b.version = Listing[b.id]

\* Every sync at work is, and s is still to read.
Settled(s) == (\A t \in Syncs : UpToDate(t)) /\ sync[s].pc \in {"idle", "listing"}

\* Nobody changes n8n, nothing fails, and what Git is known to hold stays the same,
\* so that a shadowed workflow stays shadowed.
Undisturbed == UNCHANGED <<clock, gitState>>

\* What rows there are agree with n8n.  A workflow may lack one, even if nothing is in
\* its way any more: it was refused for a row marked missing that has come back since.
Accurate ==
    \A w \in Ids : row[w] # NoRow \/ ~Live(w) => Mirrored(w) \/ Overlooked(w)

\* From a settled state on, as long as it is undisturbed: when s marks, the rows there
\* are agree with n8n; if they did before s began to read, they mirror n8n when it
\* marks.  Both last from then on, whatever the other syncs do.
SyncRepairs(s) ==
    [](Settled(s) /\ [][Undisturbed]_vars
        => /\ [][Mark(s) => Accurate']_vars
           /\ [](Accurate => []Accurate)
           /\ Accurate => [][Mark(s) => Mirror']_vars
           /\ [](Mirror => []Mirror))

Phase(pc) ==
    CASE pc = "listing"                     -> 1
      [] pc \in {"fetching", "processing"}  -> 2
      [] pc = "marking"                     -> 3
      [] pc = "planning"                    -> 4
      [] pc = "committing"                  -> 5
      [] pc = "idle"                        -> 6

\* To be committed, and without a canonical yet.
Unnamed(s) == {i \in sync[s].todo : i.canon = NoCanonical}

Smaller(S, T) == S \subseteq T /\ S # T

\* Fewer workflows to fetch, or to process; fewer rows to canonicalise, or to commit.
FetchingAdvances(s) ==
    /\ Phase(sync[s].pc) = 2 /\ Phase(sync'[s].pc) = 2
    /\ \/ Smaller(sync'[s].left, sync[s].left)
       \/ /\ sync'[s].left = sync[s].left
          /\ Len(sync'[s].batch) < Len(sync[s].batch)

CommittingAdvances(s) ==
    /\ Phase(sync[s].pc) = 5 /\ Phase(sync'[s].pc) = 5
    /\ \/ Smaller(Unnamed(s)', Unnamed(s))
       \/ Unnamed(s)' = Unnamed(s) /\ Smaller(sync'[s].todo, sync[s].todo)

\* A sync goes from phase to phase, and in a phase through what there is to do, once:
\* whatever fails and whatever others do to the rows, it comes to mark, if no failure
\* of the listing or of the database ends it, and it ends.
SyncAdvances ==
    [][\A s \in Syncs : Step(s) => \/ Phase(sync'[s].pc) > Phase(sync[s].pc)
                                   \/ FetchingAdvances(s)
                                   \/ CommittingAdvances(s)]_vars
=============================================================================
