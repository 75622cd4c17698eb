------------------------- MODULE CanonicalMapProofs -------------------------
(***************************************************************************)
(* Theorems about CanonicalMap, for any workflows, contents, canonicals,    *)
(* syncs, batches and failures.                                            *)
(***************************************************************************)
EXTENDS CanonicalMap, TLAPS

-----------------------------------------------------------------------------
(* Types.                                                                  *)

\* A batch that is processed has something left, what is to be fetched was
\* listed, and only a commit has something to do.
Coherent(a) ==
    /\ a.pc = "processing" => a.batch # <<>>
    /\ \A w \in a.left : a.listed[w] # Gone
    /\ a.pc # "committing" => a.todo = {}

Sane == {a \in Activities : Coherent(a)}

Fetchable == [id : Ids, version : Versions]

\* TypeOK in parts.
RowTypes ==
    /\ row \in [Ids -> Rows \cup {NoRow}]
    /\ held \subseteq Canonicals
    /\ deleting \subseteq Ids
    /\ misread \subseteq Ids
GitTypes ==
    /\ canonicals \subseteq Canonicals
    /\ gitState \in [Canonicals -> Contents \cup {Nothing}]
    /\ file \in [Canonicals -> Contents \cup {Nothing}]
OtherTypes ==
    /\ flow \in [Ids -> Versions \cup {Unborn, Gone}]
    /\ clock \in 0..MaxEvents
SyncTypes ==
    /\ sync \in [Syncs -> Sane]
    /\ loop \in Syncs \cup {Free}

Sound == RowTypes /\ GitTypes /\ OtherTypes /\ SyncTypes

LEMMA SoundTyped == Sound => TypeOK
BY DEF Sound, RowTypes, GitTypes, OtherTypes, SyncTypes, TypeOK, Sane

LEMMA IdleSane == Idle \in Sane
BY DEF Idle, Sane, Coherent, Activities, Items

LEMMA LiveVersion ==
    ASSUME OtherTypes, NEW w \in Ids, Live(w)
    PROVE  flow[w] \in Versions
BY DEF OtherTypes, Live, Unborn, Gone

LEMMA RowTyped ==
    ASSUME RowTypes, NEW w \in Ids, row[w] # NoRow
    PROVE  row[w] \in Rows
BY DEF RowTypes

LEMMA VersionTyped ==
    ASSUME NEW x \in Contents, NEW t \in 0..MaxEvents
    PROVE  Version(x, t) \in Versions
BY DEF Version, Versions

LEMMA TickTyped ==
    ASSUME OtherTypes, Ticks
    PROVE  clock' \in 0..MaxEvents /\ clock + 1 \in 0..MaxEvents
BY BoundsAssumption DEF OtherTypes, Ticks

LEMMA SaneParts ==
    ASSUME NEW a \in Sane
    PROVE  /\ a \in Activities
           /\ Coherent(a)
           /\ a.batch \in Seq(Fetchable)
           /\ a.left \subseteq Ids
           /\ a.todo \subseteq Items
           /\ a.created \subseteq Ids
           /\ a.listed \in [Ids -> Versions \cup {Gone}]
BY DEF Sane, Activities, Fetchable

LEMMA ToTyped ==
    ASSUME SyncTypes, NEW s \in Syncs, NEW r \in Sane, To(s, r)
    PROVE  sync' \in [Syncs -> Sane]
BY DEF SyncTypes, To

LEMMA FetchedTyped ==
    ASSUME SyncTypes, NEW s \in Syncs, NEW w \in Ids, NEW v \in Versions, Fetched(s, w, v)
    PROVE  SyncTypes'
  <1> DEFINE batch == Append(sync[s].batch, [id |-> w, version |-> v])
             left == sync[s].left \ {w}
             full == Len(batch) = BatchSize \/ left = {}
             r == [sync[s] EXCEPT !.batch = batch, !.left = left,
                                  !.pc = IF full THEN "processing" ELSE @]
  <1>1. sync[s] \in Sane
    BY DEF SyncTypes
  <1>2. batch \in Seq(Fetchable) /\ batch # <<>>
    <2>1. [id |-> w, version |-> v] \in Fetchable
      BY DEF Fetchable
    <2> QED BY <1>1, <2>1, SaneParts
  <1>3. left \subseteq Ids /\ (\A u \in left : sync[s].listed[u] # Gone)
    BY <1>1, SaneParts DEF Coherent
  <1>4. r \in Activities
    <2> HIDE DEF batch, left, full
    <2> QED BY <1>1, <1>2, <1>3, SaneParts DEF Activities, Fetchable
  <1>5. Coherent(r)
    <2>1. sync[s].pc = "fetching"
      BY DEF Fetched
    <2>2. sync[s].todo = {}
      BY <1>1, <2>1, SaneParts DEF Coherent
    <2>3. r.batch = batch /\ r.left = left /\ r.listed = sync[s].listed
          /\ r.todo = sync[s].todo
      <3> HIDE DEF batch, left, full
      <3> QED BY <1>1, SaneParts DEF Activities
    <2> HIDE DEF r
    <2> QED BY <1>2, <1>3, <2>2, <2>3 DEF Coherent
  <1>6. To(s, r) /\ loop' \in Syncs \cup {Free}
    BY DEF Fetched
  <1> HIDE DEF r
  <1> QED BY <1>4, <1>5, <1>6, ToTyped DEF Sane, SyncTypes

LEMMA ResultTyped ==
    ASSUME SyncTypes, NEW s \in Syncs, NEW result \in {"clean", "failed"}
    PROVE  Result(s, result) \in {"clean", "failed"}
BY DEF Result, SyncTypes, Sane, Activities

LEMMA ProcessedTyped ==
    ASSUME SyncTypes, NEW s \in Syncs, Processing(s), NEW created \in SUBSET Ids,
           NEW result \in {"clean", "failed"}, Processed(s, created, result)
    PROVE  SyncTypes'
  <1> DEFINE batch == Tail(sync[s].batch)
             left == sync[s].left
             pc == IF batch # <<>> THEN sync[s].pc
                   ELSE IF left # {} THEN "fetching" ELSE "marking"
             r == [sync[s] EXCEPT !.batch = batch,
                                  !.created = sync[s].created \cup created,
                                  !.result = Result(s, result),
                                  !.pc = pc]
  <1>1. sync[s] \in Sane /\ sync[s].pc = "processing" /\ loop \in Syncs \cup {Free}
    BY DEF SyncTypes, Processing
  <1>2. sync[s].batch # <<>> /\ sync[s].todo = {}
    BY <1>1, SaneParts DEF Coherent
  <1>3. batch \in Seq(Fetchable)
    BY <1>1, <1>2, SaneParts
  <1>4. pc \in {"processing", "fetching", "marking"} /\ (pc = "processing" => batch # <<>>)
    BY <1>1
  <1>5. r \in Activities
    <2> HIDE DEF batch, left, pc
    <2> QED BY <1>1, <1>3, <1>4, SaneParts, ResultTyped DEF Activities, Fetchable
  <1>6. r.batch = batch /\ r.left = sync[s].left /\ r.listed = sync[s].listed
        /\ r.todo = sync[s].todo /\ r.pc = pc
    <2> HIDE DEF batch, pc
    <2> QED BY <1>1, SaneParts DEF Activities
  <1>7. Coherent(r)
    <2> HIDE DEF r, batch, pc
    <2> QED BY <1>1, <1>2, <1>4, <1>6, SaneParts DEF Coherent
  <1>8. To(s, r) /\ loop' \in Syncs \cup {Free}
    BY <1>1 DEF Processed
  <1> HIDE DEF r
  <1> QED BY <1>5, <1>7, <1>8, ToTyped DEF Sane, SyncTypes

\* The head of a batch under work.
LEMMA CurrentTyped ==
    ASSUME SyncTypes, NEW s \in Syncs, Processing(s)
    PROVE  /\ Current(s).id \in Ids
           /\ Current(s).version \in Versions
           /\ Current(s).version.content \in Contents
           /\ Current(s).version.at \in 0..MaxEvents
  <1>1. sync[s] \in Sane /\ sync[s].pc = "processing"
    BY DEF SyncTypes, Processing
  <1>2. sync[s].batch \in Seq(Fetchable) /\ sync[s].batch # <<>>
    BY <1>1, SaneParts DEF Coherent
  <1>3. Current(s) \in Fetchable
    BY <1>2 DEF Current
  <1> QED BY <1>3 DEF Fetchable, Versions

-----------------------------------------------------------------------------
(* Each kind of step keeps the types.                                      *)

LEMMA UsersTyped ==
    ASSUME Sound, UserActs
    PROVE  Sound'
  <1> USE DEF rows, git
  <1> PICK w \in Ids :
        \/ \E x \in Contents : CreateFlow(w, x)
        \/ \E x \in Contents : EditFlow(w, x)
        \/ RemoveFlow(w)
        \/ DeleteFlow(w)
        \/ MarkDeleted(w)
        \/ MarkDeletedFails(w)
        \/ ArchiveWorkflow(w)
        \/ UnarchiveWorkflow(w)
    BY DEF UserActs
  <1>1. GitTypes' /\ SyncTypes'
    <2>1. UNCHANGED <<git, sync, loop>>
      BY DEF CreateFlow, EditFlow, RemoveFlow, DeleteFlow, MarkDeleted,
             MarkDeletedFails, ArchiveWorkflow, UnarchiveWorkflow, SetStatus
    <2> QED BY <2>1 DEF Sound, GitTypes, SyncTypes
  <1>2. ASSUME NEW x \in Contents, CreateFlow(w, x) \/ EditFlow(w, x)
        PROVE  RowTypes' /\ OtherTypes'
    <2>1. Ticks /\ UNCHANGED rows /\ flow' = [flow EXCEPT ![w] = Version(x, clock + 1)]
      BY <1>2 DEF CreateFlow, EditFlow
    <2>2. Version(x, clock + 1) \in Versions /\ clock' \in 0..MaxEvents
      BY <2>1, TickTyped, VersionTyped DEF Sound
    <2> QED BY <2>1, <2>2 DEF Sound, RowTypes, OtherTypes
  <1>3. ASSUME RemoveFlow(w) \/ DeleteFlow(w)
        PROVE  RowTypes' /\ OtherTypes'
    <2>1. Ticks /\ flow' = [flow EXCEPT ![w] = Gone]
          /\ deleting' \subseteq deleting \cup {w} /\ UNCHANGED <<row, held, misread>>
      BY <1>3 DEF RemoveFlow, DeleteFlow
    <2>2. clock' \in 0..MaxEvents
      BY <2>1, TickTyped DEF Sound
    <2> QED BY <2>1, <2>2 DEF Sound, RowTypes, OtherTypes
  <1>4. ASSUME MarkDeleted(w) \/ MarkDeletedFails(w)
        PROVE  RowTypes' /\ OtherTypes'
    <2>1. UNCHANGED flow /\ clock' \in 0..MaxEvents
      BY <1>4, TickTyped DEF MarkDeleted, MarkDeletedFails, Fails, Sound, OtherTypes
    <2>2. UNCHANGED misread /\ deleting' = deleting \ {w}
          /\ held' \subseteq held \cup Canonicals
          /\ row' \in [Ids -> Rows \cup {NoRow}]
      BY <1>4 DEF MarkDeleted, MarkDeletedFails, Sound, RowTypes
    <2> QED BY <2>1, <2>2 DEF Sound, RowTypes, OtherTypes
  <1>5. ASSUME NEW status \in {"linked", "ignored"}, SetStatus(w, status)
        PROVE  RowTypes' /\ OtherTypes'
    <2>1. Ticks /\ row[w] # NoRow /\ UNCHANGED <<flow, held, deleting, misread>>
          /\ row' = [row EXCEPT ![w].status = status]
      BY <1>5 DEF SetStatus
    <2>2. clock' \in 0..MaxEvents
      BY <2>1, TickTyped DEF Sound
    <2>3. [row[w] EXCEPT !.status = status] \in Rows
      BY <2>1, RowTyped DEF Sound, Rows
    <2> QED BY <2>1, <2>2, <2>3 DEF Sound, RowTypes, OtherTypes
  <1> QED
    BY <1>1, <1>2, <1>3, <1>4, <1>5 DEF ArchiveWorkflow, UnarchiveWorkflow, Sound

LEMMA BeginTyped ==
    ASSUME Sound, NEW s \in Syncs, Begin(s)
    PROVE  Sound'
  <1> DEFINE r == [Idle EXCEPT !.pc = "listing"]
  <1>1. To(s, r) /\ UNCHANGED <<flow, rows, git, loop, clock>>
    BY DEF Begin
  <1>2. r \in Sane
    <2>1. Idle \in Activities /\ Idle.left = {} /\ Idle.todo = {}
      BY IdleSane DEF Sane, Idle
    <2>2. r \in Activities /\ r.left = {} /\ r.todo = {} /\ r.pc = "listing"
      BY <2>1 DEF Activities
    <2> QED BY <2>2 DEF Sane, Coherent
  <1> HIDE DEF r
  <1>3. SyncTypes'
    BY <1>1, <1>2, ToTyped DEF SyncTypes, Sound
  <1> QED BY <1>1, <1>3 DEF Sound, RowTypes, GitTypes, OtherTypes, rows, git

LEMMA ListTyped ==
    ASSUME Sound, NEW s \in Syncs, List(s) \/ ListFails(s)
    PROVE  Sound'
  <1>1. CASE List(s)
    <2> DEFINE present == {w \in Ids : Live(w)}
               listed == [w \in Ids |-> IF Live(w) THEN flow[w] ELSE Gone]
               pc == IF present = {} THEN "marking" ELSE "fetching"
               r == [sync[s] EXCEPT !.listed = listed, !.left = present, !.pc = pc]
    <2>1. To(s, r) /\ UNCHANGED <<flow, rows, git, clock>> /\ loop' \in {s, Free}
      BY <1>1 DEF List
    <2>2. listed \in [Ids -> Versions \cup {Gone}]
      BY LiveVersion DEF Sound
    <2>3. \A w \in present : listed[w] # Gone
      BY DEF Live, Gone
    <2>4. sync[s] \in Sane /\ sync[s].todo = {}
      BY <1>1, SaneParts DEF Sound, SyncTypes, List, Coherent
    <2>5. present \subseteq Ids /\ pc \in {"marking", "fetching"}
      OBVIOUS
    <2> HIDE DEF present, listed, pc
    <2>6. r \in Activities /\ r.listed = listed /\ r.left = present /\ r.pc = pc
          /\ r.todo = sync[s].todo
      BY <2>2, <2>4, <2>5, SaneParts DEF Activities
    <2> HIDE DEF r
    <2>7. r \in Sane
      BY <2>3, <2>4, <2>5, <2>6 DEF Sane, Coherent
    <2>8. SyncTypes'
      BY <2>1, <2>7, ToTyped DEF SyncTypes, Sound
    <2> QED BY <2>1, <2>8 DEF Sound, RowTypes, GitTypes, OtherTypes, rows, git
  <1>2. CASE ListFails(s)
    <2>1. To(s, Idle) /\ Ticks /\ UNCHANGED <<flow, rows, git, loop>>
      BY <1>2 DEF ListFails, Fails
    <2>2. SyncTypes' /\ clock' \in 0..MaxEvents
      BY <2>1, ToTyped, IdleSane, TickTyped DEF SyncTypes, Sound
    <2> QED BY <2>1, <2>2 DEF Sound, RowTypes, GitTypes, OtherTypes, rows, git
  <1> QED BY <1>1, <1>2

LEMMA FetchTyped ==
    ASSUME Sound, NEW s \in Syncs, NEW w \in Ids, Fetch(s, w) \/ FetchFails(s, w)
    PROVE  Sound'
  <1>1. clock' \in 0..MaxEvents /\ UNCHANGED <<flow, rows, git>>
    BY TickTyped DEF Fetch, FetchFails, Fails, Sound, OtherTypes
  <1>2. PICK v \in {flow[w], sync[s].listed[w]} :
          Fetched(s, w, v) /\ (v = flow[w] => Live(w) \/ v = sync[s].listed[w])
    BY DEF Fetch, FetchFails
  <1>3. v \in Versions
    <2>1. w \in sync[s].left /\ sync[s] \in Sane
      BY <1>2 DEF Fetched, Sound, SyncTypes
    <2>2. sync[s].listed[w] \in Versions
      BY <2>1, SaneParts DEF Coherent
    <2> QED BY <1>2, <2>2, LiveVersion DEF Sound
  <1>4. SyncTypes'
    BY <1>2, <1>3, FetchedTyped DEF Sound
  <1> QED BY <1>1, <1>4 DEF Sound, RowTypes, GitTypes, OtherTypes, rows, git

\* NotFound touches the clock and misread only.
LEMMA NotFoundTyped ==
    ASSUME Sound, NEW w \in Ids, NotFound(w)
    PROVE  clock' \in 0..MaxEvents /\ misread' \subseteq Ids
BY TickTyped DEF NotFound, Fails, Sound, RowTypes, OtherTypes

LEMMA ProcessTyped ==
    ASSUME Sound, NEW s \in Syncs, Process(s)
    PROVE  Sound'
  <1> DEFINE w == Current(s).id
             version == Current(s).version
  <1>1. Processing(s) /\ SyncTypes
    BY DEF Process, Skip, Update, InsertLinked, InsertRefused, InsertUnmapped, ProcessFails, Sound
  <1>2. /\ w \in Ids
        /\ version.content \in Contents
        /\ version.at \in 0..MaxEvents
    BY <1>1, CurrentTyped
  <1>3. \E created \in SUBSET Ids, result \in {"clean", "failed"} : Processed(s, created, result)
    <2>1. Created(s, w) \in SUBSET Ids
      BY <1>2 DEF Created
    <2> QED BY <2>1 DEF Process, Skip, Update, InsertLinked, InsertRefused, InsertUnmapped, ProcessFails
  <1>4. SyncTypes'
    BY <1>1, <1>3, ProcessedTyped
  <1>5. UNCHANGED <<flow, git, held, deleting>>
    BY DEF Process, Skip, Update, InsertLinked, InsertRefused, InsertUnmapped, ProcessFails, rows
  <1>6. clock' \in 0..MaxEvents /\ misread' \subseteq Ids
    <2>1. CASE NotFound(w)
      BY <1>2, <2>1, NotFoundTyped
    <2>2. CASE UNCHANGED misread /\ (UNCHANGED clock \/ Ticks)
      BY <2>2, TickTyped DEF Sound, RowTypes, OtherTypes
    <2> QED
      BY <2>1, <2>2 DEF Process, Skip, Update, InsertLinked, InsertRefused, InsertUnmapped,
                        ProcessFails, rows, Fails
  <1>7. row' \in [Ids -> Rows \cup {NoRow}]
    <2>1. CASE UNCHANGED row
      BY <2>1 DEF Sound, RowTypes
    <2>2. ASSUME NEW status \in {"linked", "unmapped", "missing", "ignored"},
                 NEW canon \in Canonicals \cup {NoCanonical},
                 row' = [row EXCEPT ![w] = [status |-> status, canon |-> canon,
                                            content |-> version.content, at |-> version.at]]
          PROVE  row' \in [Ids -> Rows \cup {NoRow}]
      <3>1. [status |-> status, canon |-> canon, content |-> version.content,
             at |-> version.at] \in Rows
        BY <1>2 DEF Rows
      <3> HIDE DEF w, version
      <3> QED BY <2>2, <3>1 DEF Sound, RowTypes
    <2>3. row[w] # NoRow => /\ row[w].canon \in Canonicals \cup {NoCanonical}
                            /\ Reappeared(row[w]) \in {"linked", "unmapped", "missing", "ignored"}
      BY <1>2, RowTyped DEF Sound, Rows, Reappeared
    <2>4. CASE Update(s)
      BY <2>2, <2>3, <2>4 DEF Update
    <2>5. CASE \E c \in Canonicals : InsertLinked(s, c)
      BY <2>2, <2>5 DEF InsertLinked
    <2>6. CASE InsertUnmapped(s)
      BY <2>2, <2>3, <2>6 DEF InsertUnmapped
    <2> QED
      BY <2>1, <2>4, <2>5, <2>6 DEF Process, Skip, InsertRefused, ProcessFails, rows
  <1> QED BY <1>4, <1>5, <1>6, <1>7 DEF Sound, RowTypes, GitTypes, OtherTypes, git

LEMMA MarkTyped ==
    ASSUME Sound, NEW s \in Syncs, Mark(s) \/ MarkFails(s)
    PROVE  Sound'
  <1>1. PICK some \in SUBSET Vanished(s), result \in {"clean", "failed"} :
          MarkMissing(s, some, result)
    BY DEF Mark, MarkFails
  <1>2. clock' \in 0..MaxEvents
    BY TickTyped DEF Mark, MarkFails, Fails, Sound, OtherTypes
  <1>3. RowTypes'
    <2>1. \A w \in some : [row[w] EXCEPT !.status = "missing"] \in Rows
      BY RowTyped DEF Vanished, Sound, Rows
    <2> QED BY <1>1, <2>1 DEF MarkMissing, Sound, RowTypes
  <1>4. SyncTypes'
    <2> DEFINE r == [sync[s] EXCEPT !.result = Result(s, result), !.pc = "planning"]
    <2>1. sync[s] \in Sane /\ sync[s].pc = "marking"
      BY <1>1 DEF MarkMissing, Sound, SyncTypes
    <2>2. Result(s, result) \in {"clean", "failed"}
      BY ResultTyped DEF Sound
    <2>3. r \in Activities /\ r.pc = "planning" /\ r.todo = sync[s].todo
          /\ r.left = sync[s].left /\ r.listed = sync[s].listed
      BY <2>1, <2>2, SaneParts DEF Activities
    <2>4. (To(s, r) \/ To(s, Idle)) /\ loop' \in {loop, Free}
      BY <1>1 DEF MarkMissing
    <2> HIDE DEF r
    <2>5. r \in Sane
      BY <2>1, <2>3, SaneParts DEF Sane, Coherent
    <2> QED BY <2>4, <2>5, IdleSane, ToTyped DEF Sound, SyncTypes
  <1> QED
    BY <1>1, <1>2, <1>3, <1>4 DEF MarkMissing, Sound, GitTypes, OtherTypes, git

LEMMA AbortTyped ==
    ASSUME Sound, NEW s \in Syncs, Abort(s) \/ Finish(s)
    PROVE  Sound'
  <1>1. To(s, Idle) /\ loop' = Free /\ UNCHANGED <<flow, rows, git>>
    BY DEF Abort, Finish
  <1>2. clock' \in 0..MaxEvents
    BY TickTyped DEF Abort, Finish, Fails, Sound, OtherTypes
  <1>3. SyncTypes'
    BY <1>1, IdleSane, ToTyped DEF Sound, SyncTypes
  <1> QED BY <1>1, <1>2, <1>3 DEF Sound, RowTypes, GitTypes, OtherTypes, rows, git

\* What a sync is left to commit can be replaced.
LEMMA TodoTyped ==
    ASSUME SyncTypes, NEW s \in Syncs, loop = s, NEW todo \in SUBSET Items,
           NEW result \in {"clean", "failed"},
           sync' = [sync EXCEPT ![s] = [sync[s] EXCEPT !.todo = todo, !.result = result,
                                                       !.pc = "committing"]],
           loop' = loop
    PROVE  SyncTypes'
  <1> DEFINE r == [sync[s] EXCEPT !.todo = todo, !.result = result, !.pc = "committing"]
  <1>1. sync[s] \in Sane
    BY DEF SyncTypes
  <1>2. r \in Activities /\ r.pc = "committing" /\ r.left = sync[s].left
        /\ r.listed = sync[s].listed
    BY <1>1, SaneParts DEF Activities
  <1>3. To(s, r)
    BY DEF To
  <1> HIDE DEF r
  <1>4. r \in Sane
    BY <1>1, <1>2, SaneParts DEF Sane, Coherent
  <1> QED BY <1>3, <1>4, ToTyped DEF SyncTypes

LEMMA ItemTyped ==
    ASSUME RowTypes, NEW w \in Ids, row[w] # NoRow
    PROVE  Item(w) \in Items
BY RowTyped DEF Item, Items, Rows

LEMMA PlanTyped ==
    ASSUME Sound, NEW s \in Syncs, Plan(s)
    PROVE  Sound'
  <1> DEFINE ids == IF Bootstrap THEN ToBootstrap(s) ELSE ToCommit(s) \cup ToCanonicalise(s)
             todo == {Item(w) : w \in ids}
  <1>1. sync[s] \in Sane /\ sync[s].result \in {"clean", "failed"}
    BY DEF Sound, SyncTypes, Sane, Activities
  <1>2. \A w \in ids : w \in Ids /\ row[w] # NoRow
    BY <1>1, SaneParts DEF ToBootstrap, ToCommit, ToCanonicalise, Observed
  <1>3. todo \in SUBSET Items
    <2> HIDE DEF ids
    <2> QED BY <1>2, ItemTyped DEF Sound
  <1>4. SyncTypes'
    <2>1. To(s, [sync[s] EXCEPT !.todo = todo, !.pc = "committing"]) /\ loop = s /\ loop' = loop
      BY DEF Plan
    <2> HIDE DEF todo
    <2>2. [sync[s] EXCEPT !.todo = todo, !.pc = "committing"]
            = [sync[s] EXCEPT !.todo = todo, !.result = sync[s].result, !.pc = "committing"]
      BY <1>1 DEF Sane, Activities
    <2>3. sync' = [sync EXCEPT ![s] =
            [sync[s] EXCEPT !.todo = todo, !.result = sync[s].result, !.pc = "committing"]]
      BY <2>1, <2>2 DEF To
    <2> QED BY <1>1, <1>3, <2>1, <2>3, TodoTyped DEF Sound
  <1> QED BY <1>4 DEF Plan, Sound, RowTypes, GitTypes, OtherTypes, rows, git

\* The same of a sync that commits.
LEMMA LeftTyped ==
    ASSUME SyncTypes, NEW s \in Syncs, NEW i, Committing(s, i), NEW todo \in SUBSET Items,
           loop' = loop,
           \/ To(s, [sync[s] EXCEPT !.todo = todo])
           \/ To(s, [sync[s] EXCEPT !.todo = todo, !.result = "failed"])
    PROVE  SyncTypes'
  <1>1. sync[s] \in Activities /\ sync[s].pc = "committing" /\ loop = s
    BY DEF Committing, SyncTypes, Sane
  <1>2. [sync[s] EXCEPT !.todo = todo]
          = [sync[s] EXCEPT !.todo = todo, !.result = sync[s].result, !.pc = "committing"]
    BY <1>1 DEF Activities
  <1>3. [sync[s] EXCEPT !.todo = todo, !.result = "failed"]
          = [sync[s] EXCEPT !.todo = todo, !.result = "failed", !.pc = "committing"]
    BY <1>1 DEF Activities
  <1>4. PICK result \in {"clean", "failed"} :
          To(s, [sync[s] EXCEPT !.todo = todo, !.result = result, !.pc = "committing"])
    BY <1>1, <1>2, <1>3 DEF Activities
  <1> QED BY <1>1, <1>4, TodoTyped DEF To

LEMMA TodoOf ==
    ASSUME SyncTypes, NEW s \in Syncs, NEW i, Committing(s, i)
    PROVE  i \in Items /\ sync[s].todo \subseteq Items
BY SaneParts DEF SyncTypes, Committing

LEMMA CommitTyped ==
    ASSUME Sound, NEW s \in Syncs, NEW i, Commit(s, i) \/ CommitFails(s, i)
    PROVE  Sound'
  <1>1. Committing(s, i) /\ i \in Items /\ sync[s].todo \subseteq Items
    BY TodoOf DEF Commit, CommitFails, Sound
  <1>2. SyncTypes'
    <2> DEFINE todo == sync[s].todo \ {i}
    <2>1. loop' = loop /\ (\/ To(s, [sync[s] EXCEPT !.todo = todo])
                           \/ To(s, [sync[s] EXCEPT !.todo = todo, !.result = "failed"]))
      BY DEF Commit, CommitFails, Dropped, Failed
    <2>2. todo \in SUBSET Items
      BY <1>1
    <2> HIDE DEF todo
    <2> QED BY <1>1, <2>1, <2>2, LeftTyped DEF Sound
  <1>3. clock' \in 0..MaxEvents
    BY TickTyped DEF Commit, CommitFails, Fails, Sound, OtherTypes
  <1>4. GitTypes'
    BY <1>1 DEF Commit, CommitFails, Items, Sound, GitTypes
  <1> QED BY <1>2, <1>3, <1>4 DEF Commit, CommitFails, Sound, RowTypes, OtherTypes, rows

LEMMA CanonicaliseTyped ==
    ASSUME Sound, NEW s \in Syncs, NEW i, row[i.id] # NoRow,
           CanonicaliseFails(s, i) \/ \E c \in Canonicals : Canonicalise(s, i, c)
    PROVE  Sound'
  <1>1. Committing(s, i) /\ i \in Items /\ sync[s].todo \subseteq Items
    BY TodoOf DEF Canonicalise, CanonicaliseFails, Sound
  <1>2. CASE CanonicaliseFails(s, i)
    <2> DEFINE todo == sync[s].todo \ {i}
    <2>1. loop' = loop /\ To(s, [sync[s] EXCEPT !.todo = todo, !.result = "failed"])
      BY <1>2 DEF CanonicaliseFails, Failed
    <2>2. todo \in SUBSET Items
      BY <1>1
    <2> HIDE DEF todo
    <2>3. SyncTypes'
      BY <1>1, <2>1, <2>2, LeftTyped DEF Sound
    <2>4. clock' \in 0..MaxEvents
      BY <1>2, TickTyped DEF CanonicaliseFails, Fails, Sound, OtherTypes
    <2>5. GitTypes'
      BY <1>2 DEF CanonicaliseFails, Fresh, Sound, GitTypes
    <2> QED BY <1>2, <2>3, <2>4, <2>5 DEF CanonicaliseFails, Sound, RowTypes, OtherTypes, rows
  <1>3. ASSUME NEW c \in Canonicals, Canonicalise(s, i, c)
        PROVE  Sound'
    <2> DEFINE todo == (sync[s].todo \ {i}) \cup {[i EXCEPT !.canon = c]}
    <2>1. loop' = loop /\ To(s, [sync[s] EXCEPT !.todo = todo])
      BY <1>3 DEF Canonicalise
    <2>2. todo \in SUBSET Items
      BY <1>1 DEF Items
    <2> HIDE DEF todo
    <2>3. SyncTypes'
      BY <1>1, <2>1, <2>2, LeftTyped DEF Sound
    <2>4. row' \in [Ids -> Rows \cup {NoRow}]
      <3>1. i.id \in Ids
        BY <1>1 DEF Items
      <3>2. row[i.id] \in Rows
        BY <3>1, RowTyped DEF Sound
      <3>3. [row[i.id] EXCEPT !.canon = c] \in Rows
        BY <3>2 DEF Rows
      <3>4. [[row[i.id] EXCEPT !.canon = c] EXCEPT !.status = "linked"] \in Rows
        BY <3>3 DEF Rows
      <3>5. row' = [row EXCEPT ![i.id].canon = c, ![i.id].status = "linked"]
        BY <1>3 DEF Canonicalise, Link
      <3> QED BY <3>1, <3>4, <3>5 DEF Sound, RowTypes
    <2> QED BY <1>3, <2>3, <2>4 DEF Canonicalise, Sound, RowTypes, GitTypes, OtherTypes
  <1> QED BY <1>2, <1>3

LEMMA OutsideTyped ==
    ASSUME Sound,
           \/ \E c \in Canonicals : RepoSync(c)
           \/ \E c \in Canonicals, x \in Contents : Push(c, x)
           \/ Crash
    PROVE  Sound'
  <1>1. CASE \E c \in Canonicals : RepoSync(c)
    <2> PICK c \in Canonicals : RepoSync(c)
      BY <1>1
    <2>1. GitTypes'
      BY DEF RepoSync, Sound, GitTypes
    <2> QED BY <2>1 DEF RepoSync, Sound, RowTypes, OtherTypes, SyncTypes, rows
  <1>2. CASE \E c \in Canonicals, x \in Contents : Push(c, x)
    <2> PICK c \in Canonicals, x \in Contents : Push(c, x)
      BY <1>2
    <2>1. GitTypes' /\ clock' \in 0..MaxEvents
      BY TickTyped DEF Push, Sound, GitTypes
    <2> QED BY <2>1 DEF Push, Sound, RowTypes, OtherTypes, SyncTypes, rows
  <1>3. CASE Crash
    <2>1. clock' \in 0..MaxEvents
      BY <1>3, TickTyped DEF Crash, Fails, Sound
    <2>2. SyncTypes'
      BY <1>3, IdleSane DEF Crash, SyncTypes
    <2> QED BY <1>3, <2>1, <2>2 DEF Crash, Sound, RowTypes, GitTypes, OtherTypes, git
  <1> QED BY <1>1, <1>2, <1>3

-----------------------------------------------------------------------------
(* What the event loop keeps apart.                                        *)

Holding == {"processing", "marking", "planning", "committing"}

\* Whoever processes, marks or commits has the event loop.
Exclusive == \A s \in Syncs : sync[s].pc \in Holding => loop = s

\* What is linked is a known canonical, and Git's state is of known ones.
Known ==
    /\ \A w \in Ids, c \in Canonicals : Holds(w, c) => c \in canonicals
    /\ \A c \in Canonicals : gitState[c] # Nothing => c \in canonicals

\* The unique index on canonical_id.
Unique == \A v, w \in Ids, c \in Canonicals : Holds(v, c) /\ Holds(w, c) => v = w

Agrees(i) ==
    /\ row[i.id] # NoRow
    /\ row[i.id].canon = i.canon
    /\ row[i.id].content = i.content

Linked(w) == row[w] # NoRow /\ row[w].status = "linked"

InGit(w) == row[w].canon # NoCanonical => gitState[row[w].canon] = row[w].content

\* What a backup is left to do agrees with the rows, and suffices.
Faithful(s) == \A i \in sync[s].todo : Agrees(i)
Marked(s) ==
    sync[s].pc = "planning" /\ sync[s].result = "clean"
        => \A w \in Ids : Linked(w) => sync[s].listed[w] # Gone
Covered(s) ==
    sync[s].pc = "committing" /\ sync[s].result = "clean"
        => \A w \in Ids : Linked(w) => InGit(w) \/ \E i \in sync[s].todo : i.id = w
Work(s) == Faithful(s) /\ Marked(s) /\ Covered(s)

Mapped == Known /\ Unique

CoreInv == Sound /\ Exclusive /\ Mapped /\ \A s \in Syncs : Work(s)

LEMMA InitCore == Init => CoreInv
  <1> SUFFICES ASSUME Init PROVE CoreInv
    OBVIOUS
  <1>1. RowTypes
    BY DEF Init, RowTypes
  <1>2. GitTypes
    BY DEF Init, GitTypes
  <1>3. OtherTypes
    <2>1. \A w \in Ids : Initially[w] # Nothing => Version(Initially[w], 0) \in Versions
      BY ValuesAssumption, BoundsAssumption, VersionTyped
    <2> QED BY <2>1, BoundsAssumption DEF Init, OtherTypes
  <1>4. SyncTypes
    BY IdleSane DEF Init, SyncTypes
  <1>5. \A s \in Syncs : sync[s].pc = "idle" /\ sync[s].todo = {}
    BY DEF Init, Idle
  <1>6. Exclusive /\ \A s \in Syncs : Work(s)
    BY <1>5 DEF Exclusive, Holding, Work, Faithful, Marked, Covered
  <1>7. Mapped
    BY DEF Init, Mapped, Known, Unique, Holds
  <1> QED BY <1>1, <1>2, <1>3, <1>4, <1>6, <1>7 DEF CoreInv, Sound

\* While nobody else can be at work, only the work of s is to be shown.
LEMMA OthersRest ==
    ASSUME CoreInv, Sound', NEW s \in Syncs, loop \in {Free, s},
           \A v \in Syncs \ {s} : sync'[v] = sync[v],
           sync'[s].pc \in Holding => loop' = s,
           Work(s)'
    PROVE  Exclusive' /\ \A v \in Syncs : Work(v)'
  <1>1. ASSUME NEW v \in Syncs \ {s}
        PROVE  sync'[v].pc \notin Holding /\ sync'[v].todo = {}
    <2>1. sync[v].pc \notin Holding
      BY ValuesAssumption DEF CoreInv, Exclusive
    <2>2. sync[v].todo = {}
      BY <2>1, SaneParts DEF CoreInv, Sound, SyncTypes, Coherent, Holding
    <2> QED BY <2>1, <2>2
  <1>2. Exclusive'
    BY <1>1 DEF Exclusive
  <1>3. \A v \in Syncs \ {s} : Work(v)'
    BY <1>1 DEF Work, Faithful, Marked, Covered, Holding
  <1> QED BY <1>2, <1>3

LEMMA ToFrame ==
    ASSUME SyncTypes, NEW s \in Syncs, NEW r, To(s, r)
    PROVE  sync'[s] = r /\ \A v \in Syncs \ {s} : sync'[v] = sync[v]
BY DEF To, SyncTypes

\* No row has come to hold a canonical.
LEMMA MappedKept ==
    ASSUME Mapped, gitState' = gitState, canonicals \subseteq canonicals',
           \A w \in Ids, c \in Canonicals : Holds(w, c)' => Holds(w, c)
    PROVE  Mapped'
BY DEF Mapped, Known, Unique

LEMMA MappedSame ==
    ASSUME Mapped, gitState' = gitState, canonicals' = canonicals, row' = row
    PROVE  Mapped'
BY DEF Mapped, Known, Unique, Holds

\* While the event loop is free, no sync depends on the rows.
LEMMA NobodyWorks ==
    ASSUME CoreInv, loop = Free, UNCHANGED <<sync, loop>>
    PROVE  Exclusive' /\ \A s \in Syncs : Work(s)'
  <1>1. ASSUME NEW v \in Syncs
        PROVE  sync[v].pc \notin Holding /\ sync[v].todo = {}
    <2>1. sync[v].pc \notin Holding
      BY ValuesAssumption DEF CoreInv, Exclusive
    <2>2. sync[v].todo = {}
      BY <2>1, SaneParts DEF CoreInv, Sound, SyncTypes, Coherent, Holding
    <2> QED BY <2>1, <2>2
  <1> QED BY <1>1 DEF Exclusive, Work, Faithful, Marked, Covered, Holding

LEMMA WorkSame ==
    ASSUME CoreInv, UNCHANGED <<row, gitState, sync, loop>>
    PROVE  Exclusive' /\ \A s \in Syncs : Work(s)'
BY DEF CoreInv, Exclusive, Work, Faithful, Marked, Covered, Agrees, Linked, InGit

LEMMA UsersCore ==
    ASSUME CoreInv, UserActs
    PROVE  CoreInv'
  <1>1. Sound'
    BY UsersTyped DEF CoreInv
  <1> PICK w \in Ids :
        \/ \E x \in Contents : CreateFlow(w, x)
        \/ \E x \in Contents : EditFlow(w, x)
        \/ RemoveFlow(w)
        \/ DeleteFlow(w)
        \/ MarkDeleted(w)
        \/ MarkDeletedFails(w)
        \/ ArchiveWorkflow(w)
        \/ UnarchiveWorkflow(w)
    BY DEF UserActs
  <1>2. Exclusive' /\ \A s \in Syncs : Work(s)'
    <2>1. CASE UNCHANGED <<row, gitState, sync, loop>>
      BY <2>1, WorkSame
    <2>2. CASE loop = Free /\ UNCHANGED <<sync, loop>>
      BY <2>2, NobodyWorks
    <2> QED
      BY <2>1, <2>2 DEF CreateFlow, EditFlow, RemoveFlow, DeleteFlow, MarkDeleted,
             MarkDeletedFails, ArchiveWorkflow, UnarchiveWorkflow, SetStatus, rows, git
  <1>3. Mapped'
    <2>1. UNCHANGED <<gitState, canonicals>>
      BY DEF CreateFlow, EditFlow, RemoveFlow, DeleteFlow, MarkDeleted,
             MarkDeletedFails, ArchiveWorkflow, UnarchiveWorkflow, SetStatus, git
    <2>2. CASE row' = row
      BY <2>1, <2>2, MappedSame DEF CoreInv
    <2>3. CASE row' = [row EXCEPT ![w] = NoRow]
      <3>1. \A v \in Ids, c \in Canonicals : Holds(v, c)' => Holds(v, c)
        BY <2>3 DEF Holds, CoreInv, Sound, RowTypes
      <3> QED BY <2>1, <3>1, MappedKept DEF CoreInv
    <2>4. ASSUME NEW status \in {"linked", "ignored"}, SetStatus(w, status)
          PROVE  Mapped'
      <3>1. row[w] \in Rows /\ row' = [row EXCEPT ![w] = [row[w] EXCEPT !.status = status]]
        BY <2>4, RowTyped DEF SetStatus, CoreInv, Sound
      <3>2. row[w] # NoRow /\ [row[w] EXCEPT !.status = status].canon = row[w].canon
        BY <2>4, <3>1 DEF Rows, SetStatus
      <3>3. \A v \in Ids, c \in Canonicals : Holds(v, c)' => Holds(v, c)
        BY <3>1, <3>2 DEF Holds, CoreInv, Sound, RowTypes
      <3> QED BY <2>1, <3>3, MappedKept DEF CoreInv
    <2> QED
      BY <2>2, <2>3, <2>4 DEF CreateFlow, EditFlow, RemoveFlow, DeleteFlow, MarkDeleted,
             MarkDeletedFails, ArchiveWorkflow, UnarchiveWorkflow, rows
  <1> QED BY <1>1, <1>2, <1>3 DEF CoreInv

\* A step of a sync that has nothing to commit before it or after it.
LEMMA FreshWork ==
    ASSUME CoreInv, Sound', NEW s \in Syncs, loop \in {Free, s},
           \A v \in Syncs \ {s} : sync'[v] = sync[v],
           sync'[s].pc \notin {"planning", "committing"},
           sync'[s].pc \in Holding => loop' = s
    PROVE  Exclusive' /\ \A v \in Syncs : Work(v)'
  <1>1. sync'[s].todo = {}
    BY SaneParts DEF Sound, SyncTypes, Coherent
  <1>2. Work(s)'
    BY <1>1 DEF Work, Faithful, Marked, Covered
  <1> QED BY <1>2, OthersRest

LEMMA BeginCore ==
    ASSUME CoreInv, NEW s \in Syncs, Begin(s)
    PROVE  CoreInv'
  <1>1. Sound' /\ Mapped'
    BY BeginTyped, MappedSame DEF CoreInv, Begin, rows, git
  <1>2. To(s, [Idle EXCEPT !.pc = "listing"]) /\ loop = Free
    BY DEF Begin
  <1>3. sync'[s].pc = "listing" /\ \A v \in Syncs \ {s} : sync'[v] = sync[v]
    <2>1. Idle \in Activities
      BY IdleSane DEF Sane
    <2>2. [Idle EXCEPT !.pc = "listing"].pc = "listing"
      BY <2>1 DEF Activities
    <2> QED BY <1>2, <2>2, ToFrame DEF CoreInv, Sound
  <1> QED BY <1>1, <1>2, <1>3, FreshWork DEF CoreInv, Holding

LEMMA ListCore ==
    ASSUME CoreInv, NEW s \in Syncs, List(s) \/ ListFails(s)
    PROVE  CoreInv'
  <1>1. Sound' /\ Mapped'
    BY ListTyped, MappedSame DEF CoreInv, List, ListFails, rows, git
  <1>2. CASE ListFails(s)
    <2>1. To(s, Idle) /\ loop = Free
      BY <1>2 DEF ListFails
    <2>2. sync'[s].pc = "idle" /\ \A v \in Syncs \ {s} : sync'[v] = sync[v]
      BY <2>1, ToFrame DEF Idle, CoreInv, Sound
    <2> QED BY <1>1, <2>1, <2>2, FreshWork DEF CoreInv, Holding
  <1>3. CASE List(s)
    <2> DEFINE present == {w \in Ids : Live(w)}
               listed == [w \in Ids |-> IF Live(w) THEN flow[w] ELSE Gone]
               pc == IF present = {} THEN "marking" ELSE "fetching"
               r == [sync[s] EXCEPT !.listed = listed, !.left = present, !.pc = pc]
    <2>1. To(s, r) /\ loop = Free /\ loop' = IF present = {} THEN s ELSE Free
      BY <1>3 DEF List
    <2>2. r.pc = pc
      <3>1. sync[s] \in Activities
        BY DEF CoreInv, Sound, SyncTypes, Sane
      <3> HIDE DEF listed, present, pc
      <3> QED BY <3>1 DEF Activities
    <2> HIDE DEF r, present
    <2>3. sync'[s].pc = pc /\ \A v \in Syncs \ {s} : sync'[v] = sync[v]
      BY <2>1, <2>2, ToFrame DEF CoreInv, Sound
    <2> QED BY <1>1, <2>1, <2>3, FreshWork DEF CoreInv, Holding
  <1> QED BY <1>2, <1>3

LEMMA FetchCore ==
    ASSUME CoreInv, NEW s \in Syncs, NEW w \in Ids, Fetch(s, w) \/ FetchFails(s, w)
    PROVE  CoreInv'
  <1>1. Sound' /\ Mapped'
    BY FetchTyped, MappedSame DEF CoreInv, Fetch, FetchFails, rows, git
  <1>2. PICK v : Fetched(s, w, v)
    BY DEF Fetch, FetchFails
  <1> DEFINE batch == Append(sync[s].batch, [id |-> w, version |-> v])
             left == sync[s].left \ {w}
             pc == IF Len(batch) = BatchSize \/ left = {} THEN "processing" ELSE sync[s].pc
             r == [sync[s] EXCEPT !.batch = batch, !.left = left, !.pc = pc]
  <1>3. To(s, r) /\ loop = Free /\ sync[s].pc = "fetching"
        /\ loop' = IF Len(batch) = BatchSize \/ left = {} THEN s ELSE Free
    BY <1>2 DEF Fetched
  <1>4. pc \in {"processing", "fetching"} /\ (pc = "processing" => loop' = s)
    BY <1>3
  <1>5. r.pc = pc
    <2>1. sync[s] \in Activities
      BY DEF CoreInv, Sound, SyncTypes, Sane
    <2> HIDE DEF batch, left, pc
    <2> QED BY <2>1 DEF Activities
  <1> HIDE DEF r
  <1>6. sync'[s].pc = pc /\ \A u \in Syncs \ {s} : sync'[u] = sync[u]
    BY <1>3, <1>5, ToFrame DEF CoreInv, Sound
  <1> HIDE DEF pc
  <1> QED BY <1>1, <1>3, <1>4, <1>6, FreshWork DEF CoreInv, Holding

LEMMA AbortCore ==
    ASSUME CoreInv, NEW s \in Syncs, Abort(s) \/ Finish(s)
    PROVE  CoreInv'
  <1>1. Sound' /\ Mapped'
    BY AbortTyped, MappedSame DEF CoreInv, Abort, Finish, rows, git
  <1>2. To(s, Idle) /\ loop = s
    BY DEF Abort, Finish
  <1>3. sync'[s].pc = "idle" /\ \A v \in Syncs \ {s} : sync'[v] = sync[v]
    BY <1>2, ToFrame DEF Idle, CoreInv, Sound
  <1> QED BY <1>1, <1>2, <1>3, FreshWork DEF CoreInv, Holding

\* After a workflow has been processed nothing is to be committed yet.
LEMMA ProcessedCore ==
    ASSUME CoreInv, Sound', NEW s \in Syncs, Processing(s), NEW created \in SUBSET Ids,
           NEW result \in {"clean", "failed"}, Processed(s, created, result)
    PROVE  Exclusive' /\ \A v \in Syncs : Work(v)'
  <1> DEFINE batch == Tail(sync[s].batch)
             pc == IF batch # <<>> THEN sync[s].pc
                   ELSE IF sync[s].left # {} THEN "fetching" ELSE "marking"
             r == [sync[s] EXCEPT !.batch = batch,
                                  !.created = sync[s].created \cup created,
                                  !.result = Result(s, result),
                                  !.pc = pc]
  <1>1. sync[s] \in Activities /\ sync[s].pc = "processing" /\ loop = s
    BY DEF CoreInv, Sound, SyncTypes, Sane, Processing
  <1>2. To(s, r) /\ loop' = IF batch = <<>> /\ sync[s].left # {} THEN Free ELSE s
    BY <1>1 DEF Processed
  <1>3. pc \in {"processing", "fetching", "marking"} /\ (pc \in Holding => loop' = s)
    BY <1>1, <1>2 DEF Holding
  <1>4. r.pc = pc
    <2> HIDE DEF batch, pc
    <2> QED BY <1>1 DEF Activities
  <1> HIDE DEF r
  <1>5. sync'[s].pc = pc /\ \A u \in Syncs \ {s} : sync'[u] = sync[u]
    BY <1>2, <1>4, ToFrame DEF CoreInv, Sound
  <1> HIDE DEF pc
  <1> QED BY <1>1, <1>3, <1>5, FreshWork

LEMMA ProcessCore ==
    ASSUME CoreInv, NEW s \in Syncs, Process(s)
    PROVE  CoreInv'
  <1> DEFINE w == Current(s).id
             version == Current(s).version
  <1>1. Sound'
    BY ProcessTyped DEF CoreInv
  <1>2. Processing(s) /\ w \in Ids
    BY CurrentTyped DEF Process, Skip, Update, InsertLinked, InsertRefused, InsertUnmapped,
                        ProcessFails, CoreInv, Sound
  <1>3. \E created \in SUBSET Ids, result \in {"clean", "failed"} : Processed(s, created, result)
    <2>1. Created(s, w) \in SUBSET Ids
      BY <1>2 DEF Created
    <2> QED BY <2>1 DEF Process, Skip, Update, InsertLinked, InsertRefused, InsertUnmapped, ProcessFails
  <1>4. Exclusive' /\ \A v \in Syncs : Work(v)'
    BY <1>1, <1>2, <1>3, ProcessedCore
  <1>5. gitState' = gitState /\ canonicals' = canonicals
    BY DEF Process, Skip, Update, InsertLinked, InsertRefused, InsertUnmapped, ProcessFails, git
  <1>6. Mapped'
    <2>1. CASE row' = row
      BY <1>5, <2>1, MappedSame DEF CoreInv
    <2>2. ASSUME NEW r, row' = [row EXCEPT ![w] = r],
                 \A c \in Canonicals : r.canon = c => Holds(w, c)
          PROVE  Mapped'
      <3> HIDE DEF w
      <3>1. \A v \in Ids, c \in Canonicals : Holds(v, c)' => Holds(v, c)
        BY <1>2, <2>2 DEF Holds, CoreInv, Sound, RowTypes
      <3> QED BY <1>5, <3>1, MappedKept DEF CoreInv
    <2>3. CASE Update(s)
      <3>1. row[w] # NoRow
        BY <2>3 DEF Update
      <3> DEFINE r == [status |-> Reappeared(row[w]), canon |-> row[w].canon,
                       content |-> version.content, at |-> version.at]
      <3>2. row' = [row EXCEPT ![w] = r]
        BY <2>3 DEF Update
      <3>3. \A c \in Canonicals : r.canon = c => Holds(w, c)
        BY <3>1 DEF Holds
      <3> HIDE DEF r
      <3> QED BY <2>2, <3>2, <3>3
    <2>4. CASE InsertUnmapped(s)
      <3> DEFINE canon == IF row[w] = NoRow THEN NoCanonical ELSE row[w].canon
                 r == [status |-> "unmapped", canon |-> canon,
                       content |-> version.content, at |-> version.at]
      <3>1. \A c \in Canonicals : canon = c => Holds(w, c)
        BY ValuesAssumption DEF Holds
      <3>2. row' = [row EXCEPT ![w] = r]
        BY <2>4 DEF InsertUnmapped
      <3>3. \A c \in Canonicals : r.canon = c => Holds(w, c)
        BY <3>1
      <3> HIDE DEF r
      <3> QED BY <2>2, <3>2, <3>3
    <2>5. ASSUME NEW c \in Canonicals, InsertLinked(s, c)
          PROVE  Mapped'
      <3> DEFINE r == [status |-> "linked", canon |-> c,
                       content |-> version.content, at |-> version.at]
      <3> PICK u \in Ids : u = w
        BY <1>2
      <3>1. row' = [row EXCEPT ![u] = r] /\ c \in Candidates(u, version.content)
            /\ Admits(u, c)
        BY <2>5 DEF InsertLinked
      <3>2. r.canon = c
        OBVIOUS
      <3>3. gitState[c] # Nothing
        <4>1. version.content \in Contents
          BY <1>2, CurrentTyped DEF CoreInv, Sound
        <4>2. gitState[c] = version.content
          BY <3>1 DEF Candidates
        <4> QED BY <4>1, <4>2, ValuesAssumption
      <3>4. c \in canonicals
        BY <3>3 DEF CoreInv, Mapped, Known
      <3> HIDE DEF r, w, version
      <3>5. \A v \in Ids, d \in Canonicals : Holds(v, d)' => Holds(v, d) \/ (v = u /\ d = c)
        BY <3>1, <3>2 DEF Holds, CoreInv, Sound, RowTypes
      <3>6. \A v \in Ids \ {u} : ~Holds(v, c)
        BY <3>1 DEF Admits
      <3>7. \A v \in Ids \ {u}, d \in Canonicals : Holds(v, d)' => Holds(v, d)
        BY <3>5
      <3>8. \A d \in Canonicals : Holds(u, d)' => d = c
        BY <3>1, <3>2 DEF Holds, CoreInv, Sound, RowTypes
      <3>9. Unique'
        BY <3>6, <3>7, <3>8 DEF Unique, CoreInv, Mapped
      <3>10. Known'
        BY <1>5, <3>4, <3>5 DEF Known, CoreInv, Mapped
      <3> QED BY <3>9, <3>10 DEF Mapped
    <2> QED
      BY <2>1, <2>3, <2>4, <2>5 DEF Process, Skip, InsertRefused, ProcessFails, rows
  <1> QED BY <1>1, <1>4, <1>6 DEF CoreInv

LEMMA MarkCore ==
    ASSUME CoreInv, NEW s \in Syncs, Mark(s) \/ MarkFails(s)
    PROVE  CoreInv'
  <1>1. Sound'
    BY MarkTyped DEF CoreInv
  <1>2. PICK some \in SUBSET Vanished(s), result \in {"clean", "failed"} :
          MarkMissing(s, some, result) /\ (result = "failed" \/ some = Vanished(s))
    BY DEF Mark, MarkFails
  <1>3. \A w \in some : w \in Ids /\ row[w] # NoRow
    BY DEF Vanished
  <1>4. \A w \in Ids : row'[w] = IF w \in some THEN [row[w] EXCEPT !.status = "missing"]
                                 ELSE row[w]
    BY <1>2 DEF MarkMissing
  <1>5. Mapped'
    <2>1. \A w \in some : [row[w] EXCEPT !.status = "missing"].canon = row[w].canon
      BY <1>3, RowTyped DEF Rows, CoreInv, Sound
    <2>2. \A w \in Ids, c \in Canonicals : Holds(w, c)' => Holds(w, c)
      BY <1>3, <1>4, <2>1 DEF Holds
    <2> QED BY <1>2, <2>2, MappedKept DEF MarkMissing, CoreInv, git
  <1>6. sync[s] \in Activities /\ sync[s].pc = "marking" /\ loop = s /\ sync[s].todo = {}
    BY <1>2, SaneParts DEF MarkMissing, CoreInv, Sound, SyncTypes, Coherent
  <1>7. CASE To(s, Idle)
    <2>1. sync'[s].pc = "idle" /\ \A v \in Syncs \ {s} : sync'[v] = sync[v]
      BY <1>7, ToFrame DEF Idle, CoreInv, Sound
    <2> QED BY <1>1, <1>5, <1>6, <2>1, FreshWork DEF CoreInv, Holding
  <1>8. CASE s \in Backups /\ UNCHANGED loop
             /\ To(s, [sync[s] EXCEPT !.result = Result(s, result), !.pc = "planning"])
    <2> DEFINE r == [sync[s] EXCEPT !.result = Result(s, result), !.pc = "planning"]
    <2>1. r.pc = "planning" /\ r.todo = {} /\ r.listed = sync[s].listed
          /\ r.result = Result(s, result)
      BY <1>6 DEF Activities
    <2> HIDE DEF r
    <2>2. sync'[s] = r /\ \A v \in Syncs \ {s} : sync'[v] = sync[v]
      BY <1>8, ToFrame DEF CoreInv, Sound, r
    <2>3. Marked(s)'
      <3> SUFFICES ASSUME sync'[s].result = "clean", NEW w \in Ids, Linked(w)'
                   PROVE  sync'[s].listed[w] # Gone
        BY DEF Marked
      <3>1. some = Vanished(s)
        BY <1>2, <1>8, <2>1, <2>2 DEF Result
      <3>2. w \notin some
        <4>1. ASSUME w \in some PROVE FALSE
          <5>1. row[w] \in Rows
            BY <1>3, <4>1, RowTyped DEF CoreInv, Sound
          <5>2. row'[w].status = "missing"
            BY <1>4, <4>1, <5>1 DEF Rows
          <5> QED BY <5>2 DEF Linked
        <4> QED BY <4>1
      <3>3. Linked(w)
        BY <1>4, <3>2 DEF Linked
      <3> QED BY <2>1, <2>2, <3>1, <3>2, <3>3 DEF Linked, Vanished
    <2>4. Work(s)'
      BY <2>1, <2>2, <2>3 DEF Work, Faithful, Covered
    <2> QED BY <1>1, <1>5, <1>6, <1>8, <2>2, <2>4, OthersRest DEF CoreInv
  <1> QED BY <1>2, <1>7, <1>8 DEF MarkMissing

LEMMA ItemAgrees ==
    ASSUME NEW w \in Ids, row[w] # NoRow
    PROVE  Agrees(Item(w)) /\ Item(w).id = w
BY DEF Agrees, Item

LEMMA PlanCore ==
    ASSUME CoreInv, NEW s \in Syncs, Plan(s)
    PROVE  CoreInv'
  <1> DEFINE ids == IF Bootstrap THEN ToBootstrap(s) ELSE ToCommit(s) \cup ToCanonicalise(s)
             todo == {Item(w) : w \in ids}
             r == [sync[s] EXCEPT !.todo = todo, !.pc = "committing"]
  <1>1. Sound' /\ Mapped'
    BY PlanTyped, MappedSame DEF CoreInv, Plan, rows, git
  <1>2. To(s, r) /\ loop = s /\ loop' = s /\ sync[s].pc = "planning"
        /\ UNCHANGED <<row, gitState>>
    BY DEF Plan, rows, git
  <1>3. sync[s] \in Activities /\ sync[s].created \subseteq Ids
    BY SaneParts DEF CoreInv, Sound, SyncTypes, Sane
  <1>4. \A w \in ids : w \in Ids /\ row[w] # NoRow
    BY <1>3 DEF ToBootstrap, ToCommit, ToCanonicalise, Observed
  <1>5. sync[s].result = "clean" => \A w \in Ids : Linked(w) => InGit(w) \/ w \in ids
    <2> SUFFICES ASSUME sync[s].result = "clean", NEW w \in Ids, Linked(w)
                 PROVE  InGit(w) \/ w \in ids
      OBVIOUS
    <2>1. sync[s].listed[w] # Gone
      BY <1>2 DEF CoreInv, Work, Marked
    <2>2. CASE Bootstrap
      BY <2>1, <2>2 DEF ToBootstrap, Observed, Linked
    <2>3. CASE ~Bootstrap
      BY <2>3 DEF ToCommit, Linked, InGit
    <2> QED BY <2>2, <2>3
  <1> HIDE DEF ids
  <1>6. \A w \in ids : \E i \in todo : i.id = w
    BY <1>4, ItemAgrees
  <1>7. \A i \in todo : Agrees(i)
    BY <1>4, ItemAgrees
  <1> HIDE DEF todo
  <1>8. r.pc = "committing" /\ r.todo = todo /\ r.result = sync[s].result
    BY <1>3 DEF Activities
  <1>9. sync'[s] = r /\ \A v \in Syncs \ {s} : sync'[v] = sync[v]
    BY <1>2, ToFrame DEF CoreInv, Sound
  <1> HIDE DEF r
  <1>10. Faithful(s)'
    BY <1>2, <1>7, <1>8, <1>9 DEF Faithful, Agrees
  <1>11. Covered(s)'
    BY <1>2, <1>5, <1>6, <1>8, <1>9 DEF Covered, Linked, InGit
  <1>12. Work(s)'
    BY <1>8, <1>9, <1>10, <1>11 DEF Work, Marked
  <1> QED BY <1>1, <1>2, <1>9, <1>12, OthersRest DEF CoreInv

\* An item is done with, successfully or not.
LEMMA CommitCore ==
    ASSUME CoreInv, NEW s \in Syncs, NEW i,
           Commit(s, i) \/ CommitFails(s, i) \/ CanonicaliseFails(s, i)
    PROVE  CoreInv'
  <1>1. Committing(s, i) /\ i \in Items /\ sync[s].todo \subseteq Items
        /\ loop = s /\ sync[s].pc = "committing" /\ i \in sync[s].todo
    BY TodoOf DEF Commit, CommitFails, CanonicaliseFails, CoreInv, Sound, Committing
  <1>2. Agrees(i)
    BY <1>1 DEF CoreInv, Work, Faithful
  <1>3. Sound'
    BY <1>2, CommitTyped, CanonicaliseTyped DEF CoreInv, Agrees
  <1>4. row' = row /\ loop' = s
    BY <1>1 DEF Commit, CommitFails, CanonicaliseFails, rows
  <1>5. sync[s] \in Activities
    BY DEF CoreInv, Sound, SyncTypes, Sane
  <1> DEFINE todo == sync[s].todo \ {i}
             dropped == [sync[s] EXCEPT !.todo = todo]
             failed == [sync[s] EXCEPT !.todo = todo, !.result = "failed"]
  <1>6. /\ dropped.pc = "committing" /\ dropped.todo = todo
        /\ failed.pc = "committing" /\ failed.todo = todo /\ failed.result = "failed"
        /\ dropped.result = sync[s].result
    <2> HIDE DEF todo
    <2> QED BY <1>1, <1>5 DEF Activities
  <1>7. (To(s, dropped) /\ Commit(s, i)) \/ To(s, failed)
    BY DEF Commit, CommitFails, CanonicaliseFails, Dropped, Failed
  <1> HIDE DEF dropped, failed
  <1>8. /\ sync'[s].pc = "committing" /\ sync'[s].todo = todo
        /\ \A v \in Syncs \ {s} : sync'[v] = sync[v]
        /\ \/ Commit(s, i) /\ sync'[s].result = sync[s].result
           \/ sync'[s].result = "failed"
    BY <1>6, <1>7, ToFrame DEF CoreInv, Sound
  <1>9. Faithful(s)'
    BY <1>4, <1>8 DEF Faithful, Agrees, CoreInv, Work
  <1>10. CASE Commit(s, i)
    <2>1. i.canon \in Canonicals /\ i.id \in Ids /\ i.content \in Contents
      BY <1>1, <1>10 DEF Commit, Items
    <2>2. gitState' = [gitState EXCEPT ![i.canon] = i.content] /\ canonicals' = canonicals
      BY <1>10 DEF Commit
    <2>3. Holds(i.id, i.canon)
      BY <1>2 DEF Agrees, Holds
    <2>4. Mapped'
      <3>1. Known'
        BY <1>4, <2>1, <2>2, <2>3 DEF Known, Holds, CoreInv, Mapped, Sound, GitTypes
      <3>2. Unique'
        BY <1>4 DEF Unique, Holds, CoreInv, Mapped
      <3> QED BY <3>1, <3>2 DEF Mapped
    <2>5. Covered(s)'
      <3> SUFFICES ASSUME sync'[s].result = "clean", NEW w \in Ids, Linked(w)'
                   PROVE  InGit(w)' \/ \E j \in sync'[s].todo : j.id = w
        BY DEF Covered
      <3>1. sync[s].result = "clean" /\ Linked(w)
        BY <1>4, <1>8 DEF Linked
      <3>2. InGit(w) \/ \E j \in sync[s].todo : j.id = w
        BY <1>1, <3>1 DEF CoreInv, Work, Covered
      <3>3. CASE w = i.id
        BY <1>2, <1>4, <2>1, <2>2, <3>3 DEF InGit, Agrees, CoreInv, Sound, GitTypes
      <3>4. CASE w # i.id /\ InGit(w)
        <4>1. row[w].canon # i.canon
          BY <2>1, <2>3, <3>1, <3>4 DEF CoreInv, Mapped, Unique, Holds, Linked
        <4>2. row[w] \in Rows
          BY <3>1, RowTyped DEF Linked, CoreInv, Sound
        <4>3. row[w].canon \in Canonicals \cup {NoCanonical}
          BY <4>2 DEF Rows
        <4> QED BY <1>4, <2>2, <3>4, <4>1, <4>3 DEF InGit, CoreInv, Sound, GitTypes
      <3>5. CASE w # i.id /\ \E j \in sync[s].todo : j.id = w
        BY <1>8, <3>5
      <3> QED BY <3>2, <3>3, <3>4, <3>5
    <2>6. Work(s)'
      BY <1>8, <1>9, <2>5 DEF Work, Marked
    <2> QED BY <1>1, <1>3, <1>4, <1>8, <2>4, <2>6, OthersRest DEF CoreInv
  <1>11. CASE ~Commit(s, i)
    <2>1. gitState' = gitState /\ canonicals \subseteq canonicals'
      BY <1>11 DEF CommitFails, CanonicaliseFails
    <2>2. Mapped'
      BY <1>4, <2>1, MappedKept DEF Holds, CoreInv
    <2>3. Work(s)'
      BY <1>8, <1>9, <1>11 DEF Work, Marked, Covered
    <2> QED BY <1>1, <1>3, <1>4, <1>8, <2>2, <2>3, OthersRest DEF CoreInv
  <1> QED BY <1>10, <1>11

LEMMA CanonicaliseCore ==
    ASSUME CoreInv, NEW s \in Syncs, NEW i, NEW c \in Canonicals, Canonicalise(s, i, c)
    PROVE  CoreInv'
  <1>1. Committing(s, i) /\ i \in Items /\ sync[s].todo \subseteq Items
        /\ loop = s /\ sync[s].pc = "committing" /\ i \in sync[s].todo
    BY TodoOf DEF Canonicalise, CoreInv, Sound, Committing
  <1>2. Agrees(i) /\ i.id \in Ids
    BY <1>1 DEF CoreInv, Work, Faithful, Items
  <1>3. Sound'
    BY <1>2, CanonicaliseTyped DEF CoreInv, Agrees
  <1> DEFINE r == [[row[i.id] EXCEPT !.canon = c] EXCEPT !.status = "linked"]
             item == [i EXCEPT !.canon = c]
             todo == (sync[s].todo \ {i}) \cup {item}
             done == [sync[s] EXCEPT !.todo = todo]
  <1>4. /\ r # NoRow /\ r.canon = c /\ r.status = "linked"
        /\ r.content = row[i.id].content
    <2>1. row[i.id] \in Rows
      BY <1>2, RowTyped DEF CoreInv, Sound, Agrees
    <2> QED BY <2>1 DEF Rows, NoRow
  <1>5. row'[i.id] = r /\ \A w \in Ids \ {i.id} : row'[w] = row[w]
    <2>1. row' = [row EXCEPT ![i.id].canon = c, ![i.id].status = "linked"]
      BY DEF Canonicalise, Link
    <2> QED BY <1>2, <2>1 DEF CoreInv, Sound, RowTypes
  <1>6. item.id = i.id /\ item.canon = c /\ item.content = i.content
    BY <1>1 DEF Items
  <1>7. To(s, done) /\ loop' = s /\ c \notin canonicals
        /\ canonicals' = canonicals \cup {c} /\ gitState' = gitState
    BY <1>1 DEF Canonicalise, Fresh
  <1> HIDE DEF r, item
  <1>8. done.pc = "committing" /\ done.todo = todo /\ done.result = sync[s].result
    <2>1. sync[s] \in Activities
      BY DEF CoreInv, Sound, SyncTypes, Sane
    <2> HIDE DEF todo
    <2> QED BY <1>1, <2>1 DEF Activities
  <1> HIDE DEF done
  <1>9. /\ sync'[s].pc = "committing" /\ sync'[s].todo = todo
        /\ sync'[s].result = sync[s].result
        /\ \A v \in Syncs \ {s} : sync'[v] = sync[v]
    BY <1>7, <1>8, ToFrame DEF CoreInv, Sound
  <1>10. \A j \in sync[s].todo \ {i} : j.id \in Ids \ {i.id} /\ Agrees(j)
    <2> SUFFICES ASSUME NEW j \in sync[s].todo \ {i}
                 PROVE  j.id \in Ids \ {i.id} /\ Agrees(j)
      OBVIOUS
    <2>1. j \in Items /\ Agrees(j)
      BY <1>1 DEF CoreInv, Work, Faithful
    <2>2. j.id = i.id => j = i
      BY <1>1, <1>2, <2>1 DEF Agrees, Items
    <2> QED BY <2>1, <2>2 DEF Items
  <1>11. Faithful(s)'
    <2> SUFFICES ASSUME NEW j \in todo
                 PROVE  Agrees(j)'
      BY <1>9 DEF Faithful
    <2>1. CASE j = item
      BY <1>2, <1>4, <1>5, <1>6, <2>1 DEF Agrees
    <2>2. CASE j \in sync[s].todo \ {i}
      BY <1>5, <1>10, <2>2 DEF Agrees
    <2> QED BY <2>1, <2>2
  <1>12. Covered(s)'
    <2> SUFFICES ASSUME sync'[s].result = "clean", NEW w \in Ids, Linked(w)'
                 PROVE  InGit(w)' \/ \E j \in todo : j.id = w
      BY <1>9 DEF Covered
    <2>1. CASE w = i.id
      BY <1>6, <2>1
    <2>2. CASE w # i.id
      <3>1. Linked(w) /\ sync[s].result = "clean"
        BY <1>5, <1>9, <2>2 DEF Linked
      <3>2. InGit(w) \/ \E j \in sync[s].todo : j.id = w
        BY <1>1, <3>1 DEF CoreInv, Work, Covered
      <3>3. InGit(w) => InGit(w)'
        BY <1>5, <1>7, <2>2 DEF InGit
      <3> QED BY <2>2, <3>2, <3>3
    <2> QED BY <2>1, <2>2
  <1>13. Mapped'
    <2>1. \A w \in Ids \ {i.id}, d \in Canonicals : Holds(w, d)' <=> Holds(w, d)
      BY <1>5 DEF Holds
    <2>2. \A d \in Canonicals : Holds(i.id, d)' <=> d = c
      BY <1>4, <1>5 DEF Holds
    <2>3. \A w \in Ids : ~Holds(w, c)
      BY <1>7 DEF CoreInv, Mapped, Known
    <2>4. Unique'
      BY <2>1, <2>2, <2>3 DEF Unique, CoreInv, Mapped
    <2>5. Known'
      BY <1>7, <2>1, <2>2 DEF Known, CoreInv, Mapped
    <2> QED BY <2>4, <2>5 DEF Mapped
  <1>14. Work(s)'
    BY <1>9, <1>11, <1>12 DEF Work, Marked
  <1> QED BY <1>1, <1>3, <1>7, <1>9, <1>13, <1>14, OthersRest DEF CoreInv

LEMMA OutsideCore ==
    ASSUME CoreInv,
           \/ \E c \in Canonicals : RepoSync(c)
           \/ \E c \in Canonicals, x \in Contents : Push(c, x)
           \/ Crash
    PROVE  CoreInv'
  <1>1. Sound'
    BY OutsideTyped DEF CoreInv
  <1>2. ASSUME NEW c \in Canonicals, RepoSync(c)
        PROVE  CoreInv'
    <2>1. Exclusive' /\ \A s \in Syncs : Work(s)'
      BY <1>2, NobodyWorks DEF RepoSync
    <2>2. Mapped'
      BY <1>2 DEF RepoSync, Mapped, Known, Unique, Holds, CoreInv, Sound, GitTypes, rows
    <2> QED BY <1>1, <2>1, <2>2 DEF CoreInv
  <1>3. ASSUME NEW c \in Canonicals, NEW x \in Contents, Push(c, x)
        PROVE  CoreInv'
    BY <1>1, <1>3, WorkSame, MappedSame DEF Push, CoreInv, rows
  <1>4. CASE Crash
    <2>1. \A s \in Syncs : sync'[s].pc = "idle" /\ sync'[s].todo = {}
      BY <1>4 DEF Crash, Idle
    <2>2. Exclusive' /\ \A s \in Syncs : Work(s)'
      BY <2>1 DEF Exclusive, Holding, Work, Faithful, Marked, Covered
    <2> QED BY <1>1, <1>4, <2>2, MappedSame DEF Crash, CoreInv, git
  <1> QED BY <1>2, <1>3, <1>4

LEMMA StutterCore ==
    ASSUME CoreInv, UNCHANGED vars
    PROVE  CoreInv'
  <1>1. Sound'
    BY DEF vars, rows, git, CoreInv, Sound, RowTypes, GitTypes, OtherTypes, SyncTypes
  <1> QED BY <1>1, WorkSame, MappedSame DEF vars, rows, git, CoreInv

LEMMA StepCore == CoreInv /\ [Next]_vars => CoreInv'
  <1> SUFFICES ASSUME CoreInv, [Next]_vars PROVE CoreInv'
    OBVIOUS
  <1>1. ASSUME NEW s \in Syncs, Step(s)
        PROVE  CoreInv'
    <2>1. ASSUME Backup(s)
          PROVE  CoreInv'
      BY <2>1, PlanCore, CanonicaliseCore, CommitCore, AbortCore DEF Backup
    <2> QED
      BY <1>1, <2>1, ListCore, FetchCore, ProcessCore, MarkCore, AbortCore DEF Step
  <1> QED
    BY <1>1, UsersCore, BeginCore, OutsideCore, StutterCore DEF Next

LEMMA CoreAlways == Spec => []CoreInv
  <1> QED BY InitCore, StepCore, PTL DEF Spec

-----------------------------------------------------------------------------
(* The theorems.                                                           *)

\* Every variable keeps its type; no index of the program's structures is
\* empty where it is read.
THEOREM TypeCorrect == Spec => []TypeOK
  <1>1. CoreInv => TypeOK
    BY SoundTyped DEF CoreInv
  <1> QED BY <1>1, CoreAlways, PTL

\* A backup that reports that nothing failed has left no linked workflow whose
\* recorded content Git is not known to hold, whatever other syncs, users and
\* repository syncs did meanwhile (_commit_dev_workflows_to_git).
THEOREM BackupComplete == Spec => BackupIsComplete
  <1> DEFINE A == \A s \in Syncs :
                    /\ Finish(s)
                    /\ sync[s].result = "clean"
                    => \A w \in Ids :
                        /\ row[w] # NoRow
                        /\ row[w].status = "linked"
                        /\ row[w].canon # NoCanonical
                        => gitState[row[w].canon] = row[w].content
  <1>1. CoreInv => A
    BY DEF CoreInv, Work, Covered, Finish, Linked, InGit
  <1> HIDE DEF A
  <1>2. Spec => [][A]_vars
    BY <1>1, CoreAlways, PTL
  <1> QED BY <1>2 DEF A, BackupIsComplete

\* No step of users, syncs, backups or repository syncs gives a workflow another
\* canonical or takes it away while the row lives, unless a lookup missed the
\* row (_create_workflow_mapping is an upsert, _update_workflow_mapping keeps
\* the canonical).
THEOREM IdentityKept == Spec => IdentityStays
  <1> DEFINE A == \A w \in Ids \ misread' :
                    /\ row[w] # NoRow
                    /\ row[w].canon # NoCanonical
                    /\ row'[w] # NoRow
                    => row'[w].canon = row[w].canon
  <1>1. CoreInv /\ [Next]_vars => A
    <2> SUFFICES ASSUME CoreInv, [Next]_vars,
                        NEW w \in Ids \ misread', row[w] # NoRow,
                        row[w].canon # NoCanonical, row'[w] # NoRow
                 PROVE  row'[w].canon = row[w].canon
      OBVIOUS
    <2>1. row \in [Ids -> Rows \cup {NoRow}] /\ row[w] \in Rows
      BY RowTyped DEF CoreInv, Sound, RowTypes
    <2>2. CASE row' = row
      BY <2>2
    <2>3. ASSUME NEW v \in Ids, MarkDeleted(v) \/ ArchiveWorkflow(v) \/ UnarchiveWorkflow(v)
          PROVE  row'[w].canon = row[w].canon
      <3>1. PICK status \in {"ignored", "linked"} :
              row' = [row EXCEPT ![v] = NoRow] \/ row' = [row EXCEPT ![v].status = status]
        BY <2>3 DEF MarkDeleted, ArchiveWorkflow, UnarchiveWorkflow, SetStatus
      <3>2. [row[w] EXCEPT !.status = status].canon = row[w].canon
        BY <2>1 DEF Rows
      <3> QED BY <2>1, <3>1, <3>2
    <2>4. ASSUME NEW s \in Syncs, Process(s)
          PROVE  row'[w].canon = row[w].canon
      <3> PICK u \in Ids : u = Current(s).id
        BY <2>4, CurrentTyped DEF Process, Skip, Update, InsertLinked, InsertRefused,
             InsertUnmapped, ProcessFails, CoreInv, Sound
      <3> DEFINE version == Current(s).version
      <3>1. CASE Update(s)
        <4>1. row' = [row EXCEPT ![u] =
                [status |-> Reappeared(row[u]), canon |-> row[u].canon,
                 content |-> version.content, at |-> version.at]]
          BY <3>1 DEF Update
        <4> QED BY <2>1, <4>1
      <3>2. ASSUME NEW c \in Canonicals, InsertLinked(s, c)
            PROVE  row'[w].canon = row[w].canon
        <4>1. NotFound(u)
          BY <3>2 DEF InsertLinked
        <4>2. w # u
          BY <4>1 DEF NotFound
        <4>3. row' = [row EXCEPT ![u] = [status |-> "linked", canon |-> c,
                      content |-> version.content, at |-> version.at]]
          BY <3>2 DEF InsertLinked
        <4> HIDE DEF version
        <4> QED BY <2>1, <4>2, <4>3
      <3>3. CASE InsertUnmapped(s)
        <4>1. row' = [row EXCEPT ![u] =
                [status |-> "unmapped",
                 canon |-> IF row[u] = NoRow THEN NoCanonical ELSE row[u].canon,
                 content |-> version.content, at |-> version.at]]
          BY <3>3 DEF InsertUnmapped
        <4> QED BY <2>1, <4>1
      <3> QED
        BY <2>2, <2>4, <3>1, <3>2, <3>3 DEF Process, Skip, InsertRefused, ProcessFails, rows
    <2>5. ASSUME NEW s \in Syncs, Mark(s) \/ MarkFails(s)
          PROVE  row'[w].canon = row[w].canon
      <3>1. PICK some : row'[w] = IF w \in some THEN [row[w] EXCEPT !.status = "missing"]
                                  ELSE row[w]
        BY <2>5 DEF Mark, MarkFails, MarkMissing
      <3>2. [row[w] EXCEPT !.status = "missing"].canon = row[w].canon
        BY <2>1 DEF Rows
      <3> QED BY <3>1, <3>2
    <2>6. ASSUME NEW s \in Syncs, NEW i \in sync[s].todo, NEW c \in Canonicals,
                 Canonicalise(s, i, c)
          PROVE  row'[w].canon = row[w].canon
      <3>1. Agrees(i) /\ i.canon = NoCanonical
        BY <2>6 DEF CoreInv, Work, Faithful, Canonicalise
      <3>2. i.id # w
        BY <3>1 DEF Agrees
      <3>3. row' = [row EXCEPT ![i.id].canon = c, ![i.id].status = "linked"]
        BY <2>6 DEF Canonicalise, Link
      <3> QED BY <2>1, <3>2, <3>3
    <2>7. ASSUME UserActs
          PROVE  row'[w].canon = row[w].canon
      BY <2>2, <2>3, <2>7 DEF UserActs, CreateFlow, EditFlow, RemoveFlow, DeleteFlow,
                              MarkDeletedFails, rows
    <2>8. ASSUME NEW s \in Syncs, Step(s)
          PROVE  row'[w].canon = row[w].canon
      <3>1. CASE Process(s) \/ Mark(s) \/ MarkFails(s)
        BY <2>4, <2>5, <3>1
      <3>2. CASE Backup(s)
        BY <2>2, <2>6, <3>2 DEF Backup, Plan, CanonicaliseFails, Commit, CommitFails,
                                Finish, rows
      <3> QED
        BY <2>2, <2>8, <3>1, <3>2 DEF Step, List, ListFails, Fetch, FetchFails, Abort, rows
    <2>9. CASE \/ \E s \in Syncs : Begin(s)
               \/ \E c \in Canonicals : RepoSync(c)
               \/ \E c \in Canonicals, x \in Contents : Push(c, x)
               \/ Crash
               \/ UNCHANGED vars
      BY <2>2, <2>9 DEF Begin, RepoSync, Push, Crash, vars, rows
    <2> QED BY <2>7, <2>8, <2>9 DEF Next
  <1>2. [A]_vars <=> A
    <2>1. UNCHANGED vars => A
      BY DEF vars, rows
    <2> QED BY <2>1
  <1> HIDE DEF A
  <1>3. CoreInv /\ [Next]_vars => [A]_vars
    BY <1>1
  <1>4. Spec => [][A]_vars
    BY <1>3, CoreAlways, PTL DEF Spec
  <1> QED BY <1>4 DEF A, IdentityStays

-----------------------------------------------------------------------------
(* The safety part of RowsMirror: the versions that rows and syncs carry,   *)
(* and what a sync that is up to date has dealt with.                       *)

\* What carries a version of a workflow names no later one, and if it names the
\* present one has its content.
Dated(w, version) ==
    /\ version.at <= clock
    /\ Live(w) /\ version.at = flow[w].at => version.content = flow[w].content

VersionsAgree ==
    /\ \A w \in Ids : Live(w) => flow[w].at <= clock
    /\ \A w \in Ids : row[w] # NoRow => Dated(w, row[w])
    /\ \A s \in Syncs, w \in Ids : sync[s].listed[w] # Gone => Dated(w, sync[s].listed[w])
    /\ \A s \in Syncs : \A b \in Batched(s) : Dated(b.id, b.version)

\* A sync handles listed workflows only, and marks when it has handled all.
HandlesListed(s) ==
    /\ \A b \in Batched(s) : b.id \in Observed(s)
    /\ sync[s].created \subseteq Observed(s)
    /\ \A i \in sync[s].todo : i.canon = NoCanonical => i.id \in Observed(s)
    /\ sync[s].pc \in {"idle", "listing"} => sync[s].batch = <<>> /\ sync[s].created = {}
    /\ sync[s].pc = "marking" => sync[s].left = {} /\ sync[s].batch = <<>>

DataInv ==
    /\ VersionsAgree
    /\ \A s \in Syncs : HandlesListed(s)
    /\ \A w \in deleting : flow[w] = Gone

\* A row shows what it can of n8n, or there is none: for any reason, or, if strict,
\* because the index has one refused.
Settles(w, strict) ==
    \/ Mirrored(w)
    \/ Overlooked(w)
    \/ IF strict THEN Shadowed(w) ELSE row[w] = NoRow /\ Live(w)

\* The sync has dealt with every workflow that it does not still hold.
Reflected(s, strict) ==
    sync[s].pc \in {"fetching", "processing", "marking"} =>
        \A w \in Ids :
            \/ ~Live(w) \/ Settles(w, strict)
            \/ w \in sync[s].left
            \/ \E b \in Batched(s) : b.id = w

\* A shadowed workflow stays so only if the rows are accurate.
QuietInv(s, strict) ==
    /\ \A t \in Syncs : UpToDate(t)
    /\ Reflected(s, strict)
    /\ strict => Accurate

-----------------------------------------------------------------------------
(* What each step of a sync does to the sync's own data.                   *)

\* The data that only listing, fetching and processing change.
SameData(s) ==
    /\ sync'[s].listed = sync[s].listed
    /\ sync'[s].batch = sync[s].batch
    /\ sync'[s].created = sync[s].created

Alone(s) == \A v \in Syncs \ {s} : sync'[v] = sync[v]

EmptyData(s) ==
    /\ sync'[s].listed = [w \in Ids |-> Gone]
    /\ sync'[s].left = {}
    /\ sync'[s].batch = <<>>
    /\ sync'[s].created = {}
    /\ sync'[s].todo = {}
    /\ sync'[s].pc \in {"idle", "listing"}

LEMMA IdleData ==
    ASSUME CoreInv, NEW s \in Syncs,
           To(s, Idle) \/ To(s, [Idle EXCEPT !.pc = "listing"])
    PROVE  EmptyData(s) /\ Alone(s)
  <1> DEFINE r == [Idle EXCEPT !.pc = "listing"]
  <1>1. \A a \in {Idle, r} : /\ a.listed = [w \in Ids |-> Gone]
                             /\ a.left = {} /\ a.batch = <<>> /\ a.created = {}
                             /\ a.todo = {} /\ a.pc \in {"idle", "listing"}
    BY DEF Idle
  <1>2. \E a \in {Idle, r} : To(s, a)
    OBVIOUS
  <1> HIDE DEF r
  <1> QED BY <1>1, <1>2, ToFrame DEF EmptyData, Alone, CoreInv, Sound

LEMMA ListData ==
    ASSUME CoreInv, NEW s \in Syncs, List(s)
    PROVE  /\ sync[s].pc = "listing" /\ Alone(s)
           /\ sync'[s].listed = Listing
           /\ sync'[s].left = {w \in Ids : Live(w)}
           /\ sync'[s].pc = IF sync'[s].left = {} THEN "marking" ELSE "fetching"
           /\ sync'[s].batch = sync[s].batch
           /\ sync'[s].created = sync[s].created
           /\ sync'[s].todo = {}
  <1> DEFINE present == {w \in Ids : Live(w)}
             pc == IF present = {} THEN "marking" ELSE "fetching"
             r == [sync[s] EXCEPT !.listed = Listing, !.left = present, !.pc = pc]
  <1>1. To(s, r) /\ sync[s].pc = "listing"
    BY DEF List, Listing
  <1>2. sync[s] \in Activities /\ sync[s].todo = {}
    BY <1>1, SaneParts DEF CoreInv, Sound, SyncTypes, Sane, Coherent
  <1>3. /\ r.listed = Listing /\ r.left = present /\ r.pc = pc
        /\ r.batch = sync[s].batch /\ r.created = sync[s].created /\ r.todo = {}
    <2> HIDE DEF present, pc
    <2> QED BY <1>2 DEF Activities
  <1> HIDE DEF r
  <1> QED BY <1>1, <1>3, ToFrame DEF CoreInv, Sound, Alone

LEMMA FetchedData ==
    ASSUME CoreInv, NEW s \in Syncs, NEW w \in Ids, NEW v, Fetched(s, w, v)
    PROVE  /\ sync[s].pc = "fetching" /\ w \in sync[s].left /\ Alone(s)
           /\ sync'[s].listed = sync[s].listed
           /\ sync'[s].left = sync[s].left \ {w}
           /\ sync'[s].batch = Append(sync[s].batch, [id |-> w, version |-> v])
           /\ sync'[s].created = sync[s].created
           /\ sync'[s].todo = {}
           /\ sync'[s].pc \in {"fetching", "processing"}
           /\ sync'[s].left = {} => sync'[s].pc = "processing"
  <1> DEFINE batch == Append(sync[s].batch, [id |-> w, version |-> v])
             left == sync[s].left \ {w}
             pc == IF Len(batch) = BatchSize \/ left = {} THEN "processing" ELSE sync[s].pc
             r == [sync[s] EXCEPT !.batch = batch, !.left = left, !.pc = pc]
  <1>1. To(s, r) /\ sync[s].pc = "fetching" /\ w \in sync[s].left
    BY DEF Fetched
  <1>2. sync[s] \in Activities /\ sync[s].todo = {}
    BY <1>1, SaneParts DEF CoreInv, Sound, SyncTypes, Sane, Coherent
  <1>3. pc \in {"fetching", "processing"} /\ (left = {} => pc = "processing")
    BY <1>1
  <1>4. /\ r.listed = sync[s].listed /\ r.left = left /\ r.pc = pc
        /\ r.batch = batch /\ r.created = sync[s].created /\ r.todo = {}
    <2> HIDE DEF batch, left, pc
    <2> QED BY <1>2 DEF Activities
  <1> HIDE DEF r, pc
  <1> QED BY <1>1, <1>3, <1>4, ToFrame DEF CoreInv, Sound, Alone

LEMMA ProcessedData ==
    ASSUME CoreInv, NEW s \in Syncs, Processing(s), NEW created \in SUBSET Ids,
           NEW result, Processed(s, created, result)
    PROVE  /\ sync[s].pc = "processing" /\ sync[s].batch # <<>> /\ Alone(s)
           /\ sync'[s].listed = sync[s].listed
           /\ sync'[s].left = sync[s].left
           /\ sync'[s].batch = Tail(sync[s].batch)
           /\ sync'[s].created = sync[s].created \cup created
           /\ sync'[s].todo = {}
           /\ sync'[s].pc \in {"fetching", "processing", "marking"}
           /\ sync'[s].pc = "marking" => sync'[s].left = {} /\ sync'[s].batch = <<>>
  <1> DEFINE batch == Tail(sync[s].batch)
             pc == IF batch # <<>> THEN sync[s].pc
                   ELSE IF sync[s].left # {} THEN "fetching" ELSE "marking"
             r == [sync[s] EXCEPT !.batch = batch,
                                  !.created = sync[s].created \cup created,
                                  !.result = Result(s, result),
                                  !.pc = pc]
  <1>1. To(s, r) /\ sync[s].pc = "processing"
    BY DEF Processed, Processing
  <1>2. sync[s] \in Activities /\ sync[s].todo = {} /\ sync[s].batch # <<>>
    BY <1>1, SaneParts DEF CoreInv, Sound, SyncTypes, Sane, Coherent
  <1>3. pc \in {"fetching", "processing", "marking"}
        /\ (pc = "marking" => sync[s].left = {} /\ batch = <<>>)
    BY <1>1
  <1>4. /\ r.listed = sync[s].listed /\ r.left = sync[s].left /\ r.pc = pc
        /\ r.batch = batch /\ r.created = sync[s].created \cup created /\ r.todo = {}
    <2> HIDE DEF batch, pc
    <2> QED BY <1>2 DEF Activities
  <1> HIDE DEF r, pc
  <1> QED BY <1>1, <1>2, <1>3, <1>4, ToFrame DEF CoreInv, Sound, Alone

LEMMA MarkData ==
    ASSUME CoreInv, NEW s \in Syncs, NEW some, NEW result, MarkMissing(s, some, result)
    PROVE  /\ sync[s].pc = "marking" /\ Alone(s)
           /\ \/ EmptyData(s)
              \/ SameData(s) /\ sync'[s].pc = "planning" /\ sync'[s].todo = {}
  <1>1. sync[s] \in Activities /\ sync[s].pc = "marking" /\ sync[s].todo = {}
    BY SaneParts DEF MarkMissing, CoreInv, Sound, SyncTypes, Sane, Coherent
  <1>2. CASE To(s, Idle)
    BY <1>1, <1>2, IdleData
  <1>3. CASE To(s, [sync[s] EXCEPT !.result = Result(s, result), !.pc = "planning"])
    <2> DEFINE r == [sync[s] EXCEPT !.result = Result(s, result), !.pc = "planning"]
    <2>1. /\ r.listed = sync[s].listed /\ r.pc = "planning" /\ r.batch = sync[s].batch
          /\ r.created = sync[s].created /\ r.todo = {}
      BY <1>1 DEF Activities
    <2> HIDE DEF r
    <2>2. sync'[s] = r /\ Alone(s)
      BY <1>3, ToFrame DEF CoreInv, Sound, Alone, r
    <2> QED BY <1>1, <2>1, <2>2 DEF SameData
  <1> QED BY <1>2, <1>3 DEF MarkMissing

LEMMA PlanData ==
    ASSUME CoreInv, NEW s \in Syncs, Plan(s)
    PROVE  /\ sync[s].pc = "planning" /\ Alone(s) /\ SameData(s)
           /\ sync'[s].pc = "committing"
           /\ sync'[s].todo = {Item(w) : w \in IF Bootstrap THEN ToBootstrap(s)
                                               ELSE ToCommit(s) \cup ToCanonicalise(s)}
  <1> DEFINE todo == {Item(w) : w \in IF Bootstrap THEN ToBootstrap(s)
                                      ELSE ToCommit(s) \cup ToCanonicalise(s)}
             r == [sync[s] EXCEPT !.todo = todo, !.pc = "committing"]
  <1>1. To(s, r) /\ sync[s].pc = "planning" /\ sync[s] \in Activities
    BY DEF Plan, CoreInv, Sound, SyncTypes, Sane
  <1>2. /\ r.listed = sync[s].listed /\ r.pc = "committing" /\ r.batch = sync[s].batch
        /\ r.created = sync[s].created /\ r.todo = todo
    <2> HIDE DEF todo
    <2> QED BY <1>1 DEF Activities
  <1> HIDE DEF r, todo
  <1>3. sync'[s] = r /\ Alone(s)
    BY <1>1, ToFrame DEF CoreInv, Sound, Alone
  <1> QED BY <1>1, <1>2, <1>3 DEF SameData, todo

LEMMA CommitData ==
    ASSUME CoreInv, NEW s \in Syncs, NEW i,
           Commit(s, i) \/ CommitFails(s, i) \/ CanonicaliseFails(s, i)
    PROVE  /\ sync[s].pc = "committing" /\ Alone(s) /\ SameData(s)
           /\ sync'[s].pc = "committing"
           /\ sync'[s].todo = sync[s].todo \ {i}
  <1> DEFINE todo == sync[s].todo \ {i}
             dropped == [sync[s] EXCEPT !.todo = todo]
             failed == [sync[s] EXCEPT !.todo = todo, !.result = "failed"]
  <1>1. sync[s].pc = "committing" /\ sync[s] \in Activities
        /\ \E r \in {dropped, failed} : To(s, r)
    BY DEF Commit, CommitFails, CanonicaliseFails, Committing, Dropped, Failed,
           CoreInv, Sound, SyncTypes, Sane
  <1>2. \A r \in {dropped, failed} :
          /\ r.listed = sync[s].listed /\ r.pc = "committing" /\ r.batch = sync[s].batch
          /\ r.created = sync[s].created /\ r.todo = todo
    <2> HIDE DEF todo
    <2> QED BY <1>1 DEF Activities
  <1> HIDE DEF dropped, failed, todo
  <1>3. sync'[s] \in {dropped, failed} /\ Alone(s)
    BY <1>1, ToFrame DEF CoreInv, Sound, Alone
  <1> QED BY <1>1, <1>2, <1>3 DEF SameData, todo

LEMMA CanonicaliseData ==
    ASSUME CoreInv, NEW s \in Syncs, NEW i, NEW c \in Canonicals, Canonicalise(s, i, c)
    PROVE  /\ sync[s].pc = "committing" /\ Alone(s) /\ SameData(s)
           /\ sync'[s].pc = "committing"
           /\ i \in sync[s].todo /\ i.canon = NoCanonical /\ Agrees(i)
           /\ row' = [row EXCEPT ![i.id].canon = c, ![i.id].status = "linked"]
  <1> DEFINE item == [i EXCEPT !.canon = c]
             todo == (sync[s].todo \ {i}) \cup {item}
             r == [sync[s] EXCEPT !.todo = todo]
  <1>1. sync[s].pc = "committing" /\ sync[s] \in Activities /\ i \in sync[s].todo /\ To(s, r)
    BY DEF Canonicalise, Committing, CoreInv, Sound, SyncTypes, Sane
  <1>2. Agrees(i) /\ i \in Items
    BY <1>1 DEF CoreInv, Work, Faithful, Activities
  <1>3. /\ r.listed = sync[s].listed /\ r.pc = "committing" /\ r.batch = sync[s].batch
        /\ r.created = sync[s].created /\ r.todo = todo
    <2> HIDE DEF todo
    <2> QED BY <1>1 DEF Activities
  <1> HIDE DEF r, todo
  <1>5. sync'[s] = r /\ Alone(s)
    BY <1>1, ToFrame DEF CoreInv, Sound, Alone
  <1>6. i.canon = NoCanonical
        /\ row' = [row EXCEPT ![i.id].canon = c, ![i.id].status = "linked"]
    BY DEF Canonicalise, Link
  <1> QED BY <1>1, <1>2, <1>3, <1>5, <1>6 DEF SameData

LEMMA CanonicaliseItem ==
    ASSUME CoreInv, NEW s \in Syncs, NEW i, NEW c \in Canonicals, Canonicalise(s, i, c)
    PROVE  \E item : /\ item.canon = c
                     /\ sync'[s].todo = (sync[s].todo \ {i}) \cup {item}
  <1> DEFINE item == [i EXCEPT !.canon = c]
             todo == (sync[s].todo \ {i}) \cup {item}
             r == [sync[s] EXCEPT !.todo = todo]
  <1>1. sync[s].pc = "committing" /\ sync[s] \in Activities /\ i \in sync[s].todo /\ To(s, r)
    BY DEF Canonicalise, Committing, CoreInv, Sound, SyncTypes, Sane
  <1>2. item.canon = c
    BY <1>1 DEF Activities, Items
  <1>3. r.todo = todo
    <2> HIDE DEF todo
    <2> QED BY <1>1 DEF Activities
  <1> HIDE DEF r
  <1>4. sync'[s].todo = todo
    BY <1>1, <1>3, ToFrame DEF CoreInv, Sound
  <1> HIDE DEF item
  <1> QED BY <1>2, <1>4

-----------------------------------------------------------------------------
(* Whatever carries a version of a workflow, carries a version it had.     *)

Elements(q) == {q[n] : n \in DOMAIN q}

LEMMA BatchedElements == \A s \in Syncs : Batched(s) = Elements(sync[s].batch)
BY DEF Batched, Elements

LEMMA AppendElements ==
    ASSUME NEW q \in Seq(Fetchable), NEW e \in Fetchable
    PROVE  Elements(Append(q, e)) = Elements(q) \cup {e}
  <1>1. DOMAIN Append(q, e) = DOMAIN q \cup {Len(q) + 1}
    OBVIOUS
  <1>2. Append(q, e)[Len(q) + 1] = e /\ \A n \in DOMAIN q : Append(q, e)[n] = q[n]
    OBVIOUS
  <1> QED BY <1>1, <1>2 DEF Elements

LEMMA TailElements ==
    ASSUME NEW q \in Seq(Fetchable), q # <<>>
    PROVE  /\ Head(q) \in Elements(q)
           /\ Elements(Tail(q)) \subseteq Elements(q)
           /\ Elements(q) \subseteq Elements(Tail(q)) \cup {Head(q)}
  <1>1. DOMAIN q = 1..Len(q) /\ Len(q) \in Nat /\ Len(q) > 0 /\ Head(q) = q[1]
    OBVIOUS
  <1>2. DOMAIN Tail(q) = 1..(Len(q) - 1) /\ \A n \in DOMAIN Tail(q) : Tail(q)[n] = q[n + 1]
    OBVIOUS
  <1>3. Head(q) \in Elements(q)
    BY <1>1 DEF Elements
  <1>4. ASSUME NEW n \in DOMAIN Tail(q)
        PROVE  Tail(q)[n] \in Elements(q)
    <2>1. n + 1 \in DOMAIN q /\ Tail(q)[n] = q[n + 1]
      BY <1>1, <1>2
    <2> QED BY <2>1 DEF Elements
  <1>5. ASSUME NEW n \in DOMAIN q, n # 1
        PROVE  q[n] \in Elements(Tail(q))
    <2>1. n - 1 \in DOMAIN Tail(q) /\ Tail(q)[n - 1] = q[(n - 1) + 1] /\ (n - 1) + 1 = n
      BY <1>1, <1>2, <1>5
    <2>2. Tail(q)[n - 1] = q[n]
      BY <2>1
    <2> QED BY <2>1, <2>2 DEF Elements
  <1> QED BY <1>1, <1>3, <1>4, <1>5 DEF Elements

LEMMA EmptyElements == Elements(<<>>) = {}
BY DEF Elements

LEMMA BatchTyped ==
    ASSUME SyncTypes, NEW s \in Syncs
    PROVE  /\ sync[s].batch \in Seq(Fetchable)
           /\ \A b \in Batched(s) : b.id \in Ids /\ b.version \in Versions
  <1>1. sync[s].batch \in Seq(Fetchable)
    BY SaneParts DEF SyncTypes
  <1>2. \A b \in Batched(s) : b \in Fetchable
    BY <1>1 DEF Batched
  <1> QED BY <1>1, <1>2 DEF Fetchable

\* What may become of the workflows of n8n in a step.
Moves ==
    /\ clock' \in {clock, clock + 1}
    /\ \A w \in Ids :
        \/ flow'[w] = flow[w]
        \/ flow'[w] = Gone
        \/ /\ flow[w] # Gone
           /\ clock' = clock + 1
           /\ \E x \in Contents : flow'[w] = Version(x, clock + 1)

LEMMA DatedMoves ==
    ASSUME CoreInv, Moves, NEW w \in Ids, NEW v, v.at \in Nat, Dated(w, v)
    PROVE  Dated(w, v)'
  <1>1. clock \in Nat
    BY BoundsAssumption DEF CoreInv, Sound, OtherTypes
  <1>2. v.at <= clock'
    BY <1>1 DEF Moves, Dated
  <1>3. ASSUME Live(w)', v.at = flow'[w].at
        PROVE  v.content = flow'[w].content
    <2>1. flow'[w] # Gone
      BY <1>3 DEF Live, Gone
    <2>2. ASSUME NEW x \in Contents, flow'[w] = Version(x, clock + 1)
          PROVE  FALSE
      <3>1. flow'[w].at = clock + 1
        BY <2>2 DEF Version
      <3> QED BY <1>1, <1>3, <3>1 DEF Dated
    <2>3. flow'[w] = flow[w]
      BY <2>1, <2>2 DEF Moves
    <2> QED BY <1>3, <2>3 DEF Dated, Live
  <1> QED BY <1>2, <1>3 DEF Dated

DatedRows == \A w \in Ids : row'[w] # NoRow => Dated(w, row'[w])

DatedData(s) ==
    /\ \A w \in Ids : sync'[s].listed[w] # Gone => Dated(w, sync'[s].listed[w])
    /\ \A b \in Elements(sync'[s].batch) : Dated(b.id, b.version)

LEMMA VersionsKept ==
    ASSUME CoreInv, Sound', VersionsAgree, Moves, DatedRows, \A s \in Syncs : DatedData(s)
    PROVE  VersionsAgree'
  <1>1. clock \in Nat /\ MaxEvents \in Nat /\ 0..MaxEvents \subseteq Nat
    BY BoundsAssumption DEF CoreInv, Sound, OtherTypes
  <1>2. ASSUME NEW w \in Ids, Live(w)'
        PROVE  flow'[w].at <= clock'
    <2>1. flow'[w] # Gone
      BY <1>2 DEF Live, Gone
    <2>2. CASE flow'[w] = flow[w]
      <3>1. Live(w) /\ flow[w].at \in Nat
        <4>1. Live(w)
          BY <1>2, <2>2 DEF Live
        <4> QED BY <1>1, <4>1, LiveVersion DEF CoreInv, Sound, Versions
      <3> QED BY <1>1, <2>2, <3>1 DEF VersionsAgree, Moves
    <2>3. ASSUME clock' = clock + 1, NEW x \in Contents, flow'[w] = Version(x, clock + 1)
          PROVE  flow'[w].at <= clock'
      BY <1>1, <2>3 DEF Version
    <2> QED BY <2>1, <2>2, <2>3 DEF Moves
  <1>3. ASSUME NEW w \in Ids, row'[w] # NoRow
        PROVE  Dated(w, row[w])'
    <2>1. row'[w] \in Rows
      BY <1>3 DEF Sound, RowTypes
    <2>2. PICK v : v = row'[w]
      OBVIOUS
    <2>3. v.at \in Nat /\ Dated(w, v)
      BY <1>1, <1>3, <2>1, <2>2 DEF Rows, DatedRows
    <2>4. Dated(w, v)'
      BY <2>3, DatedMoves
    <2> QED BY <2>2, <2>4 DEF Dated
  <1>4. ASSUME NEW s \in Syncs, NEW w \in Ids, sync'[s].listed[w] # Gone
        PROVE  Dated(w, sync[s].listed[w])'
    <2>1. sync'[s].listed[w] \in Versions
      BY <1>4, SaneParts DEF Sound, SyncTypes
    <2>2. PICK v : v = sync'[s].listed[w]
      OBVIOUS
    <2>3. v.at \in Nat /\ Dated(w, v)
      BY <1>1, <1>4, <2>1, <2>2 DEF Versions, DatedData
    <2>4. Dated(w, v)'
      BY <2>3, DatedMoves
    <2> QED BY <2>2, <2>4 DEF Dated
  <1>5. ASSUME NEW s \in Syncs, NEW b \in Batched(s)'
        PROVE  Dated(b.id, b.version)'
    <2>1. b \in Elements(sync'[s].batch)
      BY <1>5 DEF Batched, Elements
    <2>2. sync'[s].batch \in Seq(Fetchable)
      BY SaneParts DEF Sound, SyncTypes
    <2>3. b.id \in Ids /\ b.version \in Versions
      <3>1. b \in Fetchable
        BY <2>1, <2>2 DEF Elements
      <3> QED BY <3>1 DEF Fetchable
    <2>4. b.version.at \in Nat /\ Dated(b.id, b.version)
      BY <1>1, <2>1, <2>3 DEF Versions, DatedData
    <2> QED BY <2>3, <2>4, DatedMoves
  <1> QED BY <1>2, <1>3, <1>4, <1>5 DEF VersionsAgree

\* A step that leaves the data of the syncs alone.
LEMMA DataSame ==
    ASSUME CoreInv, Sound', DataInv, Moves, sync' = sync, DatedRows,
           \A w \in deleting' : flow'[w] = Gone
    PROVE  DataInv'
  <1>1. \A s \in Syncs : DatedData(s)
    BY DEF DatedData, DataInv, VersionsAgree, Batched, Elements
  <1>2. \A s \in Syncs : HandlesListed(s)'
    BY DEF DataInv, HandlesListed, Batched, Observed
  <1> QED BY <1>1, <1>2, VersionsKept DEF DataInv

\* A step of one sync.
LEMMA DataMoved ==
    ASSUME CoreInv, Sound', DataInv, UNCHANGED <<flow, deleting>>, clock' \in {clock, clock + 1},
           DatedRows, NEW s \in Syncs, Alone(s), DatedData(s), HandlesListed(s)'
    PROVE  DataInv'
  <1>1. Moves
    BY DEF Moves
  <1>2. \A v \in Syncs : DatedData(v)
    BY DEF DatedData, DataInv, VersionsAgree, Batched, Elements, Alone
  <1>3. \A v \in Syncs : HandlesListed(v)'
    BY DEF DataInv, HandlesListed, Batched, Observed, Alone
  <1> QED BY <1>1, <1>2, <1>3, VersionsKept DEF DataInv

LEMMA RowsDated ==
    ASSUME DataInv, row' = row
    PROVE  DatedRows
BY DEF DatedRows, DataInv, VersionsAgree

\* A row that keeps its version stays dated.
LEMMA RowsStayDated ==
    ASSUME DataInv,
           \A w \in Ids : row'[w] # NoRow =>
               /\ row[w] # NoRow
               /\ row'[w].at = row[w].at
               /\ row'[w].content = row[w].content
    PROVE  DatedRows
BY DEF DatedRows, DataInv, VersionsAgree, Dated

LEMMA SameDataDated ==
    ASSUME DataInv, NEW s \in Syncs, SameData(s)
    PROVE  DatedData(s)
BY DEF DatedData, DataInv, VersionsAgree, Batched, Elements, SameData

LEMMA EmptyDataHandled ==
    ASSUME NEW s \in Syncs, EmptyData(s)
    PROVE  DatedData(s) /\ HandlesListed(s)'
  <1>1. Elements(sync'[s].batch) = {} /\ Batched(s)' = {}
    BY EmptyElements DEF EmptyData, Batched, Elements
  <1> QED BY <1>1 DEF EmptyData, DatedData, HandlesListed

LEMMA InitData == Init => DataInv
  <1> SUFFICES ASSUME Init PROVE DataInv
    OBVIOUS
  <1>1. \A s \in Syncs : /\ sync[s].batch = <<>> /\ sync[s].created = {} /\ sync[s].todo = {}
                         /\ sync[s].pc = "idle" /\ \A w \in Ids : sync[s].listed[w] = Gone
    BY DEF Init, Idle
  <1>2. \A s \in Syncs : Batched(s) = {}
    BY <1>1, EmptyElements, BatchedElements
  <1>3. \A w \in Ids : Live(w) => flow[w].at <= clock
    BY DEF Init, Live, Unborn, Version
  <1>4. VersionsAgree
    BY <1>1, <1>2, <1>3 DEF VersionsAgree, Init
  <1>5. \A s \in Syncs : HandlesListed(s)
    BY <1>1, <1>2 DEF HandlesListed
  <1> QED BY <1>4, <1>5 DEF DataInv, Init

LEMMA ClockMoves ==
    ASSUME CoreInv
    PROVE  /\ Ticks => clock' = clock + 1
           /\ \A fault : Fails(fault) => clock' = clock + 1
BY DEF Ticks, Fails

LEMMA UsersData ==
    ASSUME CoreInv, DataInv, UserActs
    PROVE  DataInv'
  <1>0. Sound'
    BY UsersTyped DEF CoreInv
  <1>1. sync' = sync
    BY DEF UserActs, CreateFlow, EditFlow, RemoveFlow, DeleteFlow, MarkDeleted,
           MarkDeletedFails, ArchiveWorkflow, UnarchiveWorkflow, SetStatus
  <1> PICK w \in Ids :
        \/ \E x \in Contents : CreateFlow(w, x)
        \/ \E x \in Contents : EditFlow(w, x)
        \/ RemoveFlow(w)
        \/ DeleteFlow(w)
        \/ MarkDeleted(w)
        \/ MarkDeletedFails(w)
        \/ ArchiveWorkflow(w)
        \/ UnarchiveWorkflow(w)
    BY DEF UserActs
  <1>2. ASSUME NEW x \in Contents, CreateFlow(w, x) \/ EditFlow(w, x)
        PROVE  DataInv'
    <2>1. /\ flow[w] # Gone /\ clock' = clock + 1
          /\ flow' = [flow EXCEPT ![w] = Version(x, clock + 1)]
          /\ row' = row /\ deleting' = deleting
      BY <1>2 DEF CreateFlow, EditFlow, Live, Unborn, Gone, Ticks, rows
    <2>2. Moves
      BY <2>1 DEF Moves, CoreInv, Sound, OtherTypes
    <2>3. \A v \in deleting' : flow'[v] = Gone
      BY <2>1 DEF DataInv, CoreInv, Sound, OtherTypes, RowTypes
    <2> QED BY <1>0, <1>1, <2>1, <2>2, <2>3, RowsDated, DataSame
  <1>3. ASSUME RemoveFlow(w) \/ DeleteFlow(w)
        PROVE  DataInv'
    <2>1. /\ clock' = clock + 1 /\ flow' = [flow EXCEPT ![w] = Gone]
          /\ row' = row /\ deleting' \subseteq deleting \cup {w}
      BY <1>3 DEF RemoveFlow, DeleteFlow, Ticks, rows
    <2>2. Moves
      BY <2>1 DEF Moves, CoreInv, Sound, OtherTypes
    <2>3. \A v \in deleting' : flow'[v] = Gone
      BY <2>1 DEF DataInv, CoreInv, Sound, OtherTypes, RowTypes
    <2> QED BY <1>0, <1>1, <2>1, <2>2, <2>3, RowsDated, DataSame
  <1>4. ASSUME MarkDeleted(w) \/ MarkDeletedFails(w)
        PROVE  DataInv'
    <2>1. /\ clock' \in {clock, clock + 1} /\ flow' = flow
          /\ row' = row \/ row' = [row EXCEPT ![w] = NoRow]
          /\ deleting' \subseteq deleting
      BY <1>4 DEF MarkDeleted, MarkDeletedFails, Fails, Ticks
    <2>2. Moves
      BY <2>1 DEF Moves
    <2>3. DatedRows
      BY <2>1, RowsStayDated DEF CoreInv, Sound, RowTypes
    <2>4. \A v \in deleting' : flow'[v] = Gone
      BY <2>1 DEF DataInv
    <2> QED BY <1>0, <1>1, <2>2, <2>3, <2>4, DataSame
  <1>5. ASSUME NEW status, SetStatus(w, status)
        PROVE  DataInv'
    <2>1. /\ clock' = clock + 1 /\ flow' = flow /\ deleting' = deleting /\ row[w] # NoRow
          /\ row' = [row EXCEPT ![w].status = status]
      BY <1>5 DEF SetStatus, Ticks
    <2>2. Moves
      BY <2>1 DEF Moves
    <2>3. row[w] \in Rows
      BY <2>1, RowTyped DEF CoreInv, Sound
    <2>4. DatedRows
      <3>1. [row[w] EXCEPT !.status = status].at = row[w].at
            /\ [row[w] EXCEPT !.status = status].content = row[w].content
        BY <2>3 DEF Rows
      <3> QED BY <2>1, <3>1, RowsStayDated DEF CoreInv, Sound, RowTypes
    <2>5. \A v \in deleting' : flow'[v] = Gone
      BY <2>1 DEF DataInv
    <2> QED BY <1>0, <1>1, <2>2, <2>4, <2>5, DataSame
  <1> QED BY <1>2, <1>3, <1>4, <1>5 DEF ArchiveWorkflow, UnarchiveWorkflow

\* A sync begins, or is over.
LEMMA IdleKeepsData ==
    ASSUME CoreInv, Sound', DataInv, NEW s \in Syncs,
           To(s, Idle) \/ To(s, [Idle EXCEPT !.pc = "listing"]),
           UNCHANGED <<flow, row, deleting>>, clock' \in {clock, clock + 1}
    PROVE  DataInv'
BY IdleData, EmptyDataHandled, RowsDated, DataMoved

LEMMA ListKeepsData ==
    ASSUME CoreInv, DataInv, NEW s \in Syncs, List(s)
    PROVE  DataInv'
  <1>0. Sound'
    BY ListTyped DEF CoreInv
  <1>1. UNCHANGED <<flow, row, deleting, clock>>
    BY DEF List, rows
  <1>2. sync[s].batch = <<>> /\ sync[s].created = {}
    BY ListData DEF DataInv, HandlesListed
  <1>3. Elements(sync'[s].batch) = {} /\ Batched(s)' = {}
    BY <1>2, ListData, EmptyElements DEF Batched, Elements
  <1>4. HandlesListed(s)'
    <2>1. sync'[s].pc = "marking" => sync'[s].left = {}
      BY ListData
    <2>2. sync'[s].pc \notin {"idle", "listing"}
      BY ListData
    <2> QED BY <1>2, <1>3, <2>1, <2>2, ListData DEF HandlesListed
  <1>5. DatedData(s)
    <2>1. ASSUME NEW w \in Ids, Live(w)
          PROVE  Dated(w, flow[w])
      BY <2>1 DEF DataInv, VersionsAgree, Dated
    <2>2. \A w \in Ids : sync'[s].listed[w] = IF Live(w) THEN flow[w] ELSE Gone
      <3>1. sync'[s].listed = Listing
        BY ListData
      <3> QED BY <3>1 DEF Listing
    <2> QED BY <1>3, <2>1, <2>2 DEF DatedData
  <1> QED BY <1>0, <1>1, <1>4, <1>5, ListData, RowsDated, DataMoved

LEMMA FetchKeepsData ==
    ASSUME CoreInv, DataInv, NEW s \in Syncs, NEW w \in Ids, Fetch(s, w) \/ FetchFails(s, w)
    PROVE  DataInv'
  <1>0. Sound'
    BY FetchTyped DEF CoreInv
  <1>1. UNCHANGED <<flow, row, deleting>> /\ clock' \in {clock, clock + 1}
    BY DEF Fetch, FetchFails, Fails, Ticks, rows
  <1>2. PICK v : Fetched(s, w, v) /\ (v = sync[s].listed[w] \/ (Live(w) /\ v = flow[w]))
    BY DEF Fetch, FetchFails
  <1> DEFINE e == [id |-> w, version |-> v]
  <1>13. /\ w \in sync[s].left /\ Alone(s)
        /\ sync'[s].listed = sync[s].listed
        /\ sync'[s].batch = Append(sync[s].batch, e)
        /\ sync'[s].created = sync[s].created
        /\ sync'[s].todo = {}
        /\ sync'[s].pc \in {"fetching", "processing"}
    BY <1>2, FetchedData
  <1>3. sync[s].listed[w] # Gone
    BY <1>13, SaneParts DEF CoreInv, Sound, SyncTypes, Coherent
  <1>4. v \in Versions /\ Dated(w, v)
    <2>1. CASE v = sync[s].listed[w]
      BY <1>3, <2>1, SaneParts DEF DataInv, VersionsAgree, CoreInv, Sound, SyncTypes
    <2>2. CASE Live(w) /\ v = flow[w]
      BY <2>2, LiveVersion DEF DataInv, VersionsAgree, Dated, CoreInv, Sound
    <2> QED BY <1>2, <2>1, <2>2
  <1>5. Elements(sync'[s].batch) = Elements(sync[s].batch) \cup {e}
    <2>1. e \in Fetchable /\ sync[s].batch \in Seq(Fetchable)
      BY <1>4, BatchTyped DEF Fetchable, CoreInv, Sound
    <2> HIDE DEF e
    <2> QED BY <1>13, <2>1, AppendElements
  <1>6. Batched(s) = Elements(sync[s].batch) /\ Batched(s)' = Elements(sync'[s].batch)
    BY DEF Batched, Elements
  <1>7. HandlesListed(s)'
    <2>1. \A b \in Batched(s)' : b.id \in Observed(s)
      BY <1>3, <1>5, <1>6 DEF DataInv, HandlesListed, Observed
    <2>2. Observed(s)' = Observed(s)
      BY <1>13 DEF Observed
    <2> QED BY <1>13, <2>1, <2>2 DEF HandlesListed, DataInv
  <1>8. DatedData(s)
    <2>1. \A b \in Elements(sync'[s].batch) : Dated(b.id, b.version)
      BY <1>4, <1>5, <1>6 DEF DataInv, VersionsAgree
    <2> QED BY <1>13, <2>1 DEF DatedData, DataInv, VersionsAgree
  <1> QED BY <1>0, <1>1, <1>13, <1>7, <1>8, RowsDated, DataMoved

\* What processing a workflow does to its row.
LEMMA ProcessRow ==
    ASSUME CoreInv, NEW s \in Syncs, Process(s)
    PROVE  /\ Processing(s)
           /\ Current(s).id \in Ids /\ Current(s).version \in Versions
           /\ \E created \in SUBSET {Current(s).id}, result \in {"clean", "failed"} :
                Processed(s, created, result)
           /\ UNCHANGED <<flow, deleting, held, gitState>> /\ clock' \in {clock, clock + 1}
           /\ \A w \in Ids \ {Current(s).id} : row'[w] = row[w]
           /\ \/ row' = row
              \/ /\ row'[Current(s).id] \in Rows
                 /\ row'[Current(s).id].content = Current(s).version.content
                 /\ row'[Current(s).id].at = Current(s).version.at
                 /\ row'[Current(s).id].status # "missing"
  <1>1. Processing(s)
    BY DEF Process, Skip, Update, InsertLinked, InsertRefused, InsertUnmapped, ProcessFails
  <1>2. PICK w \in Ids : w = Current(s).id
    BY <1>1, CurrentTyped DEF CoreInv, Sound
  <1>3. PICK version \in Versions : version = Current(s).version
    BY <1>1, CurrentTyped DEF CoreInv, Sound
  <1>4. \E created \in SUBSET {w}, result \in {"clean", "failed"} : Processed(s, created, result)
    <2>1. Created(s, w) \in SUBSET {w}
      BY DEF Created
    <2> QED BY <1>2, <2>1 DEF Process, Skip, Update, InsertLinked, InsertRefused,
                              InsertUnmapped, ProcessFails
  <1>5. UNCHANGED <<flow, deleting, held, gitState>> /\ clock' \in {clock, clock + 1}
    BY DEF Process, Skip, Update, InsertLinked, InsertRefused, InsertUnmapped, ProcessFails,
           NotFound, Fails, Ticks, rows, git
  <1>6. version.content \in Contents /\ version.at \in 0..MaxEvents
    BY DEF Versions
  <1>7. ASSUME NEW status \in {"linked", "unmapped", "ignored"},
               NEW canon \in Canonicals \cup {NoCanonical},
               row' = [row EXCEPT ![w] = [status |-> status, canon |-> canon,
                                          content |-> version.content, at |-> version.at]]
        PROVE  /\ \A v \in Ids \ {w} : row'[v] = row[v]
               /\ row'[w] \in Rows
               /\ row'[w].content = version.content
               /\ row'[w].at = version.at
               /\ row'[w].status # "missing"
    BY <1>6, <1>7 DEF Rows, CoreInv, Sound, RowTypes
  <1>8. \/ row' = row
        \/ \E status \in {"linked", "unmapped", "ignored"},
              canon \in Canonicals \cup {NoCanonical} :
             row' = [row EXCEPT ![w] = [status |-> status, canon |-> canon,
                                        content |-> version.content, at |-> version.at]]
    <2>1. row[w] # NoRow => row[w].canon \in Canonicals \cup {NoCanonical}
                            /\ Reappeared(row[w]) \in {"linked", "unmapped", "ignored"}
      BY RowTyped DEF CoreInv, Sound, Rows, Reappeared
    <2>2. CASE Update(s)
      BY <1>2, <1>3, <2>1, <2>2 DEF Update
    <2>3. ASSUME NEW c \in Canonicals, InsertLinked(s, c)
          PROVE  row' = [row EXCEPT ![w] = [status |-> "linked", canon |-> c,
                                     content |-> version.content, at |-> version.at]]
      BY <1>2, <1>3, <2>3 DEF InsertLinked
    <2>4. CASE InsertUnmapped(s)
      BY <1>2, <1>3, <2>1, <2>4 DEF InsertUnmapped
    <2> QED BY <2>2, <2>3, <2>4 DEF Process, Skip, InsertRefused, ProcessFails, rows
  <1> QED BY <1>1, <1>2, <1>3, <1>4, <1>5, <1>7, <1>8

LEMMA ProcessKeepsData ==
    ASSUME CoreInv, DataInv, NEW s \in Syncs, Process(s)
    PROVE  DataInv'
  <1>0. Sound'
    BY ProcessTyped DEF CoreInv
  <1>1. PICK w : w = Current(s).id
    OBVIOUS
  <1>2. PICK version : version = Current(s).version
    OBVIOUS
  <1>3. PICK created \in SUBSET {w}, result \in {"clean", "failed"} : Processed(s, created, result)
    BY <1>1, ProcessRow
  <1>4. Processing(s) /\ created \in SUBSET Ids
    BY <1>1, ProcessRow
  <1>13. /\ Alone(s)
         /\ sync'[s].listed = sync[s].listed
         /\ sync'[s].created = sync[s].created \cup created
         /\ sync'[s].todo = {}
         /\ sync'[s].pc \in {"fetching", "processing", "marking"}
    BY <1>3, <1>4, ProcessedData
  <1>14. /\ sync[s].batch # <<>> /\ sync'[s].batch = Tail(sync[s].batch)
         /\ sync'[s].pc = "marking" => sync'[s].left = {} /\ sync'[s].batch = <<>>
    BY <1>3, <1>4, ProcessedData
  <1>5. sync[s].batch \in Seq(Fetchable) /\ sync[s].batch # <<>>
    BY <1>14, BatchTyped DEF CoreInv, Sound
  <1>6. Batched(s) = Elements(sync[s].batch) /\ Batched(s)' = Elements(sync'[s].batch)
    BY DEF Batched, Elements
  <1>7. Current(s) \in Batched(s) /\ Batched(s)' \subseteq Batched(s)
    BY <1>14, <1>5, <1>6, TailElements DEF Current
  <1>8. w \in Observed(s) /\ Dated(w, version)
    BY <1>1, <1>2, <1>7 DEF DataInv, VersionsAgree, HandlesListed
  <1>9. DatedRows
    <2>1. CASE row' = row
      BY <2>1, RowsDated
    <2>2. CASE row'[w].content = version.content /\ row'[w].at = version.at
      BY <1>1, <1>8, <2>2, ProcessRow DEF DatedRows, Dated, DataInv, VersionsAgree
    <2> QED BY <1>1, <1>2, <2>1, <2>2, ProcessRow
  <1>10. DatedData(s)
    BY <1>13, <1>6, <1>7 DEF DatedData, DataInv, VersionsAgree
  <1>11. HandlesListed(s)'
    <2>1. Observed(s)' = Observed(s)
      BY <1>13 DEF Observed
    <2>2. created \subseteq Observed(s)
      BY <1>1, <1>3, <1>8
    <2> QED BY <1>13, <1>14, <1>7, <2>1, <2>2 DEF HandlesListed, DataInv
  <1>12. UNCHANGED <<flow, deleting>> /\ clock' \in {clock, clock + 1}
    BY ProcessRow
  <1> QED BY <1>0, <1>13, <1>9, <1>10, <1>11, <1>12, DataMoved

LEMMA MarkKeepsData ==
    ASSUME CoreInv, DataInv, NEW s \in Syncs, Mark(s) \/ MarkFails(s)
    PROVE  DataInv'
  <1>0. Sound'
    BY MarkTyped DEF CoreInv
  <1>1. PICK some \in SUBSET Vanished(s), result \in {"clean", "failed"} :
          MarkMissing(s, some, result)
    BY DEF Mark, MarkFails
  <1>2. UNCHANGED <<flow, deleting>> /\ clock' \in {clock, clock + 1}
    BY DEF Mark, MarkFails, MarkMissing, Fails, Ticks
  <1>3. DatedRows
    <2>1. \A w \in Ids : row'[w] = IF w \in some THEN [row[w] EXCEPT !.status = "missing"]
                                   ELSE row[w]
      BY <1>1 DEF MarkMissing
    <2>2. \A w \in some : row[w] \in Rows /\ row[w] # NoRow
      BY <1>1, RowTyped DEF Vanished, CoreInv, Sound
    <2>3. \A w \in some : [row[w] EXCEPT !.status = "missing"].at = row[w].at
                          /\ [row[w] EXCEPT !.status = "missing"].content = row[w].content
      BY <2>2 DEF Rows
    <2> QED BY <2>1, <2>2, <2>3, RowsStayDated
  <1>4. CASE EmptyData(s)
    BY <1>0, <1>1, <1>2, <1>3, <1>4, MarkData, EmptyDataHandled, DataMoved
  <1>5. CASE SameData(s) /\ sync'[s].pc = "planning" /\ sync'[s].todo = {}
    <2>1. HandlesListed(s)'
      BY <1>5 DEF SameData, HandlesListed, DataInv, Batched, Observed
    <2> QED BY <1>0, <1>1, <1>2, <1>3, <1>5, <2>1, MarkData, SameDataDated, DataMoved
  <1> QED BY <1>1, <1>4, <1>5, MarkData

LEMMA BackupKeepsData ==
    ASSUME CoreInv, DataInv, NEW s \in Syncs, Backup(s)
    PROVE  DataInv'
  <1>0. Sound'
    BY StepCore DEF Next, Step, CoreInv
  <1>1. UNCHANGED <<flow, deleting>> /\ clock' \in {clock, clock + 1}
    BY DEF Backup, Plan, Canonicalise, CanonicaliseFails, Commit, CommitFails, Finish,
           Fails, Ticks, rows
  <1>2. CASE Plan(s)
    <2>1. row' = row
      BY <1>2 DEF Plan, rows
    <2>2. \A i \in sync'[s].todo : i.canon = NoCanonical => i.id \in Observed(s)
      <3>1. \A w : Item(w).id = w /\ Item(w).canon = row[w].canon
        BY DEF Item
      <3>2. \A w \in ToCommit(s) : row[w].canon # NoCanonical
        BY DEF ToCommit
      <3>3. ToBootstrap(s) \subseteq Observed(s) /\ ToCanonicalise(s) \subseteq Observed(s)
        BY DEF ToBootstrap, ToCanonicalise, DataInv, HandlesListed
      <3> QED BY <1>2, <3>1, <3>2, <3>3, PlanData
    <2>3. HandlesListed(s)'
      BY <1>2, <2>2, PlanData DEF SameData, HandlesListed, DataInv, Batched, Observed
    <2> QED BY <1>0, <1>1, <1>2, <2>1, <2>3, PlanData, RowsDated, SameDataDated, DataMoved
  <1>3. ASSUME NEW i, Commit(s, i) \/ CommitFails(s, i) \/ CanonicaliseFails(s, i)
        PROVE  DataInv'
    <2>1. row' = row
      BY <1>3 DEF Commit, CommitFails, CanonicaliseFails, rows
    <2>2. HandlesListed(s)'
      BY <1>3, CommitData DEF SameData, HandlesListed, DataInv, Batched, Observed
    <2> QED BY <1>0, <1>1, <1>3, <2>1, <2>2, CommitData, RowsDated, SameDataDated, DataMoved
  <1>4. ASSUME NEW i, NEW c \in Canonicals, Canonicalise(s, i, c)
        PROVE  DataInv'
    <2>1. DatedRows
      <3>1. row[i.id] # NoRow /\ row' = [row EXCEPT ![i.id].canon = c, ![i.id].status = "linked"]
        BY <1>4, CanonicaliseData DEF Agrees
      <3>2. ASSUME NEW w \in Ids, w = i.id
            PROVE  row'[w].at = row[w].at /\ row'[w].content = row[w].content
        <4>1. row[w] \in Rows
          BY <3>1, <3>2, RowTyped DEF CoreInv, Sound
        <4> QED BY <3>1, <3>2, <4>1 DEF Rows, CoreInv, Sound, RowTypes
      <3>3. \A w \in Ids : w # i.id => row'[w] = row[w]
        BY <3>1 DEF CoreInv, Sound, RowTypes
      <3> QED BY <3>1, <3>2, <3>3, RowsStayDated
    <2>2. HandlesListed(s)'
      <3>1. /\ SameData(s) /\ sync'[s].pc = "committing"
        BY <1>4, CanonicaliseData
      <3>4. PICK item : item.canon = c /\ sync'[s].todo = (sync[s].todo \ {i}) \cup {item}
        BY <1>4, CanonicaliseItem
      <3>2. item.canon # NoCanonical
        BY <3>4, ValuesAssumption
      <3>3. \A j \in sync'[s].todo : j.canon = NoCanonical => j.id \in Observed(s)
        BY <3>2, <3>4 DEF DataInv, HandlesListed
      <3> QED BY <3>1, <3>3 DEF SameData, HandlesListed, DataInv, Batched, Observed
    <2> QED BY <1>0, <1>1, <1>4, <2>1, <2>2, CanonicaliseData, SameDataDated, DataMoved
  <1>5. CASE Finish(s)
    BY <1>0, <1>1, <1>5, IdleKeepsData DEF Finish, rows
  <1> QED BY <1>2, <1>3, <1>4, <1>5 DEF Backup

LEMMA OutsideData ==
    ASSUME CoreInv, DataInv,
           \/ \E c \in Canonicals : RepoSync(c)
           \/ \E c \in Canonicals, x \in Contents : Push(c, x)
           \/ Crash
           \/ UNCHANGED vars
    PROVE  DataInv'
  <1>0. Sound'
    BY StepCore DEF Next, CoreInv
  <1>1. row' = row /\ flow' = flow /\ clock' \in {clock, clock + 1} /\ deleting' \subseteq deleting
    BY DEF RepoSync, Push, Crash, Fails, Ticks, vars, rows
  <1>2. Moves /\ DatedRows /\ \A w \in deleting' : flow'[w] = Gone
    BY <1>1, RowsDated DEF Moves, DataInv
  <1>3. CASE sync' = sync
    BY <1>0, <1>2, <1>3, DataSame
  <1>4. CASE Crash
    <2>1. \A s \in Syncs : EmptyData(s)
      BY <1>4 DEF Crash, EmptyData, Idle
    <2>2. \A s \in Syncs : DatedData(s) /\ HandlesListed(s)'
      BY <2>1, EmptyDataHandled
    <2> QED BY <1>0, <1>2, <2>2, VersionsKept DEF DataInv
  <1> QED BY <1>3, <1>4 DEF RepoSync, Push, vars

LEMMA StepData == CoreInv /\ DataInv /\ [Next]_vars => DataInv'
  <1> SUFFICES ASSUME CoreInv, DataInv, [Next]_vars PROVE DataInv'
    OBVIOUS
  <1>0. Sound'
    BY StepCore DEF CoreInv
  <1>1. ASSUME NEW s \in Syncs, Begin(s) \/ ListFails(s) \/ Abort(s)
        PROVE  DataInv'
    <2>1. UNCHANGED <<flow, row, deleting>> /\ clock' \in {clock, clock + 1}
          /\ (To(s, Idle) \/ To(s, [Idle EXCEPT !.pc = "listing"]))
      BY <1>1 DEF Begin, ListFails, Abort, Fails, Ticks, rows
    <2> QED BY <1>0, <2>1, IdleKeepsData
  <1>2. ASSUME NEW s \in Syncs, Step(s)
        PROVE  DataInv'
    BY <1>1, <1>2, ListKeepsData, FetchKeepsData, ProcessKeepsData, MarkKeepsData,
       BackupKeepsData DEF Step
  <1> QED BY <1>1, <1>2, UsersData, OutsideData DEF Next

LEMMA DataAlways == Spec => []DataInv
  <1> QED BY InitData, StepData, CoreAlways, PTL DEF Spec

-----------------------------------------------------------------------------
(* The safety part of RowsMirror.                                          *)

AllUpToDate == \A t \in Syncs : UpToDate(t)

LEMMA AccurateSettles == Accurate <=> \A w \in Ids : Settles(w, FALSE)
  <1>1. \A w \in Ids : Overlooked(w) => row[w] # NoRow
    BY DEF Overlooked
  <1>2. \A w \in Ids : Mirrored(w) /\ Live(w) => row[w] # NoRow
    BY DEF Mirrored
  <1> QED BY <1>1, <1>2 DEF Accurate, Settles

LEMMA AccurateSettlesNext == (\A w \in Ids : Settles(w, FALSE)') => Accurate'
BY DEF Accurate, Settles, Overlooked, Mirrored

LEMMA MirrorSettles == Mirror <=> \A w \in Ids : Settles(w, TRUE)
BY DEF Mirror, Settles

LEMMA StrictSettles ==
    ASSUME NEW w \in Ids, Settles(w, TRUE)
    PROVE  Settles(w, FALSE)
BY DEF Settles, Shadowed

LEMMA MirrorAccurate == Mirror => Accurate
BY AccurateSettles, MirrorSettles, StrictSettles

LEMMA NoTick ==
    ASSUME CoreInv, Undisturbed
    PROVE  ~Ticks /\ \A fault : ~Fails(fault)
BY BoundsAssumption DEF CoreInv, Sound, OtherTypes, Undisturbed, Ticks, Fails

\* What can become of a row.
Stays(w) == row'[w] = row[w]
Deleted(w) ==
    /\ row'[w] = NoRow
    /\ ~Live(w)
    /\ \A c \in Canonicals : Holds(w, c) => c \in held'
Refreshed(w) ==
    /\ Live(w)
    /\ row'[w] # NoRow
    /\ row'[w].status # "missing"
    /\ row'[w].content = flow[w].content
    /\ row[w] # NoRow => row'[w].canon = row[w].canon
    /\ row[w] = NoRow => \A c \in Canonicals : Holds(w, c)' => Admits(w, c)
Missed(w) ==
    /\ ~Live(w)
    /\ row[w] # NoRow
    /\ row'[w] # NoRow
    /\ row'[w].status = "missing"
    /\ row'[w].canon = row[w].canon
Canonicalised(w) ==
    /\ Live(w)
    /\ row[w] # NoRow
    /\ row[w].canon = NoCanonical
    /\ row'[w] # NoRow
    /\ row'[w].status = "linked"
    /\ row'[w].content = row[w].content
    /\ row'[w].at = row[w].at
    /\ \A c \in Canonicals : Holds(w, c)' => c \notin canonicals

QuietRows ==
    /\ held \subseteq held'
    /\ \A w \in Ids :
        Stays(w) \/ Deleted(w) \/ Refreshed(w) \/ Missed(w) \/ Canonicalised(w)

LEMMA KnownContent ==
    ASSUME CoreInv, NEW w \in Ids, Live(w), NEW c \in Candidates(w, flow[w].content)
    PROVE  c \in Canonicals /\ gitState[c] = flow[w].content /\ c \in canonicals
  <1>1. c \in Canonicals /\ gitState[c] = flow[w].content
    BY DEF Candidates
  <1>2. flow[w].content # Nothing
    BY LiveVersion, ValuesAssumption DEF CoreInv, Sound, Versions
  <1> QED BY <1>1, <1>2 DEF CoreInv, Mapped, Known

\* A canonical that only missing rows hold stays so, and none is given it.
LEMMA ShadowedKept ==
    ASSUME CoreInv, Accurate, QuietRows, flow' = flow, Undisturbed,
           NEW w \in Ids, Shadowed(w), row'[w] = NoRow
    PROVE  Shadowed(w)'
  <1>1. PICK c \in Candidates(w, flow[w].content) : ~Admits(w, c)
    BY DEF Shadowed
  <1>2. c \in Canonicals /\ gitState[c] = flow[w].content /\ c \in canonicals
    BY <1>1, KnownContent DEF Shadowed
  <1>3. /\ \A d \in Canonicals : gitState[d] = flow[w].content <=> d = c
        /\ \A v \in Ids \ {w} : Holds(v, c) => row[v].status = "missing"
    BY <1>1 DEF Candidates
  <1>4. ASSUME NEW v \in Ids \ {w}, Holds(v, c)'
        PROVE  row'[v].status = "missing"
    <2>1. CASE Stays(v)
      BY <1>3, <1>4, <2>1 DEF Stays, Holds
    <2>2. ~Deleted(v)
      BY <1>4 DEF Deleted, Holds
    <2>3. ~Refreshed(v)
      <3>1. CASE row[v] = NoRow
        <4>1. Refreshed(v) => Admits(v, c)
          BY <1>2, <1>4, <3>1 DEF Refreshed
        <4>2. Admits(v, c) => Admits(w, c)
          BY <3>1 DEF Admits, Holds
        <4> QED BY <1>1, <4>1, <4>2
      <3>2. CASE row[v] # NoRow
        <4>1. Refreshed(v) => Holds(v, c) /\ Live(v)
          BY <1>4, <3>2 DEF Refreshed, Holds
        <4>2. Live(v) => row[v].status # "missing"
          BY <3>2 DEF Accurate, Mirrored, Overlooked
        <4> QED BY <1>3, <4>1, <4>2
      <3> QED BY <3>1, <3>2
    <2>4. CASE Missed(v)
      BY <2>4 DEF Missed
    <2>5. ~Canonicalised(v)
      BY <1>2, <1>4 DEF Canonicalised
    <2> QED BY <2>1, <2>2, <2>3, <2>4, <2>5 DEF QuietRows
  <1>5. (c \in Candidates(w, flow[w].content))'
    BY <1>2, <1>3, <1>4 DEF Undisturbed, Candidates
  <1>6. ~Admits(w, c)'
    <2>1. CASE c \in held
      BY <2>1 DEF QuietRows, Admits
    <2>2. CASE c \notin held
      <3>1. PICK v \in Ids \ {w} : Holds(v, c)
        BY <1>1, <2>2 DEF Admits
      <3>2. Holds(v, c)' \/ c \in held'
        BY <1>2, <3>1, ValuesAssumption
           DEF QuietRows, Stays, Deleted, Refreshed, Missed, Canonicalised, Holds
      <3> QED BY <3>1, <3>2 DEF Admits
    <2> QED BY <2>1, <2>2
  <1>7. Live(w)'
    BY DEF Shadowed, Live
  <1>8. \E d \in Canonicals : d = c /\ (d \in Candidates(w, flow[w].content))' /\ ~Admits(w, d)'
    BY <1>2, <1>5, <1>6
  <1> QED BY <1>7, <1>8 DEF Shadowed

\* Such steps leave alone what shows n8n or is shadowed.
LEMMA SettlesKept ==
    ASSUME CoreInv, QuietRows, flow' = flow, Undisturbed,
           NEW strict \in BOOLEAN, strict => Accurate, NEW w \in Ids, Settles(w, strict)
    PROVE  Settles(w, strict)'
  <1>2. CASE Mirrored(w)
    BY <1>2 DEF QuietRows, Stays, Deleted, Refreshed, Missed, Canonicalised, Mirrored,
                Settles, Live
  <1>3. CASE Overlooked(w)
    <2>1. CASE Refreshed(w)
      BY <2>1 DEF Refreshed, Mirrored, Settles, Live
    <2>2. CASE Stays(w) \/ Canonicalised(w)
      BY <1>3, <2>2 DEF Stays, Canonicalised, Overlooked, Normalized, Settles, Live
    <2> QED BY <1>3, <2>1, <2>2 DEF QuietRows, Deleted, Missed, Overlooked
  <1>4. CASE row[w] = NoRow /\ Live(w)
    <2>1. CASE row'[w] = NoRow
      <3>1. CASE strict
        <4>1. Shadowed(w)
          BY <1>4, <3>1 DEF Settles, Mirrored, Overlooked
        <4>2. Shadowed(w)'
          BY <2>1, <3>1, <4>1, ShadowedKept
        <4> QED BY <3>1, <4>2 DEF Settles
      <3>2. CASE ~strict
        BY <1>4, <2>1, <3>2 DEF Settles, Live
      <3> QED BY <3>1, <3>2
    <2>2. CASE row'[w] # NoRow
      <3>1. Refreshed(w)
        BY <1>4, <2>2 DEF QuietRows, Stays, Deleted, Missed, Canonicalised
      <3> QED BY <3>1 DEF Refreshed, Mirrored, Settles, Live
    <2> QED BY <2>1, <2>2
  <1> QED BY <1>2, <1>3, <1>4 DEF Settles, Shadowed

LEMMA AccurateKept ==
    ASSUME CoreInv, QuietRows, flow' = flow, Undisturbed, Accurate
    PROVE  Accurate'
  <1>1. \A w \in Ids : Settles(w, FALSE)'
    BY SettlesKept, AccurateSettles
  <1> QED BY <1>1, AccurateSettlesNext

\* What an up-to-date sync has fetched is what n8n has.
LEMMA CurrentIsLive ==
    ASSUME CoreInv, NEW s \in Syncs, UpToDate(s), Processing(s)
    PROVE  /\ Current(s).id \in Ids
           /\ Live(Current(s).id)
           /\ Current(s).version = flow[Current(s).id]
  <1>1. PICK b : b = Current(s)
    OBVIOUS
  <1>2. sync[s].batch \in Seq(Fetchable) /\ sync[s].batch # <<>> /\ sync[s].pc = "processing"
    BY BatchTyped, SaneParts DEF Processing, CoreInv, Sound, SyncTypes, Coherent
  <1>3. b \in Batched(s)
    BY <1>1, <1>2, TailElements, BatchedElements DEF Current
  <1>4. b.id \in Ids /\ b.version \in Versions
    BY <1>3, BatchTyped DEF CoreInv, Sound
  <1>5. b.version = Listing[b.id]
    BY <1>2, <1>3 DEF UpToDate
  <1>6. b.version # Gone
    BY <1>4 DEF Versions, Gone
  <1> QED BY <1>1, <1>4, <1>5, <1>6 DEF Listing

\* The ways in which a workflow is processed when nothing fails.
Passed(w, version) ==
    /\ row' = row
    /\ row[w] # NoRow
    /\ row[w].status # "missing"
    /\ Normalized(row[w].at) = Normalized(version.at)
Written(w, version) ==
    \E status \in {"linked", "unmapped", "ignored"}, canon \in Canonicals \cup {NoCanonical} :
        /\ row' = [row EXCEPT ![w] = [status |-> status, canon |-> canon,
                                      content |-> version.content, at |-> version.at]]
        /\ row[w] # NoRow => canon = row[w].canon
        /\ row[w] = NoRow /\ canon # NoCanonical => Admits(w, canon)
Refused(w, version) ==
    /\ row' = row
    /\ row[w] = NoRow
    /\ \E c \in Canonicals : c \in Candidates(w, version.content) /\ ~Admits(w, c)

LEMMA ProcessQuiet ==
    ASSUME CoreInv, NEW s \in Syncs, Process(s), Undisturbed,
           NEW w \in Ids, NEW version \in Versions,
           w = Current(s).id, version = Current(s).version
    PROVE  Passed(w, version) \/ Written(w, version) \/ Refused(w, version)
  <1>1. CASE Skip(s)
    BY <1>1 DEF Skip, Unchanged, rows, Passed
  <1>2. row[w] # NoRow => row[w].canon \in Canonicals \cup {NoCanonical}
                          /\ Reappeared(row[w]) \in {"linked", "unmapped", "ignored"}
    BY RowTyped DEF CoreInv, Sound, Rows, Reappeared
  <1>3. CASE Update(s)
    BY <1>2, <1>3 DEF Update, Written
  <1>4. NotFound(w) => row[w] = NoRow
    BY NoTick DEF NotFound
  <1>5. ASSUME NEW c \in Canonicals, InsertLinked(s, c)
        PROVE  Written(w, version)
    BY <1>4, <1>5 DEF InsertLinked, Written
  <1>6. ASSUME NEW c \in Canonicals, InsertRefused(s, c)
        PROVE  Refused(w, version)
    BY <1>4, <1>6 DEF InsertRefused, Refused, rows
  <1>7. CASE InsertUnmapped(s)
    BY <1>2, <1>7 DEF InsertUnmapped, Written
  <1>8. ~ProcessFails(s)
    BY NoTick DEF ProcessFails
  <1> QED BY <1>1, <1>3, <1>5, <1>6, <1>7, <1>8 DEF Process

\* Without failures the row of a processed workflow is written from what n8n has, or
\* shows it already, or is refused by the index.
LEMMA ProcessSettles ==
    ASSUME CoreInv, DataInv, NEW s \in Syncs, Process(s), Undisturbed, UpToDate(s),
           NEW w \in Ids, w = Current(s).id
    PROVE  /\ Refreshed(w) \/ Stays(w)
           /\ \A strict \in BOOLEAN : Settles(w, strict)'
  <1>1. Processing(s) /\ flow' = flow /\ held' = held
    BY ProcessRow
  <1>2. PICK version : version = Current(s).version
    OBVIOUS
  <1>3. Live(w) /\ version = flow[w] /\ version \in Versions
    BY <1>1, <1>2, CurrentIsLive, ProcessRow
  <1>4. CASE Passed(w, version)
    <2>1. row[w].at = flow[w].at => row[w].content = flow[w].content
      BY <1>3, <1>4 DEF DataInv, VersionsAgree, Dated, Passed
    <2>2. CASE row[w].at = flow[w].at
      BY <1>1, <1>3, <1>4, <2>1, <2>2 DEF Passed, Stays, Settles, Mirrored, Live
    <2>3. CASE row[w].at # flow[w].at
      BY <1>1, <1>3, <1>4, <2>3 DEF Passed, Stays, Settles, Overlooked, Normalized, Live
    <2> QED BY <2>2, <2>3
  <1>5. CASE Written(w, version)
    <2>1. PICK status \in {"linked", "unmapped", "ignored"},
               canon \in Canonicals \cup {NoCanonical} :
            /\ row' = [row EXCEPT ![w] = [status |-> status, canon |-> canon,
                                          content |-> version.content, at |-> version.at]]
            /\ row[w] # NoRow => canon = row[w].canon
            /\ row[w] = NoRow /\ canon # NoCanonical => Admits(w, canon)
      BY <1>5 DEF Written
    <2>2. row'[w] = [status |-> status, canon |-> canon,
                     content |-> version.content, at |-> version.at]
      BY <2>1 DEF CoreInv, Sound, RowTypes
    <2>3. row'[w] # NoRow
      BY <2>2 DEF NoRow
    <2>4. \A c \in Canonicals : Holds(w, c)' => c = canon /\ canon # NoCanonical
      BY <2>2, ValuesAssumption DEF Holds
    <2>5. Refreshed(w)
      BY <1>3, <2>1, <2>2, <2>3, <2>4 DEF Refreshed
    <2> QED BY <1>1, <2>5 DEF Refreshed, Settles, Mirrored, Live
  <1>6. CASE Refused(w, version)
    <2>1. PICK c \in Canonicals : c \in Candidates(w, version.content) /\ ~Admits(w, c)
      BY <1>6 DEF Refused
    <2>2. row' = row /\ row[w] = NoRow /\ gitState' = gitState
      BY <1>6 DEF Refused, Undisturbed
    <2>3. Shadowed(w)
      BY <1>3, <2>1, <2>2 DEF Shadowed
    <2>4. Shadowed(w)' <=> Shadowed(w)
      BY <1>1, <2>2 DEF Shadowed, Live, Candidates, Admits, Holds
    <2> QED BY <1>1, <1>3, <2>2, <2>3, <2>4 DEF Settles, Stays, Live
  <1> QED BY <1>2, <1>3, <1>4, <1>5, <1>6, ProcessQuiet

\* Rows that nobody touches stay.
LEMMA RowsRest == row' = row /\ held' = held => QuietRows
BY DEF QuietRows, Stays

LEMMA UsersQuiet ==
    ASSUME CoreInv, DataInv, UserActs, Undisturbed
    PROVE  QuietRows /\ flow' = flow /\ UNCHANGED <<sync, loop>>
  <1>1. PICK w \in Ids : MarkDeleted(w)
    <2>1. ~Ticks /\ \A fault : ~Fails(fault)
      BY NoTick
    <2> QED BY <2>1 DEF UserActs, CreateFlow, EditFlow, RemoveFlow, DeleteFlow,
                        MarkDeletedFails, ArchiveWorkflow, UnarchiveWorkflow, SetStatus
  <1>2. row'[w] = NoRow /\ \A v \in Ids : v # w => row'[v] = row[v]
    BY <1>1 DEF MarkDeleted, CoreInv, Sound, RowTypes
  <1>3. held' = held \cup {c \in Canonicals : row[w] # NoRow /\ row[w].canon = c}
    BY <1>1 DEF MarkDeleted
  <1>4. flow[w] = Gone
    BY <1>1 DEF MarkDeleted, DataInv
  <1>5. Deleted(w)
    <2>1. ~Live(w)
      BY <1>4 DEF Live, Gone
    <2>2. \A c \in Canonicals : Holds(w, c) => c \in held'
      BY <1>3 DEF Holds
    <2> QED BY <1>2, <2>1, <2>2 DEF Deleted
  <1>6. \A v \in Ids : Stays(v) \/ Deleted(v)
    BY <1>2, <1>5 DEF Stays
  <1> QED BY <1>1, <1>3, <1>6 DEF QuietRows, MarkDeleted

LEMMA ProcessQuietRows ==
    ASSUME CoreInv, DataInv, NEW s \in Syncs, Process(s), Undisturbed, UpToDate(s)
    PROVE  QuietRows /\ flow' = flow
  <1>1. held' = held /\ flow' = flow /\ \A w \in Ids \ {Current(s).id} : row'[w] = row[w]
    BY ProcessRow
  <1>2. \A w \in Ids : w = Current(s).id => Refreshed(w) \/ Stays(w)
    BY ProcessSettles
  <1>3. \A w \in Ids : w # Current(s).id => Stays(w)
    BY <1>1 DEF Stays
  <1> QED BY <1>1, <1>2, <1>3 DEF QuietRows

\* A marking sync marks what n8n no longer has.
LEMMA MarkQuiet ==
    ASSUME CoreInv, NEW s \in Syncs, Mark(s), UpToDate(s)
    PROVE  /\ \A w \in Ids : IF ~Live(w) /\ row[w] # NoRow /\ row[w].status # "missing"
                             THEN Missed(w) ELSE Stays(w)
           /\ UNCHANGED <<flow, held>>
  <1>1. sync[s].pc = "marking" /\ UNCHANGED <<flow, held>>
    BY DEF Mark, MarkMissing
  <1>2. sync[s].listed = Listing
    BY <1>1 DEF UpToDate
  <1>3. \A w \in Ids : sync[s].listed[w] = Gone <=> ~Live(w)
    <2>1. \A w \in Ids : Live(w) => flow[w] # Gone
      BY DEF Live, Gone
    <2>2. \A w \in Ids : sync[s].listed[w] = IF Live(w) THEN flow[w] ELSE Gone
      BY <1>2 DEF Listing
    <2> QED BY <2>1, <2>2
  <1>4. \A w \in Ids : row'[w] = IF w \in Vanished(s) THEN [row[w] EXCEPT !.status = "missing"]
                                 ELSE row[w]
    BY DEF Mark, MarkMissing
  <1>5. ASSUME NEW w \in Ids, ~Live(w), row[w] # NoRow, row[w].status # "missing"
        PROVE  Missed(w)
    <2>1. row'[w] = [row[w] EXCEPT !.status = "missing"]
      BY <1>3, <1>4, <1>5 DEF Vanished
    <2>2. row[w] \in Rows
      BY <1>5, RowTyped DEF CoreInv, Sound
    <2>3. row'[w].status = "missing" /\ row'[w].canon = row[w].canon
      BY <2>1, <2>2 DEF Rows
    <2> QED BY <1>5, <2>3 DEF Missed, NoRow
  <1>6. ASSUME NEW w \in Ids, ~(~Live(w) /\ row[w] # NoRow /\ row[w].status # "missing")
        PROVE  Stays(w)
    BY <1>3, <1>4, <1>6 DEF Vanished, Stays
  <1> QED BY <1>1, <1>5, <1>6

LEMMA BackupQuiet ==
    ASSUME CoreInv, DataInv, NEW s \in Syncs, Backup(s), UpToDate(s)
    PROVE  QuietRows /\ flow' = flow
  <1>1. flow' = flow /\ held' = held
    BY DEF Backup, Plan, Canonicalise, CanonicaliseFails, Commit, CommitFails, Finish, rows
  <1>2. CASE row' = row
    BY <1>1, <1>2, RowsRest
  <1>3. ASSUME NEW i, NEW c \in Canonicals, Canonicalise(s, i, c)
        PROVE  QuietRows
    <2>1. /\ sync[s].pc = "committing" /\ i \in sync[s].todo /\ i.canon = NoCanonical
          /\ row[i.id] # NoRow /\ row[i.id].canon = i.canon /\ i.id \in Ids
          /\ row' = [row EXCEPT ![i.id].canon = c, ![i.id].status = "linked"]
      <3>1. i \in sync[s].todo /\ sync[s].todo \subseteq Items
        BY <1>3, CanonicaliseData, SaneParts DEF CoreInv, Sound, SyncTypes
      <3>2. i.id \in Ids
        BY <3>1 DEF Items
      <3> QED BY <1>3, <3>2, CanonicaliseData DEF Agrees
    <2>2. PICK w \in Ids : w = i.id
      BY <2>1
    <2>3. Live(w)
      <3>1. w \in Observed(s)
        BY <2>1, <2>2 DEF DataInv, HandlesListed
      <3>2. sync[s].listed = Listing
        BY <2>1 DEF UpToDate
      <3> QED BY <3>1, <3>2 DEF Observed, Listing
    <2>4. row[w] \in Rows
      BY <2>1, <2>2, RowTyped DEF CoreInv, Sound
    <2>5. /\ row'[w].status = "linked" /\ row'[w].canon = c
          /\ row'[w].content = row[w].content /\ row'[w].at = row[w].at
      BY <2>1, <2>2, <2>4 DEF Rows, CoreInv, Sound, RowTypes
    <2>6. Canonicalised(w)
      <3>1. row'[w] # NoRow
        BY <2>5 DEF NoRow
      <3>2. row[w] # NoRow /\ row[w].canon = NoCanonical
        BY <2>1, <2>2
      <3>3. c \notin canonicals
        BY <1>3 DEF Canonicalise, Fresh
      <3> QED BY <2>3, <2>5, <3>1, <3>2, <3>3 DEF Canonicalised, Holds
    <2>7. \A v \in Ids : v # w => Stays(v)
      BY <2>1, <2>2 DEF Stays, CoreInv, Sound, RowTypes
    <2> QED BY <1>1, <2>6, <2>7 DEF QuietRows
  <1> QED BY <1>1, <1>2, <1>3 DEF Backup, Plan, CanonicaliseFails, Commit, CommitFails,
                                  Finish, rows

\* No undisturbed step of syncs that are up to date takes a row away from what n8n has.
LEMMA StepQuiet ==
    ASSUME CoreInv, DataInv, AllUpToDate, [Next]_vars, Undisturbed
    PROVE  QuietRows /\ flow' = flow
  <1>1. ~Ticks /\ \A fault : ~Fails(fault)
    BY NoTick
  <1>2. ASSUME NEW s \in Syncs, Step(s)
        PROVE  QuietRows /\ flow' = flow
    <2>1. CASE List(s) \/ \E w \in Ids : Fetch(s, w)
      <3>1. row' = row /\ held' = held /\ flow' = flow
        BY <2>1 DEF List, Fetch, rows
      <3> QED BY <3>1, RowsRest
    <2>2. CASE Mark(s)
      BY <2>2, MarkQuiet DEF AllUpToDate, QuietRows
    <2>3. ~ListFails(s) /\ ~MarkFails(s) /\ ~Abort(s) /\ \A w \in Ids : ~FetchFails(s, w)
      BY <1>1 DEF ListFails, MarkFails, Abort, FetchFails
    <2>4. UpToDate(s)
      BY DEF AllUpToDate
    <2> QED BY <1>2, <2>1, <2>2, <2>3, <2>4, ProcessQuietRows, BackupQuiet DEF Step
  <1>3. ASSUME \/ \E s \in Syncs : Begin(s)
               \/ \E c \in Canonicals : RepoSync(c)
               \/ \E c \in Canonicals, x \in Contents : Push(c, x)
               \/ UNCHANGED vars
        PROVE  QuietRows /\ flow' = flow
    <2>1. row' = row /\ held' = held /\ flow' = flow
      BY <1>3 DEF Begin, RepoSync, Push, vars, rows
    <2> QED BY <2>1, RowsRest
  <1>4. ~Crash
    BY <1>1 DEF Crash
  <1> QED BY <1>2, <1>3, <1>4, UsersQuiet DEF Next

-----------------------------------------------------------------------------
(* What the syncs have read stays up to date, and s deals with all of it.  *)

LEMMA UpToDateSame ==
    ASSUME NEW s \in Syncs, UpToDate(s), flow' = flow,
           \/ sync'[s].pc \in {"idle", "listing"}
           \/ /\ sync[s].pc \notin {"idle", "listing"}
              /\ sync'[s].listed = sync[s].listed
              /\ Elements(sync'[s].batch) \subseteq Elements(sync[s].batch)
    PROVE  UpToDate(s)'
  <1>1. Listing' = Listing
    BY DEF Listing, Live
  <1>2. Batched(s) = Elements(sync[s].batch) /\ Batched(s)' = Elements(sync'[s].batch)
    BY DEF Batched, Elements
  <1> QED BY <1>1, <1>2 DEF UpToDate

\* What is true of the moving sync is true of all.
LEMMA UpToDateMoved ==
    ASSUME AllUpToDate, flow' = flow, NEW s \in Syncs, Alone(s), UpToDate(s)'
    PROVE  AllUpToDate'
  <1>1. ASSUME NEW t \in Syncs, t # s
        PROVE  UpToDate(t)'
    <2>1. sync'[t] = sync[t]
      BY <1>1 DEF Alone
    <2>2. Listing' = Listing
      BY DEF Listing, Live
    <2> QED BY <2>1, <2>2 DEF AllUpToDate, UpToDate, Batched
  <1> QED BY <1>1 DEF AllUpToDate

\* What becomes of a sync in an undisturbed step.
Rests(s) == sync'[s].pc \notin {"fetching", "processing", "marking"}
Lists(s) ==
    /\ sync'[s].left = {w \in Ids : Live(w)}
    /\ sync'[s].listed = Listing
    /\ sync'[s].batch = <<>>
Fetches(s, w) ==
    /\ sync[s].pc = "fetching"
    /\ sync'[s].listed = sync[s].listed
    /\ sync'[s].left = sync[s].left \ {w}
    /\ Elements(sync'[s].batch) =
           Elements(sync[s].batch) \cup {[id |-> w, version |-> Listing[w]]}
Handles(s, w) ==
    /\ sync[s].pc = "processing"
    /\ sync'[s].listed = sync[s].listed
    /\ sync'[s].left = sync[s].left
    /\ Elements(sync'[s].batch) \subseteq Elements(sync[s].batch)
    /\ \A b \in Elements(sync[s].batch) : b.id # w => b \in Elements(sync'[s].batch)
    /\ \A strict \in BOOLEAN : Settles(w, strict)'

LEMMA FetchFetches ==
    ASSUME CoreInv, NEW s \in Syncs, NEW w \in Ids, Fetch(s, w), UpToDate(s)
    PROVE  Fetches(s, w) /\ Alone(s)
  <1>1. PICK v : Fetched(s, w, v) /\ v = IF Live(w) THEN flow[w] ELSE sync[s].listed[w]
    BY DEF Fetch
  <1> DEFINE e == [id |-> w, version |-> v]
  <1>2. /\ sync[s].pc = "fetching" /\ w \in sync[s].left /\ Alone(s)
        /\ sync'[s].listed = sync[s].listed
        /\ sync'[s].left = sync[s].left \ {w}
        /\ sync'[s].batch = Append(sync[s].batch, e)
    BY <1>1, FetchedData
  <1>3. sync[s].listed[w] # Gone
    BY <1>2, SaneParts DEF CoreInv, Sound, SyncTypes, Coherent
  <1>4. v = Listing[w] /\ Live(w)
    <2>1. sync[s].listed = Listing
      BY <1>2 DEF UpToDate
    <2> QED BY <1>1, <1>3, <2>1 DEF Listing
  <1>5. v \in Versions
    BY <1>1, <1>4, LiveVersion DEF CoreInv, Sound
  <1>6. Elements(sync'[s].batch) = Elements(sync[s].batch) \cup {e}
    <2>1. e \in Fetchable /\ sync[s].batch \in Seq(Fetchable)
      BY <1>5, BatchTyped DEF Fetchable, CoreInv, Sound
    <2> HIDE DEF e
    <2> QED BY <1>2, <2>1, AppendElements
  <1> QED BY <1>2, <1>4, <1>6 DEF Fetches

LEMMA ProcessHandles ==
    ASSUME CoreInv, DataInv, NEW s \in Syncs, Process(s), Undisturbed, UpToDate(s)
    PROVE  (\E w \in Ids : Handles(s, w)) /\ Alone(s)
  <1>1. PICK w \in Ids : w = Current(s).id
    BY ProcessRow
  <1>2. PICK created \in SUBSET Ids, result \in {"clean", "failed"} :
          Processed(s, created, result)
    BY <1>1, ProcessRow
  <1>3. Processing(s)
    BY ProcessRow
  <1>4. /\ sync[s].pc = "processing" /\ Alone(s)
        /\ sync'[s].listed = sync[s].listed
        /\ sync'[s].left = sync[s].left
    BY <1>2, <1>3, ProcessedData
  <1>5. sync[s].batch # <<>> /\ sync'[s].batch = Tail(sync[s].batch)
    BY <1>2, <1>3, ProcessedData
  <1>6. sync[s].batch \in Seq(Fetchable)
    BY BatchTyped DEF CoreInv, Sound
  <1>7. /\ Elements(sync'[s].batch) \subseteq Elements(sync[s].batch)
        /\ Elements(sync[s].batch) \subseteq Elements(sync'[s].batch) \cup {Current(s)}
    BY <1>5, <1>6, TailElements DEF Current
  <1>8. \A strict \in BOOLEAN : Settles(w, strict)'
    BY <1>1, ProcessSettles
  <1>9. \A b \in Elements(sync[s].batch) : b.id # w => b \in Elements(sync'[s].batch)
    BY <1>1, <1>7
  <1> QED BY <1>4, <1>7, <1>8, <1>9 DEF Handles

\* The five kinds of steps.
LEMMA SyncsQuiet ==
    ASSUME CoreInv, DataInv, AllUpToDate, [Next]_vars, Undisturbed
    PROVE  \/ sync' = sync
           \/ \E s \in Syncs :
                /\ Alone(s)
                /\ \/ Rests(s) /\ sync'[s].pc \in {"idle", "listing"}
                   \/ Rests(s) /\ SameData(s) /\ sync[s].pc \notin {"idle", "listing"}
                   \/ Lists(s)
                   \/ \E w \in Ids : Fetches(s, w) \/ Handles(s, w)
  <1>1. ~Ticks /\ \A fault : ~Fails(fault)
    BY NoTick
  <1>2. ASSUME NEW s \in Syncs, Begin(s) \/ Finish(s)
        PROVE  Alone(s) /\ Rests(s) /\ sync'[s].pc \in {"idle", "listing"}
    BY <1>2, IdleData DEF Begin, Finish, EmptyData, Rests
  <1>3. ASSUME NEW s \in Syncs, List(s)
        PROVE  Lists(s) /\ Alone(s)
    BY <1>3, ListData DEF Lists, DataInv, HandlesListed
  <1>4. ASSUME NEW s \in Syncs, Mark(s)
        PROVE  /\ Alone(s) /\ Rests(s)
               /\ \/ sync'[s].pc \in {"idle", "listing"}
                  \/ SameData(s) /\ sync[s].pc \notin {"idle", "listing"}
    BY <1>4, MarkData DEF Mark, EmptyData, Rests
  <1>5. ASSUME NEW s \in Syncs, Plan(s)
        PROVE  Alone(s) /\ Rests(s) /\ SameData(s) /\ sync[s].pc \notin {"idle", "listing"}
    BY <1>5, PlanData DEF Rests
  <1>6. ASSUME NEW s \in Syncs, NEW i, Commit(s, i) \/ CommitFails(s, i) \/ CanonicaliseFails(s, i)
        PROVE  Alone(s) /\ Rests(s) /\ SameData(s) /\ sync[s].pc \notin {"idle", "listing"}
    BY <1>6, CommitData DEF Rests
  <1>7. ASSUME NEW s \in Syncs, NEW i, NEW c \in Canonicals, Canonicalise(s, i, c)
        PROVE  Alone(s) /\ Rests(s) /\ SameData(s) /\ sync[s].pc \notin {"idle", "listing"}
    BY <1>7, CanonicaliseData DEF Rests
  <1>8. ASSUME NEW s \in Syncs, NEW w \in Ids, Fetch(s, w)
        PROVE  Fetches(s, w) /\ Alone(s)
    BY <1>8, FetchFetches DEF AllUpToDate
  <1>9. ASSUME NEW s \in Syncs, Process(s)
        PROVE  (\E w \in Ids : Handles(s, w)) /\ Alone(s)
    BY <1>9, ProcessHandles DEF AllUpToDate
  <1>10. ASSUME NEW s \in Syncs
         PROVE  ~ListFails(s) /\ ~MarkFails(s) /\ ~Abort(s) /\ \A w \in Ids : ~FetchFails(s, w)
    BY <1>1 DEF ListFails, MarkFails, Abort, FetchFails
  <1>11. ~Crash
    BY <1>1 DEF Crash
  <1>12. UserActs => sync' = sync
    BY UsersQuiet
  <1>13. (\E c \in Canonicals : RepoSync(c)) \/ (\E c \in Canonicals, x \in Contents : Push(c, x))
         \/ UNCHANGED vars => sync' = sync
    BY DEF RepoSync, Push, vars
  <1>14. ASSUME NEW s \in Syncs, Backup(s)
         PROVE  /\ Alone(s) /\ Rests(s)
                /\ \/ sync'[s].pc \in {"idle", "listing"}
                   \/ SameData(s) /\ sync[s].pc \notin {"idle", "listing"}
    BY <1>2, <1>5, <1>6, <1>7, <1>14 DEF Backup
  <1>15. ASSUME NEW s \in Syncs, Step(s)
         PROVE  \/ List(s) \/ Process(s) \/ Mark(s) \/ Backup(s)
                \/ \E w \in Ids : Fetch(s, w)
    BY <1>10, <1>15 DEF Step
  <1> QED BY <1>2, <1>3, <1>4, <1>8, <1>9, <1>11, <1>12, <1>13, <1>14, <1>15 DEF Next

LEMMA UpToDateKept ==
    ASSUME CoreInv, DataInv, AllUpToDate, [Next]_vars, Undisturbed
    PROVE  AllUpToDate'
  <1>1. flow' = flow
    BY StepQuiet
  <1>2. CASE sync' = sync
    BY <1>1, <1>2 DEF AllUpToDate, UpToDate, Batched, Listing, Live
  <1>3. ASSUME NEW s \in Syncs, Alone(s),
               \/ sync'[s].pc \in {"idle", "listing"}
               \/ SameData(s) /\ sync[s].pc \notin {"idle", "listing"}
        PROVE  AllUpToDate'
    <2>1. UpToDate(s)'
      BY <1>1, <1>3, UpToDateSame DEF SameData, AllUpToDate
    <2> QED BY <1>1, <1>3, <2>1, UpToDateMoved
  <1>4. ASSUME NEW s \in Syncs, Alone(s), Lists(s)
        PROVE  AllUpToDate'
    <2>1. Batched(s)' = {} /\ Listing' = Listing
      BY <1>1, <1>4, EmptyElements DEF Lists, Batched, Elements, Listing, Live
    <2>2. UpToDate(s)'
      BY <1>4, <2>1 DEF Lists, UpToDate
    <2> QED BY <1>1, <1>4, <2>2, UpToDateMoved
  <1>5. ASSUME NEW s \in Syncs, Alone(s), NEW w \in Ids, Fetches(s, w)
        PROVE  AllUpToDate'
    <2>1. /\ Listing' = Listing /\ Batched(s) = Elements(sync[s].batch)
          /\ Batched(s)' = Elements(sync'[s].batch)
      BY <1>1 DEF Batched, Elements, Listing, Live
    <2>2. UpToDate(s) /\ sync[s].pc = "fetching"
      BY <1>5 DEF AllUpToDate, Fetches
    <2>3. \A b \in Batched(s)' : b.version = Listing[b.id]
      BY <1>5, <2>1, <2>2 DEF UpToDate, Fetches
    <2>4. UpToDate(s)'
      BY <1>5, <2>1, <2>2, <2>3 DEF Fetches, UpToDate
    <2> QED BY <1>1, <1>5, <2>4, UpToDateMoved
  <1>6. ASSUME NEW s \in Syncs, Alone(s), NEW w \in Ids, Handles(s, w)
        PROVE  AllUpToDate'
    <2>1. UpToDate(s)'
      BY <1>1, <1>6, UpToDateSame DEF Handles, AllUpToDate
    <2> QED BY <1>1, <1>6, <2>1, UpToDateMoved
  <1> QED BY <1>2, <1>3, <1>4, <1>5, <1>6, SyncsQuiet

\* Reflected of a workflow.
Dealt(s, w, strict) ==
    \/ ~Live(w) \/ Settles(w, strict)
    \/ w \in sync[s].left
    \/ \E b \in Elements(sync[s].batch) : b.id = w

LEMMA ReflectedEach ==
    ASSUME NEW s \in Syncs, NEW strict \in BOOLEAN
    PROVE  Reflected(s, strict) <=> (sync[s].pc \in {"fetching", "processing", "marking"} =>
                                        \A w \in Ids : Dealt(s, w, strict))
BY DEF Reflected, Dealt, Elements, Batched

LEMMA ReflectedKept ==
    ASSUME CoreInv, DataInv, AllUpToDate, [Next]_vars, Undisturbed, NEW s \in Syncs,
           NEW strict \in BOOLEAN, strict => Accurate, Reflected(s, strict)
    PROVE  Reflected(s, strict)'
  <1>1. QuietRows /\ flow' = flow
    BY StepQuiet
  <1>2. \A w \in Ids : Live(w)' <=> Live(w)
    BY <1>1 DEF Live
  <1>3. \A w \in Ids : Settles(w, strict) => Settles(w, strict)'
    BY <1>1, SettlesKept
  <1>e. (\A w \in Ids : Dealt(s, w, strict)') => Reflected(s, strict)'
    BY DEF Reflected, Dealt, Elements, Batched
  <1>4. CASE sync'[s] = sync[s]
    <2>1. \A w \in Ids : Dealt(s, w, strict) => Dealt(s, w, strict)'
      BY <1>2, <1>3, <1>4 DEF Dealt, Elements
    <2>2. CASE sync[s].pc \in {"fetching", "processing", "marking"}
      BY <1>e, <2>1, <2>2, ReflectedEach
    <2>3. CASE sync[s].pc \notin {"fetching", "processing", "marking"}
      BY <1>4, <2>3 DEF Reflected
    <2> QED BY <2>2, <2>3
  <1>5. CASE Rests(s)
    BY <1>5 DEF Rests, Reflected
  <1>6. CASE Lists(s)
    BY <1>2, <1>6 DEF Lists, Reflected
  <1>7. ASSUME NEW v \in Ids, Fetches(s, v)
        PROVE  Reflected(s, strict)'
    <2>1. \A w \in Ids : Dealt(s, w, strict)
      BY <1>7, ReflectedEach DEF Fetches
    <2>2. [id |-> v, version |-> Listing[v]].id = v
      OBVIOUS
    <2>3. ASSUME NEW w \in Ids
          PROVE  Dealt(s, w, strict)'
      <3>1. CASE w = v
        BY <1>7, <2>2, <3>1 DEF Fetches, Dealt, Elements
      <3>2. CASE w # v
        BY <1>2, <1>3, <1>7, <2>1, <3>2 DEF Fetches, Dealt, Elements
      <3> QED BY <3>1, <3>2
    <2> QED BY <1>e, <2>3
  <1>8. ASSUME NEW v \in Ids, Handles(s, v)
        PROVE  Reflected(s, strict)'
    <2>1. \A w \in Ids : Dealt(s, w, strict)
      BY <1>8, ReflectedEach DEF Handles
    <2>2. ASSUME NEW w \in Ids
          PROVE  Dealt(s, w, strict)'
      <3>1. CASE w = v
        BY <1>8, <3>1 DEF Handles, Dealt
      <3>2. CASE w # v
        BY <1>2, <1>3, <1>8, <2>1, <3>2 DEF Handles, Dealt, Elements
      <3> QED BY <3>1, <3>2
    <2> QED BY <1>e, <2>2
  <1>9. \A t \in Syncs : Alone(t) => t = s \/ sync'[s] = sync[s]
    BY DEF Alone
  <1> QED BY <1>4, <1>5, <1>6, <1>7, <1>8, <1>9, SyncsQuiet

LEMMA QuietKept ==
    ASSUME CoreInv, DataInv, NEW s \in Syncs, NEW strict \in BOOLEAN, QuietInv(s, strict),
           [Next]_vars, Undisturbed
    PROVE  QuietInv(s, strict)'
  <1>1. AllUpToDate
    BY DEF QuietInv, AllUpToDate
  <1>2. QuietRows /\ flow' = flow
    BY <1>1, StepQuiet
  <1>3. AllUpToDate' /\ Reflected(s, strict)'
    BY <1>1, UpToDateKept, ReflectedKept DEF QuietInv
  <1>4. strict => Accurate'
    BY <1>2, AccurateKept DEF QuietInv
  <1> QED BY <1>3, <1>4 DEF QuietInv, AllUpToDate

\* A sync that marks has dealt with all workflows there are, and marks the others.
LEMMA MarkSettles ==
    ASSUME CoreInv, DataInv, NEW s \in Syncs, NEW strict \in BOOLEAN, QuietInv(s, strict),
           Undisturbed, [Next]_vars, Mark(s), NEW w \in Ids
    PROVE  Settles(w, strict)'
  <1>1. QuietRows /\ flow' = flow
    BY StepQuiet DEF QuietInv, AllUpToDate
  <1>2. sync[s].pc = "marking" /\ sync[s].left = {} /\ Elements(sync[s].batch) = {}
    BY EmptyElements DEF Mark, MarkMissing, DataInv, HandlesListed
  <1>3. CASE Live(w)
    <2>1. Settles(w, strict)
      BY <1>2, <1>3, ReflectedEach DEF QuietInv, Dealt
    <2> QED BY <1>1, <2>1, SettlesKept DEF QuietInv
  <1>4. CASE ~Live(w)
    <2>1. row'[w] = NoRow \/ row'[w].status = "missing"
      BY <1>4, MarkQuiet DEF QuietInv, Missed, Stays
    <2> QED BY <1>1, <1>4, <2>1 DEF Settles, Mirrored, Live
  <1> QED BY <1>3, <1>4

LEMMA MarkRepairs ==
    ASSUME CoreInv, DataInv, NEW s \in Syncs, Undisturbed, [Next]_vars, Mark(s)
    PROVE  /\ QuietInv(s, FALSE) => Accurate'
           /\ QuietInv(s, TRUE) => Mirror'
  <1>1. ASSUME QuietInv(s, FALSE)
        PROVE  Accurate'
    <2>1. \A w \in Ids : Settles(w, FALSE)'
      BY <1>1, MarkSettles
    <2> QED BY <2>1, AccurateSettlesNext
  <1>2. ASSUME QuietInv(s, TRUE)
        PROVE  Mirror'
    <2>1. \A w \in Ids : Settles(w, TRUE)'
      BY <1>2, MarkSettles
    <2> QED BY <2>1 DEF Settles, Mirror
  <1> QED BY <1>1, <1>2

LEMMA BothKept ==
    ASSUME CoreInv, DataInv, AllUpToDate, Undisturbed, [Next]_vars
    PROVE  (Accurate => Accurate') /\ (Mirror => Mirror')
  <1>1. QuietRows /\ flow' = flow
    BY StepQuiet
  <1>2. ASSUME Mirror
        PROVE  Mirror'
    <2>1. \A w \in Ids : Settles(w, TRUE)'
      BY <1>1, <1>2, SettlesKept, MirrorSettles, MirrorAccurate
    <2> QED BY <2>1 DEF Settles, Mirror
  <1> QED BY <1>1, <1>2, AccurateKept

\* From a settled state on, as long as nobody changes n8n and nothing fails: when a sync
\* marks the missing rows, what rows there are agree with n8n; if they did when it began,
\* the rows mirror n8n, but for the workflows of which the short circuit or the index
\* hides a change.  Both last, whatever other syncs and backups do in the meantime.  With
\* fairness, which makes the sync mark twice, that is RowsMirror.
THEOREM Repairs == ASSUME NEW s \in Syncs PROVE Spec => SyncRepairs(s)
  <1> DEFINE Inv == CoreInv /\ DataInv
             Quiet == QuietInv(s, FALSE)
             Strict == QuietInv(s, TRUE)
             Calm == Settled(s)
             Records == Mark(s) => Accurate'
             Marks == Mark(s) => Mirror'
  <1>1. (Calm => Quiet) /\ (Calm /\ Accurate => Strict)
    BY DEF Settled, QuietInv, Reflected
  <1>2. Inv /\ Quiet /\ [Next]_vars /\ [Undisturbed]_vars => Quiet'
    BY QuietKept DEF Undisturbed, vars, git
  <1>3. Inv /\ Strict /\ [Next]_vars /\ [Undisturbed]_vars => Strict'
    BY QuietKept DEF Undisturbed, vars, git
  <1>4. Inv /\ Quiet /\ [Next]_vars /\ [Undisturbed]_vars => [Records]_vars
    BY MarkRepairs DEF Undisturbed, vars, git
  <1>5. Inv /\ Strict /\ [Next]_vars /\ [Undisturbed]_vars => [Marks]_vars
    BY MarkRepairs DEF Undisturbed, vars, git
  <1>6. Inv /\ Quiet /\ [Next]_vars /\ [Undisturbed]_vars
          => (Accurate => Accurate') /\ (Mirror => Mirror')
    BY BothKept DEF Undisturbed, vars, git, QuietInv, AllUpToDate
  <1>7. Spec => []Inv /\ [][Next]_vars
    BY CoreAlways, DataAlways, PTL DEF Spec
  <1>8. SyncRepairs(s) <=> [](Calm /\ [][Undisturbed]_vars
                                => /\ [][Records]_vars
                                   /\ [](Accurate => []Accurate)
                                   /\ (Accurate => [][Marks]_vars)
                                   /\ [](Mirror => []Mirror))
    BY DEF SyncRepairs
  <1> HIDE DEF Inv, Quiet, Strict, Calm, Records, Marks
  <1> QED BY <1>1, <1>2, <1>3, <1>4, <1>5, <1>6, <1>7, <1>8, PTL

-----------------------------------------------------------------------------
(* Every sync ends.                                                        *)

LEMMA ProcessShortens ==
    ASSUME NEW q \in Seq(Fetchable), q # <<>>
    PROVE  Len(Tail(q)) < Len(q)
OBVIOUS

LEMMA StepAdvances ==
    ASSUME CoreInv, NEW s \in Syncs, Step(s)
    PROVE  \/ Phase(sync'[s].pc) > Phase(sync[s].pc)
           \/ FetchingAdvances(s)
           \/ CommittingAdvances(s)
  <1>0. /\ Phase("listing") = 1 /\ Phase("fetching") = 2 /\ Phase("processing") = 2
        /\ Phase("marking") = 3 /\ Phase("planning") = 4 /\ Phase("committing") = 5
        /\ Phase("idle") = 6
    BY DEF Phase
  <1>1. ASSUME sync[s].pc \in {"listing", "processing", "marking", "planning", "committing"},
               To(s, Idle)
        PROVE  Phase(sync'[s].pc) > Phase(sync[s].pc)
    <2>1. sync'[s].pc = "idle"
      BY <1>1, ToFrame DEF CoreInv, Sound, Idle
    <2> QED BY <1>0, <1>1, <2>1
  <1>2. CASE List(s)
    <2>1. sync[s].pc = "listing" /\ sync'[s].pc \in {"fetching", "marking"}
      BY <1>2, ListData
    <2> QED BY <1>0, <2>1
  <1>3. ASSUME NEW w \in Ids, NEW v, Fetched(s, w, v)
        PROVE  FetchingAdvances(s)
    <2>1. /\ sync[s].pc = "fetching" /\ sync'[s].pc \in {"fetching", "processing"}
          /\ w \in sync[s].left /\ sync'[s].left = sync[s].left \ {w}
      BY <1>3, FetchedData
    <2>2. Smaller(sync'[s].left, sync[s].left)
      BY <2>1 DEF Smaller
    <2> QED BY <1>0, <2>1, <2>2 DEF FetchingAdvances
  <1>4. CASE Process(s)
    <2>1. PICK created \in SUBSET Ids, result \in {"clean", "failed"} :
            Processing(s) /\ Processed(s, created, result)
      BY <1>4, ProcessRow
    <2>2. /\ sync[s].pc = "processing" /\ sync'[s].pc \in {"fetching", "processing", "marking"}
          /\ sync'[s].left = sync[s].left
      BY <2>1, ProcessedData
    <2>3. sync[s].batch # <<>> /\ sync'[s].batch = Tail(sync[s].batch)
      BY <2>1, ProcessedData
    <2>4. Len(sync'[s].batch) < Len(sync[s].batch)
      BY <2>3, ProcessShortens, BatchTyped DEF CoreInv, Sound
    <2> QED BY <1>0, <2>2, <2>4 DEF FetchingAdvances
  <1>5. ASSUME NEW some, NEW result, MarkMissing(s, some, result)
        PROVE  Phase(sync'[s].pc) > Phase(sync[s].pc)
    <2>1. CASE To(s, Idle)
      BY <1>1, <1>5, <2>1 DEF MarkMissing
    <2>2. CASE ~To(s, Idle)
      <3>1. sync[s].pc = "marking" /\ sync[s] \in Activities
        BY <1>5, SaneParts DEF MarkMissing, CoreInv, Sound, SyncTypes
      <3>2. PICK r : r = [sync[s] EXCEPT !.result = Result(s, result), !.pc = "planning"]
        OBVIOUS
      <3>3. To(s, r)
        BY <1>5, <2>2, <3>2 DEF MarkMissing
      <3>4. r.pc = "planning"
        BY <3>1, <3>2 DEF Activities
      <3>5. sync'[s].pc = "planning"
        BY <3>3, <3>4, ToFrame DEF CoreInv, Sound
      <3> QED BY <1>0, <3>1, <3>5
    <2> QED BY <2>1, <2>2
  <1>6. CASE Plan(s)
    <2>1. sync[s].pc = "planning" /\ sync'[s].pc = "committing"
      BY <1>6, PlanData
    <2> QED BY <1>0, <2>1
  <1>7. ASSUME NEW i \in sync[s].todo,
               Commit(s, i) \/ CommitFails(s, i) \/ CanonicaliseFails(s, i)
        PROVE  CommittingAdvances(s)
    <2>1. /\ sync[s].pc = "committing" /\ sync'[s].pc = "committing"
          /\ sync'[s].todo = sync[s].todo \ {i}
      BY <1>7, CommitData
    <2>2. Smaller(sync'[s].todo, sync[s].todo)
      BY <2>1 DEF Smaller
    <2>3. Unnamed(s)' = Unnamed(s) \ {i}
      BY <2>1 DEF Unnamed
    <2> QED BY <1>0, <2>1, <2>2, <2>3 DEF CommittingAdvances, Smaller
  <1>8. ASSUME NEW i \in sync[s].todo, NEW c \in Canonicals, Canonicalise(s, i, c)
        PROVE  CommittingAdvances(s)
    <2>1. sync[s].pc = "committing" /\ sync'[s].pc = "committing" /\ i.canon = NoCanonical
      BY <1>8, CanonicaliseData
    <2>2. PICK item : item.canon = c /\ sync'[s].todo = (sync[s].todo \ {i}) \cup {item}
      BY <1>8, CanonicaliseItem
    <2>3. Unnamed(s)' = Unnamed(s) \ {i} /\ i \in Unnamed(s)
      BY <2>1, <2>2, ValuesAssumption DEF Unnamed
    <2> QED BY <1>0, <2>1, <2>3 DEF CommittingAdvances, Smaller
  <1>9. CASE Backup(s)
    BY <1>1, <1>6, <1>7, <1>8, <1>9 DEF Backup, Finish
  <1>10. CASE Mark(s) \/ MarkFails(s)
    BY <1>5, <1>10 DEF Mark, MarkFails
  <1>11. CASE ListFails(s) \/ Abort(s)
    BY <1>1, <1>11 DEF ListFails, Abort
  <1>12. ASSUME NEW w \in Ids, Fetch(s, w) \/ FetchFails(s, w)
         PROVE  FetchingAdvances(s)
    BY <1>3, <1>12 DEF Fetch, FetchFails
  <1> QED BY <1>2, <1>4, <1>9, <1>10, <1>11, <1>12 DEF Step

\* No step of a sync or a backup comes back to where it was: with finitely many workflows a
\* sync ends, and unless the listing or a statement fails it marks on the way, so that Repairs
\* applies.
THEOREM SyncsEnd == Spec => SyncAdvances
  <1>1. CoreInv /\ [Next]_vars
        => [\A s \in Syncs : Step(s) => \/ Phase(sync'[s].pc) > Phase(sync[s].pc)
                                        \/ FetchingAdvances(s)
                                        \/ CommittingAdvances(s)]_vars
    BY StepAdvances
  <1> QED BY <1>1, CoreAlways, PTL DEF Spec, SyncAdvances
=============================================================================
