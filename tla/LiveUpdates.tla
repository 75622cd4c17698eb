----------------------------- MODULE LiveUpdates -----------------------------
(***************************************************************************)
(* Live updates of the web pages: rows are written and announced, the      *)
(* in-memory pub/sub queues each announcement on the subscriptions it      *)
(* reaches (services/sse_pubsub_service.py), a stream per HTTP request     *)
(* forwards its queue (api/endpoints/sse.py), and the page's hook merges   *)
(* what it receives into its cache and reconnects after an error           *)
(* (app-front/src/lib/use-deployments-sse.ts, use-background-jobs-sse.ts). *)
(*                                                                         *)
(* The server is one asyncio loop, and publishing never suspends: a row's  *)
(* write and its announcement are one step.  A payload is abstracted to    *)
(* the version of the row it was built from.                               *)
(***************************************************************************)
EXTENDS Integers, Sequences, FiniteSetsExt

CONSTANTS
    Tenants, Deployments, Jobs, Environments,
    Owner,          \* [Deployments \cup Jobs -> Tenants]
    EnvironmentOf,  \* [Jobs -> Environments \cup {NoEnvironment}]: bulk jobs carry none
    NoEnvironment,
    Pages,          \* pages open in browsers
    Scopes,         \* the scopes their streams may have
    Streams,        \* HTTP requests the server can hold at once
    NoStream,
    QueueSize,      \* maxsize of a subscription's queue, 100 in the code
    MaxAttempts,    \* MAX_RECONNECT_ATTEMPTS, 10 in the code
    MaxWrites,      \* bound: writes of all rows
    Faults          \* subset of {"silent", "emit", "network", "restart"}

Topics == Deployments \cup Jobs \cup Tenants  \* a tenant names its counters

ScopeKinds == {"deployments_list", "deployment_detail", "background_jobs_list",
               "background_jobs_env", "background_jobs_job"}

ASSUME TopicsAssumption ==
    /\ Deployments \cap Jobs = {}
    /\ Deployments \cap Tenants = {}
    /\ Jobs \cap Tenants = {}
    /\ Owner \in [Deployments \cup Jobs -> Tenants]
    /\ EnvironmentOf \in [Jobs -> Environments \cup {NoEnvironment}]

ASSUME ScopesAssumption ==
    \A sc \in Scopes : /\ sc.kind \in ScopeKinds
                       /\ sc.tenant \in Tenants
                       /\ sc.kind = "deployment_detail" => sc.id \in Deployments

ASSUME BoundsAssumption ==
    /\ Pages # {}
    /\ QueueSize \in Nat \ {0}
    /\ MaxAttempts \in Nat
    /\ NoStream \notin Streams
    /\ NoEnvironment \notin Environments

VARIABLES
    row,        \* [Topics -> Nat]: version of the stored row, 0 before it exists
    said,       \* history: newest version of each topic that was published
    alone,      \* history: [Tenants -> Nat]: upserts sent without counters since the last counters
    stream,     \* [Streams -> Stream]: requests being served
    scope,      \* [Pages -> Scopes]
    source,     \* [Pages -> Streams \cup {NoStream}]: the page's EventSource
    status,     \* [Pages -> STRING]: state of the page's hook
    attempts,   \* [Pages -> Nat]: reconnectAttemptRef
    view        \* [Pages -> [Topics -> Nat]]: versions in the page's cache

vars == <<row, said, alone, stream, scope, source, status, attempts, view>>
pageVars == <<scope, source, status, attempts, view>>

TenantOf(x) == IF x \in Tenants THEN x ELSE Owner[x]

Nothing == [x \in Topics |-> 0]

Events == [type : {"deployment.upsert"}, about : Deployments, version : Nat]
    \cup [type : {"counts.update"}, about : Tenants, version : Nat]
    \cup [type : {"progress", "job.status_changed"}, about : Jobs, version : Nat]

Phases == {"free", "requested", "accepted", "subscribed", "streaming"}

FreeStream == [phase |-> "free", page |-> CHOOSE p \in Pages : TRUE, snapshot |-> Nothing,
               since |-> Nothing, queue |-> <<>>, dropped |-> FALSE]

Init ==
    /\ row = Nothing
    /\ said = Nothing
    /\ alone = [t \in Tenants |-> 0]
    /\ stream = [s \in Streams |-> FreeStream]
    /\ scope \in [Pages -> Scopes]
    /\ source = [p \in Pages |-> NoStream]
    /\ status = [p \in Pages |-> "off"]
    /\ attempts = [p \in Pages |-> 0]
    /\ view = [p \in Pages |-> Nothing]

-----------------------------------------------------------------------------
(* Publishing. *)

OfList(sc) == sc.kind = "deployments_list"
OfDetail(sc) == sc.kind = "deployment_detail"
OfJobs(sc) == ~OfList(sc) /\ ~OfDetail(sc)

\* The jobs of a jobs scope; a bulk job names no environment.
OfScope(sc, j) ==
    \/ sc.kind = "background_jobs_list"
    \/ sc.kind = "background_jobs_env" /\ EnvironmentOf[j] = sc.id
    \/ sc.kind = "background_jobs_job" /\ j = sc.id

\* Which events a subscription receives.  No scope forwards job.status_changed.
Reaches(e, sc) ==
    /\ TenantOf(e.about) = sc.tenant
    /\ \/ OfList(sc) /\ e.type \in {"deployment.upsert", "counts.update"}
       \/ OfDetail(sc) /\ e.type = "deployment.upsert" /\ e.about = sc.id
       \/ OfDetail(sc) /\ e.type = "counts.update"
       \/ OfJobs(sc) /\ e.type = "progress" /\ OfScope(sc, e.about)

\* Mutant: the stream subscribes after it has sent its snapshot.
SubscribedLate(st) == st.phase = "streaming"

Subscribed(st) == st.phase \in {"subscribed", "streaming"}

\* Mutants: a full queue grows, or refuses the newest event.
PushUnbounded(q, e) == Append(q, e)
PushRefused(q, e) == IF Len(q) >= QueueSize THEN q ELSE Append(q, e)

\* put_nowait, after the oldest event made room.
Push(q, e) == Append(IF Len(q) >= QueueSize THEN Tail(q) ELSE q, e)

Deliver(st, e) ==
    IF Subscribed(st) /\ Reaches(e, scope[st.page])
    THEN [st EXCEPT !.queue = Push(@, e), !.dropped = @ \/ Len(st.queue) >= QueueSize]
    ELSE st

Publish(e) == [s \in Streams |-> Deliver(stream[s], e)]

\* Two events published without suspension.
PublishBoth(e, f) == [s \in Streams |-> Deliver(Deliver(stream[s], e), f)]

Upsert(d) == [type |-> "deployment.upsert", about |-> d, version |-> row[d] + 1]
Counts(t) == [type |-> "counts.update", about |-> t, version |-> row[t] + 1]

\* Bound: the model stops writing after MaxWrites writes.
MayWrite == MapThenSumSet(LAMBDA x : row[x], Deployments \cup Jobs) < MaxWrites

Written(d) == [row EXCEPT ![d] = @ + 1, ![Owner[d]] = @ + 1]

\* A writer that announces: creation, end and cancellation of a deployment.
Announce(d) ==
    /\ MayWrite
    /\ row' = Written(d)
    /\ said' = [said EXCEPT ![d] = row[d] + 1, ![Owner[d]] = row[Owner[d]] + 1]
    /\ alone' = [alone EXCEPT ![Owner[d]] = 0]
    /\ stream' = PublishBoth(Upsert(d), Counts(Owner[d]))
    /\ UNCHANGED pageVars

\* The counters cannot be read: the upsert went out alone.
AnnounceHalf(d) ==
    /\ "emit" \in Faults
    /\ MayWrite
    /\ row' = Written(d)
    /\ said' = [said EXCEPT ![d] = row[d] + 1]
    /\ alone' = [alone EXCEPT ![Owner[d]] = @ + 1]
    /\ stream' = Publish(Upsert(d))
    /\ UNCHANGED pageVars

\* A writer that does not announce (stale detection, the scheduler, job cleanup), or cannot.
WriteSilently(d) ==
    /\ \/ "silent" \in Faults /\ row[d] > 0
       \/ "emit" \in Faults
    /\ MayWrite
    /\ row' = Written(d)
    /\ UNCHANGED <<said, alone, stream, pageVars>>

\* A job's progress.
Progress(j) ==
    LET e == [type |-> "progress", about |-> j, version |-> row[j] + 1]
    IN /\ MayWrite
       /\ row' = [row EXCEPT ![j] = @ + 1]
       /\ said' = [said EXCEPT ![j] = row[j] + 1]
       /\ stream' = Publish(e)
       /\ UNCHANGED <<alone, pageVars>>

\* A job is completed, failed or cancelled: an event of a type no scope forwards.
ChangeJobStatus(j) ==
    LET e == [type |-> "job.status_changed", about |-> j, version |-> row[j] + 1]
    IN /\ MayWrite
       /\ row[j] > 0
       /\ row' = [row EXCEPT ![j] = @ + 1]
       /\ stream' = Publish(e)
       /\ UNCHANGED <<said, alone, pageVars>>

-----------------------------------------------------------------------------
(* The stream of a request. *)

Attached(s) == stream[s].phase # "free" /\ source[stream[s].page] = s

\* Mutant: the query of the snapshot forgets the tenant.
RowsOfAll(sc) == [x \in Topics |-> IF x \notin Jobs THEN row[x] ELSE 0]

Rows(sc) == [x \in Topics |-> IF TenantOf(x) = sc.tenant /\ x \notin Jobs THEN row[x] ELSE 0]
DetailRow(sc) == [Nothing EXCEPT ![sc.id] = row[sc.id]]

\* The page's error handler: the source is closed, another attempt is scheduled.
FailedPages(ps) ==
    /\ source' = [p \in Pages |-> IF p \in ps THEN NoStream ELSE source[p]]
    /\ status' = [p \in Pages |-> IF p \notin ps THEN status[p]
                                  ELSE IF attempts[p] < MaxAttempts THEN "backoff" ELSE "failed"]
    /\ attempts' = [p \in Pages |-> IF p \in ps /\ attempts[p] < MaxAttempts
                                    THEN attempts[p] + 1 ELSE attempts[p]]

\* The request handler.  A detail stream reads its snapshot here, before the response starts.
Accept(s) ==
    LET sc == scope[stream[s].page]
    IN /\ stream[s].phase = "requested"
       /\ OfDetail(sc) => TenantOf(sc.id) = sc.tenant /\ row[sc.id] > 0
       /\ stream' = [stream EXCEPT ![s].phase = "accepted",
                                   ![s].snapshot = IF OfDetail(sc) THEN DetailRow(sc) ELSE @]
       /\ UNCHANGED <<row, said, alone, pageVars>>

\* No such deployment: 404.
Refuse(s) ==
    LET sc == scope[stream[s].page]
    IN /\ stream[s].phase = "requested"
       /\ OfDetail(sc)
       /\ TenantOf(sc.id) # sc.tenant \/ row[sc.id] = 0
       /\ stream' = [stream EXCEPT ![s] = FreeStream]
       /\ FailedPages({p \in Pages : source[p] = s})
       /\ UNCHANGED <<row, said, alone, scope, view>>

\* The generator starts: it subscribes, and a list stream then reads its snapshot.
Start(s) ==
    LET sc == scope[stream[s].page]
    IN /\ stream[s].phase = "accepted"
       /\ stream' = [stream EXCEPT ![s].phase = IF OfJobs(sc) THEN "streaming" ELSE "subscribed",
                                   ![s].since = said,
                                   ![s].snapshot = IF OfList(sc) THEN Rows(sc) ELSE @]
       /\ status' = [p \in Pages |-> IF source[p] = s THEN "open" ELSE status[p]]
       /\ attempts' = [p \in Pages |-> IF source[p] = s THEN 0 ELSE attempts[p]]
       /\ UNCHANGED <<row, said, alone, scope, source, view>>

\* The page's handlers: a list snapshot replaces the cached list, a detail snapshot its deployment.
Shown(p, snapshot) ==
    [x \in Topics |-> IF OfList(scope[p]) \/ x = scope[p].id THEN snapshot[x] ELSE view[p][x]]

\* The snapshot is sent.
Greet(s) ==
    /\ stream[s].phase = "subscribed"
    /\ stream' = [stream EXCEPT ![s].phase = "streaming", ![s].snapshot = Nothing]
    /\ view' = [p \in Pages |-> IF source[p] = s THEN Shown(p, stream[s].snapshot) ELSE view[p]]
    /\ UNCHANGED <<row, said, alone, scope, source, status, attempts>>

\* Mutants: an event is still handled after its source was closed, or waits for a full queue.
ForwardClosed(s) ==
    /\ stream[s].phase = "streaming"
    /\ stream[s].queue # <<>>
    /\ LET e == Head(stream[s].queue)
       IN view' = [view EXCEPT ![stream[s].page][e.about] = e.version]
    /\ stream' = [stream EXCEPT ![s].queue = Tail(@)]
    /\ UNCHANGED <<row, said, alone, scope, source, status, attempts>>

ForwardFull(s) ==
    /\ stream[s].phase = "streaming"
    /\ Len(stream[s].queue) = QueueSize
    /\ LET e == Head(stream[s].queue)
       IN view' = [p \in Pages |-> IF source[p] = s THEN [view[p] EXCEPT ![e.about] = e.version]
                                   ELSE view[p]]
    /\ stream' = [stream EXCEPT ![s].queue = Tail(@)]
    /\ UNCHANGED <<row, said, alone, scope, source, status, attempts>>

\* The oldest event of the queue is sent; a page that has gone loses it.
Forward(s) ==
    /\ stream[s].phase = "streaming"
    /\ stream[s].queue # <<>>
    /\ LET e == Head(stream[s].queue)
       IN view' = [p \in Pages |-> IF source[p] = s THEN [view[p] EXCEPT ![e.about] = e.version]
                                   ELSE view[p]]
    /\ stream' = [stream EXCEPT ![s].queue = Tail(@)]
    /\ UNCHANGED <<row, said, alone, scope, source, status, attempts>>

\* The server notices that the page has gone: the subscription is removed.
Close(s) ==
    /\ stream[s].phase # "free"
    /\ ~Attached(s)
    /\ stream' = [stream EXCEPT ![s] = FreeStream]
    /\ UNCHANGED <<row, said, alone, pageVars>>

-----------------------------------------------------------------------------
(* The page. *)

Request(p, s) ==
    /\ stream[s].phase = "free"
    /\ stream' = [stream EXCEPT ![s] = [FreeStream EXCEPT !.phase = "requested", !.page = p]]
    /\ source' = [source EXCEPT ![p] = s]
    /\ status' = [status EXCEPT ![p] = "connecting"]

\* The page is opened.
Mount(p) ==
    /\ status[p] = "off"
    /\ \E s \in Streams : Request(p, s)
    /\ attempts' = [attempts EXCEPT ![p] = 0]
    /\ UNCHANGED <<row, said, alone, scope, view>>

\* The back-off timer fires; the source of a jobs page was not closed and retries by itself.
Reconnect(p) ==
    /\ \/ status[p] = "backoff"
       \/ status[p] = "failed" /\ OfJobs(scope[p])
    /\ \E s \in Streams : Request(p, s)
    /\ UNCHANGED <<row, said, alone, scope, attempts, view>>

\* The page is left.
Unmount(p) ==
    /\ status[p] # "off"
    /\ source' = [source EXCEPT ![p] = NoStream]
    /\ status' = [status EXCEPT ![p] = "off"]
    /\ UNCHANGED <<row, said, alone, stream, scope, attempts, view>>

\* The connection breaks.
Disconnect(p) ==
    /\ "network" \in Faults
    /\ source[p] # NoStream
    /\ FailedPages({p})
    /\ UNCHANGED <<row, said, alone, stream, scope, view>>

\* The server restarts: subscriptions and queues were in memory.
Restart ==
    /\ "restart" \in Faults
    /\ stream' = [s \in Streams |-> FreeStream]
    /\ FailedPages({p \in Pages : source[p] # NoStream})
    /\ UNCHANGED <<row, said, alone, scope, view>>

-----------------------------------------------------------------------------
Next ==
    \/ \E d \in Deployments : Announce(d) \/ AnnounceHalf(d) \/ WriteSilently(d)
    \/ \E j \in Jobs : Progress(j) \/ ChangeJobStatus(j)
    \/ \E s \in Streams : Accept(s) \/ Refuse(s) \/ Start(s) \/ Greet(s) \/ Forward(s) \/ Close(s)
    \/ \E p \in Pages : Mount(p) \/ Reconnect(p) \/ Unmount(p) \/ Disconnect(p)
    \/ Restart

Spec == Init /\ [][Next]_vars

\* The event loop runs every stream it has accepted.
FairSpec ==
    /\ Spec
    /\ \A s \in Streams : /\ WF_vars(Accept(s) \/ Refuse(s))
                          /\ WF_vars(Start(s))
                          /\ WF_vars(Greet(s))
                          /\ WF_vars(Forward(s))

-----------------------------------------------------------------------------
(* Properties. *)

Stream == [phase : Phases, page : Pages, snapshot : [Topics -> Nat], since : [Topics -> Nat],
           queue : Seq(Events), dropped : BOOLEAN]

\* Every variable has its type, and no queue exceeds its size (sse_pubsub_service.py:38).
TypeOK ==
    /\ row \in [Topics -> Nat]
    /\ said \in [Topics -> Nat]
    /\ alone \in [Tenants -> Nat]
    /\ stream \in [Streams -> Stream]
    /\ scope \in [Pages -> Scopes]
    /\ source \in [Pages -> Streams \cup {NoStream}]
    /\ status \in [Pages -> {"off", "connecting", "open", "backoff", "failed"}]
    /\ attempts \in [Pages -> 0 .. MaxAttempts]
    /\ view \in [Pages -> [Topics -> Nat]]
    /\ \A s \in Streams : Len(stream[s].queue) <= QueueSize

\* The page of stream st shows x at version v or later, or something on its way to it does.
Coming(st, x, v) ==
    \/ st.phase = "subscribed" /\ st.snapshot[x] >= v
    \/ st.phase = "streaming" /\ view[st.page][x] >= v
    \/ \E i \in DOMAIN st.queue : st.queue[i].about = x /\ st.queue[i].version >= v

\* The topics a scope's stream is about.
Concerns(sc, x) ==
    /\ TenantOf(x) = sc.tenant
    /\ \/ OfList(sc) /\ x \notin Jobs
       \/ OfDetail(sc) /\ x = sc.id
       \/ OfJobs(sc) /\ x \in Jobs /\ OfScope(sc, x)

\* As long as its queue has not overflowed, the last word about every deployment is on a list
\* page or on its way, whenever it was announced: subscribing before the snapshot leaves no
\* gap (sse.py:255-266).  A detail or jobs page is promised what was announced after its
\* stream subscribed.
LastWordIsComing ==
    \A s \in Streams :
        Subscribed(stream[s]) /\ Attached(s) /\ ~stream[s].dropped =>
            LET sc == scope[stream[s].page]
            IN \A x \in Topics :
                Concerns(sc, x) /\ (OfList(sc) \/ said[x] > stream[s].since[x])
                    => Coming(stream[s], x, said[x])

\* Even a queue that overflows keeps the newest counters, because the oldest event goes and an
\* announcement ends with its counters (sse_pubsub_service.py:160-171, promotions.py:1430-1431):
\* only QueueSize upserts whose counters could not be read push them out.
CountersSurviveOverflow ==
    \A s \in Streams :
        LET sc == scope[stream[s].page]
        IN Subscribed(stream[s]) /\ Attached(s) /\ OfList(sc) /\ alone[sc.tenant] < QueueSize
                => Coming(stream[s], sc.tenant, said[sc.tenant])

\* A page never goes back to an older version of a row, across queues that overflow,
\* reconnections and restarts.
NeverBackwards ==
    [][\A p \in Pages, x \in Topics : view'[p][x] >= view[p][x]]_vars

\* The topics a page may show: a detail page also receives the counters.
MayShow(sc, x) ==
    \/ Concerns(sc, x)
    \/ OfDetail(sc) /\ x = sc.tenant

\* A page never shows a row of another tenant, nor a row its scope is not about, whatever the
\* order of its connections (sse_pubsub_service.py:110-158).
Isolation ==
    \A p \in Pages, x \in Topics : view[p][x] > 0 => MayShow(scope[p], x)

\* The pages as replicas of the rows.
Replica == INSTANCE MonotoneReplicas WITH
    stored <- row,
    allowed <- [p \in Pages |-> {x \in Topics : MayShow(scope[p], x)}],
    known <- view

\* However queues overflow, connections break and overlap, and the server restarts, every page is
\* a replica of the rows it may show: it changes only by learning versions that are newer than
\* those it shows and that were stored, each step on one page
\* (sse.py:255-330, use-deployments-sse.ts:69-206).
PagesReplicate == Replica!Spec

\* Once announcements stop, a list page that stays connected shows the last word about every
\* deployment, unless its queue overflowed.
EventuallyShown ==
    \A p \in Pages :
        OfList(scope[p]) => []<>( \/ status[p] # "open"
                                 \/ stream[source[p]].dropped
                                 \/ \A x \in Topics : Concerns(scope[p], x) => view[p][x] >= said[x] )
=============================================================================
