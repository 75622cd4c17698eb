-------------------------- MODULE LiveUpdatesProofs --------------------------
(***************************************************************************)
(* What the live updates guarantee for every number of pages, streams and  *)
(* rows, every queue size and every set of faults.                         *)
(***************************************************************************)
EXTENDS LiveUpdates, TLAPS

USE TopicsAssumption, ScopesAssumption, BoundsAssumption DEF ScopeKinds

-----------------------------------------------------------------------------
(* The queue of a subscription. *)

\* n is queue q after event e was pushed.
IsPushed(q, e, n) ==
    /\ n \in Seq(Events)
    /\ Len(n) \in 1 .. QueueSize
    /\ n[Len(n)] = e
    /\ Len(q) < QueueSize => Len(n) = Len(q) + 1 /\ \A i \in 1 .. Len(q) : n[i] = q[i]
    /\ Len(q) >= QueueSize => Len(n) = Len(q) /\ \A i \in 1 .. (Len(q) - 1) : n[i] = q[i + 1]

\* Pushing keeps the order and the newest events: without overflow nothing goes, with overflow
\* the oldest goes, and the new event is the last (sse_pubsub_service.py:160-171).
LEMMA PushFacts ==
    ASSUME NEW q \in Seq(Events), NEW e \in Events, Len(q) <= QueueSize
    PROVE  IsPushed(q, e, Push(q, e))
<1>1. CASE Len(q) < QueueSize
  BY <1>1 DEF Push, IsPushed
<1>2. CASE Len(q) >= QueueSize
  <2> DEFINE t == Tail(q)
  <2>1. q # <<>> /\ t \in Seq(Events) /\ Len(t) = Len(q) - 1
    BY <1>2
  <2>2. \A i \in 1 .. Len(t) : t[i] = q[i + 1]
    BY <2>1
  <2>3. Push(q, e) = Append(t, e)
    BY <1>2 DEF Push
  <2> HIDE DEF t
  <2> QED  BY <1>2, <2>1, <2>2, <2>3 DEF IsPushed
<1> QED  BY <1>1, <1>2

LEMMA FreeStreamType == FreeStream \in Stream /\ FreeStream.phase = "free" /\ Len(FreeStream.queue) = 0
<1>1. \E p \in Pages : TRUE
  OBVIOUS
<1>2. (CHOOSE p \in Pages : TRUE) \in Pages
  BY <1>1
<1> QED  BY <1>2 DEF FreeStream, Stream, Phases, Nothing

\* A delivery leaves the record of the stream as it was, but for its queue and its overflow mark.
LEMMA DeliverFacts ==
    ASSUME NEW st \in Stream, NEW e \in Events, Len(st.queue) <= QueueSize
    PROVE  LET dl == Deliver(st, e)
           IN /\ dl \in Stream
              /\ Len(dl.queue) <= QueueSize
              /\ dl.phase = st.phase /\ dl.page = st.page
              /\ dl.snapshot = st.snapshot /\ dl.since = st.since
              /\ IF Subscribed(st) /\ Reaches(e, scope[st.page])
                 THEN /\ dl.queue = Push(st.queue, e)
                      /\ dl.dropped = (st.dropped \/ Len(st.queue) >= QueueSize)
                 ELSE dl = st
<1>1. st.queue \in Seq(Events)
  BY DEF Stream
<1> DEFINE p == Push(st.queue, e)
<1>2. p \in Seq(Events) /\ Len(p) \in 1 .. QueueSize
  BY <1>1, PushFacts DEF IsPushed
<1> HIDE DEF p
<1>3. Len(p) <= QueueSize
  BY <1>2
<1> QED  BY <1>1, <1>2, <1>3 DEF Deliver, Stream, p

-----------------------------------------------------------------------------
(* Types. *)

LEMMA EventFields ==
    ASSUME NEW e \in Events
    PROVE  e.about \in Topics /\ e.version \in Nat
BY DEF Events, Topics

\* The events the actions publish, and the rows they write.
LEMMA EventTypes ==
    ASSUME TypeOK, NEW d \in Deployments
    PROVE  /\ d \in Topics /\ Owner[d] \in Tenants /\ Owner[d] \in Topics
           /\ Upsert(d) \in Events /\ Counts(Owner[d]) \in Events
           /\ Written(d) \in [Topics -> Nat]
<1>1. d \in Topics /\ Owner[d] \in Tenants /\ Owner[d] \in Topics
  BY DEF Topics
<1>2. row \in [Topics -> Nat] /\ row[d] + 1 \in Nat /\ row[Owner[d]] + 1 \in Nat
  BY <1>1 DEF TypeOK
<1>3. Upsert(d) \in Events /\ Counts(Owner[d]) \in Events
  BY <1>1, <1>2 DEF Upsert, Counts, Events
<1>4. [row EXCEPT ![d] = @ + 1] \in [Topics -> Nat]
  BY <1>1, <1>2
<1>5. Written(d) \in [Topics -> Nat]
  BY <1>1, <1>4 DEF Written
<1> QED  BY <1>1, <1>3, <1>5

LEMMA JobEventTypes ==
    ASSUME TypeOK, NEW j \in Jobs
    PROVE  /\ j \in Topics
           /\ [type |-> "progress", about |-> j, version |-> row[j] + 1] \in Events
           /\ [type |-> "job.status_changed", about |-> j, version |-> row[j] + 1] \in Events
           /\ [row EXCEPT ![j] = @ + 1] \in [Topics -> Nat]
<1>1. j \in Topics
  BY DEF Topics
<1> QED  BY <1>1 DEF TypeOK, Events

LEMMA PublishTypes ==
    ASSUME TypeOK, NEW e \in Events
    PROVE  /\ Publish(e) \in [Streams -> Stream]
           /\ \A s \in Streams : Len(Publish(e)[s].queue) <= QueueSize
<1>1. ASSUME NEW s \in Streams
      PROVE  stream[s] \in Stream /\ Len(stream[s].queue) <= QueueSize
  BY DEF TypeOK
<1>2. ASSUME NEW s \in Streams
      PROVE  Deliver(stream[s], e) \in Stream /\ Len(Deliver(stream[s], e).queue) <= QueueSize
  BY <1>1, DeliverFacts
<1> QED  BY <1>2 DEF Publish

LEMMA PublishBothTypes ==
    ASSUME TypeOK, NEW e \in Events, NEW f \in Events
    PROVE  /\ PublishBoth(e, f) \in [Streams -> Stream]
           /\ \A s \in Streams : Len(PublishBoth(e, f)[s].queue) <= QueueSize
<1>1. ASSUME NEW s \in Streams
      PROVE  /\ Deliver(Deliver(stream[s], e), f) \in Stream
             /\ Len(Deliver(Deliver(stream[s], e), f).queue) <= QueueSize
  <2> DEFINE first == Deliver(stream[s], e)
  <2>1. stream[s] \in Stream /\ Len(stream[s].queue) <= QueueSize
    BY DEF TypeOK
  <2>2. first \in Stream /\ Len(first.queue) <= QueueSize
    BY <2>1, DeliverFacts
  <2> HIDE DEF first
  <2>3. Deliver(first, f) \in Stream /\ Len(Deliver(first, f).queue) <= QueueSize
    BY <2>2, DeliverFacts
  <2> QED  BY <2>3 DEF first
<1> QED  BY <1>1 DEF PublishBoth

LEMMA FailedTypes ==
    ASSUME TypeOK, NEW ps, FailedPages(ps)
    PROVE  /\ source' \in [Pages -> Streams \cup {NoStream}]
           /\ status' \in [Pages -> {"off", "connecting", "open", "backoff", "failed"}]
           /\ attempts' \in [Pages -> 0 .. MaxAttempts]
BY DEF TypeOK, FailedPages

LEMMA TypeStep == TypeOK /\ [Next]_vars => TypeOK'
<1> SUFFICES ASSUME TypeOK, [Next]_vars PROVE TypeOK'
  OBVIOUS
<1>1. ASSUME NEW d \in Deployments, Announce(d) PROVE TypeOK'
  <2>1. /\ row' \in [Topics -> Nat]
        /\ stream' \in [Streams -> Stream] /\ \A s \in Streams : Len(stream'[s].queue) <= QueueSize
        /\ d \in Topics /\ Owner[d] \in Tenants /\ Owner[d] \in Topics
    BY <1>1, EventTypes, PublishBothTypes DEF Announce
  <2>2. /\ said \in [Topics -> Nat] /\ row[d] + 1 \in Nat /\ row[Owner[d]] + 1 \in Nat
        /\ alone \in [Tenants -> Nat]
    BY <2>1 DEF TypeOK
  <2>3. said' \in [Topics -> Nat] /\ alone' \in [Tenants -> Nat] /\ UNCHANGED pageVars
    BY <1>1, <2>1, <2>2 DEF Announce
  <2> QED  BY <2>1, <2>3 DEF TypeOK, pageVars
<1>2. ASSUME NEW d \in Deployments, AnnounceHalf(d) PROVE TypeOK'
  <2>1. /\ row' \in [Topics -> Nat]
        /\ stream' \in [Streams -> Stream] /\ \A s \in Streams : Len(stream'[s].queue) <= QueueSize
        /\ d \in Topics /\ Owner[d] \in Tenants
    BY <1>2, EventTypes, PublishTypes DEF AnnounceHalf
  <2>2. /\ said \in [Topics -> Nat] /\ row[d] + 1 \in Nat
        /\ alone \in [Tenants -> Nat] /\ alone[Owner[d]] + 1 \in Nat
    BY <1>2, EventTypes DEF TypeOK
  <2>3. said' \in [Topics -> Nat] /\ alone' \in [Tenants -> Nat] /\ UNCHANGED pageVars
    BY <1>2, <2>1, <2>2 DEF AnnounceHalf
  <2> QED  BY <2>1, <2>3 DEF TypeOK, pageVars
<1>3. ASSUME NEW d \in Deployments, WriteSilently(d) PROVE TypeOK'
  <2>1. row' \in [Topics -> Nat]
    BY <1>3, EventTypes DEF WriteSilently
  <2> QED  BY <1>3, <2>1 DEF TypeOK, WriteSilently, pageVars
<1>4. ASSUME NEW j \in Jobs, Progress(j) PROVE TypeOK'
  <2>1. /\ row' \in [Topics -> Nat] /\ j \in Topics
        /\ stream' \in [Streams -> Stream] /\ \A s \in Streams : Len(stream'[s].queue) <= QueueSize
    BY <1>4, JobEventTypes, PublishTypes DEF Progress
  <2> QED  BY <1>4, <2>1 DEF TypeOK, Progress, pageVars
<1>5. ASSUME NEW j \in Jobs, ChangeJobStatus(j) PROVE TypeOK'
  <2>1. /\ row' \in [Topics -> Nat]
        /\ stream' \in [Streams -> Stream] /\ \A s \in Streams : Len(stream'[s].queue) <= QueueSize
    BY <1>5, JobEventTypes, PublishTypes DEF ChangeJobStatus
  <2> QED  BY <1>5, <2>1 DEF TypeOK, ChangeJobStatus, pageVars
<1>6. ASSUME NEW s \in Streams, Accept(s) PROVE TypeOK'
  <2> DEFINE sc == scope[stream[s].page]
  <2>1. OfDetail(sc) => DetailRow(sc) \in [Topics -> Nat]
    BY DEF TypeOK, Stream, DetailRow, Nothing, OfDetail, Topics
  <2>2. stream[s] \in Stream /\ stream \in [Streams -> Stream]
    BY DEF TypeOK
  <2>3. stream'[s] \in Stream /\ stream'[s].queue = stream[s].queue
    BY <1>6, <2>1, <2>2 DEF Accept, Stream, Phases
  <2>4. stream' \in [Streams -> Stream] /\ \A r \in Streams : stream'[r].queue = stream[r].queue
    BY <1>6, <2>2, <2>3 DEF Accept
  <2> QED  BY <1>6, <2>4 DEF TypeOK, Accept, pageVars
<1>7. ASSUME NEW s \in Streams, Refuse(s) PROVE TypeOK'
  <2>1. /\ source' \in [Pages -> Streams \cup {NoStream}]
        /\ status' \in [Pages -> {"off", "connecting", "open", "backoff", "failed"}]
        /\ attempts' \in [Pages -> 0 .. MaxAttempts]
    BY <1>7, FailedTypes DEF Refuse
  <2> QED  BY <1>7, <2>1, FreeStreamType DEF TypeOK, Refuse
<1>8. ASSUME NEW s \in Streams, Start(s) PROVE TypeOK'
  <2>1. \A sc : Rows(sc) \in [Topics -> Nat]
    BY DEF TypeOK, Rows
  <2>2. stream[s] \in Stream /\ stream \in [Streams -> Stream] /\ said \in [Topics -> Nat]
    BY DEF TypeOK
  <2>3. stream'[s] \in Stream /\ stream'[s].queue = stream[s].queue
    BY <1>8, <2>1, <2>2 DEF Start, Stream, Phases
  <2>4. stream' \in [Streams -> Stream] /\ \A r \in Streams : stream'[r].queue = stream[r].queue
    BY <1>8, <2>2, <2>3 DEF Start
  <2>5. status' \in [Pages -> {"off", "connecting", "open", "backoff", "failed"}]
        /\ attempts' \in [Pages -> 0 .. MaxAttempts]
    BY <1>8 DEF TypeOK, Start
  <2> QED  BY <1>8, <2>4, <2>5 DEF TypeOK, Start
<1>9. ASSUME NEW s \in Streams, Greet(s) PROVE TypeOK'
  <2>1. \A p \in Pages : Shown(p, stream[s].snapshot) \in [Topics -> Nat]
    BY DEF TypeOK, Shown, Stream
  <2>2. Nothing \in [Topics -> Nat]
    BY DEF Nothing
  <2>3. stream[s] \in Stream /\ stream \in [Streams -> Stream]
    BY DEF TypeOK
  <2>4. stream'[s] \in Stream /\ stream'[s].queue = stream[s].queue
    BY <1>9, <2>2, <2>3 DEF Greet, Stream, Phases
  <2>5. stream' \in [Streams -> Stream] /\ \A r \in Streams : stream'[r].queue = stream[r].queue
    BY <1>9, <2>3, <2>4 DEF Greet
  <2>6. view' \in [Pages -> [Topics -> Nat]]
    BY <1>9, <2>1 DEF TypeOK, Greet
  <2> QED  BY <1>9, <2>5, <2>6 DEF TypeOK, Greet
<1>10. ASSUME NEW s \in Streams, Forward(s) PROVE TypeOK'
  <2>1. stream[s].queue \in Seq(Events) /\ stream[s].queue # <<>> /\ Len(stream[s].queue) <= QueueSize
    BY <1>10 DEF TypeOK, Forward, Stream
  <2>2. Head(stream[s].queue) \in Events /\ Tail(stream[s].queue) \in Seq(Events)
        /\ Len(Tail(stream[s].queue)) <= QueueSize
    BY <2>1
  <2>3. stream[s] \in Stream /\ stream \in [Streams -> Stream]
        /\ \A r \in Streams : Len(stream[r].queue) <= QueueSize
    BY DEF TypeOK
  <2>4. stream'[s] \in Stream /\ stream'[s].queue = Tail(stream[s].queue)
    BY <1>10, <2>2, <2>3 DEF Forward, Stream
  <2>5. stream' \in [Streams -> Stream] /\ \A r \in Streams : Len(stream'[r].queue) <= QueueSize
    BY <1>10, <2>2, <2>3, <2>4 DEF Forward
  <2>6. Head(stream[s].queue).about \in Topics /\ Head(stream[s].queue).version \in Nat
    BY <2>2, EventFields
  <2>7. view' \in [Pages -> [Topics -> Nat]]
    BY <1>10, <2>6 DEF TypeOK, Forward
  <2> QED  BY <1>10, <2>5, <2>7 DEF TypeOK, Forward
<1>11. ASSUME NEW s \in Streams, Close(s) PROVE TypeOK'
  BY <1>11, FreeStreamType DEF TypeOK, Close, pageVars
<1>12. ASSUME NEW p \in Pages, NEW s \in Streams, Request(p, s),
              attempts' \in [Pages -> 0 .. MaxAttempts], UNCHANGED <<row, said, alone, scope, view>>
       PROVE  TypeOK'
  <2> DEFINE st == [FreeStream EXCEPT !.phase = "requested", !.page = p]
  <2>0. FreeStream \in Stream /\ Len(FreeStream.queue) = 0 /\ "requested" \in Phases
    BY FreeStreamType DEF Phases
  <2>3. st \in Stream /\ st.queue = FreeStream.queue
    BY <2>0 DEF Stream
  <2>1. st \in Stream /\ Len(st.queue) <= QueueSize
    BY <2>0, <2>3
  <2>2. stream' = [stream EXCEPT ![s] = st] /\ source' = [source EXCEPT ![p] = s]
        /\ status' = [status EXCEPT ![p] = "connecting"]
    BY <1>12 DEF Request
  <2> HIDE DEF st
  <2> QED  BY <1>12, <2>1, <2>2 DEF TypeOK
<1>13. ASSUME NEW p \in Pages, Mount(p) PROVE TypeOK'
  <2>1. attempts' \in [Pages -> 0 .. MaxAttempts]
    BY <1>13 DEF TypeOK, Mount
  <2> QED  BY <1>12, <1>13, <2>1 DEF Mount
<1>14. ASSUME NEW p \in Pages, Reconnect(p) PROVE TypeOK'
  <2>1. attempts' \in [Pages -> 0 .. MaxAttempts]
    BY <1>14 DEF TypeOK, Reconnect
  <2> QED  BY <1>12, <1>14, <2>1 DEF Reconnect
<1>15. ASSUME NEW p \in Pages, Unmount(p) PROVE TypeOK'
  BY <1>15 DEF TypeOK, Unmount
<1>16. ASSUME NEW p \in Pages, Disconnect(p) PROVE TypeOK'
  <2>1. /\ source' \in [Pages -> Streams \cup {NoStream}]
        /\ status' \in [Pages -> {"off", "connecting", "open", "backoff", "failed"}]
        /\ attempts' \in [Pages -> 0 .. MaxAttempts]
    BY <1>16, FailedTypes DEF Disconnect
  <2> QED  BY <1>16, <2>1 DEF TypeOK, Disconnect
<1>17. CASE Restart
  <2>1. /\ source' \in [Pages -> Streams \cup {NoStream}]
        /\ status' \in [Pages -> {"off", "connecting", "open", "backoff", "failed"}]
        /\ attempts' \in [Pages -> 0 .. MaxAttempts]
    BY <1>17, FailedTypes DEF Restart
  <2> QED  BY <1>17, <2>1, FreeStreamType DEF TypeOK, Restart
<1>18. CASE UNCHANGED vars
  BY <1>18 DEF TypeOK, vars
<1> QED
  BY <1>1, <1>2, <1>3, <1>4, <1>5, <1>6, <1>7, <1>8, <1>9, <1>10, <1>11, <1>13, <1>14, <1>15,
     <1>16, <1>17, <1>18 DEF Next

\* The variables keep their types and no queue exceeds its size.
THEOREM TypeCorrect == Spec => []TypeOK
<1>1. Init => TypeOK
  BY FreeStreamType DEF Init, TypeOK, Nothing
<1> QED  BY <1>1, TypeStep, PTL DEF Spec

-----------------------------------------------------------------------------
(* Coherence: what is under way to a page is in order and newer than what it shows. *)

\* A page's stream is the one that serves it.
SourcesServe ==
    \A p \in Pages : source[p] \in Streams =>
        stream[source[p]].phase # "free" /\ stream[source[p]].page = p

\* Neither what was published nor what a page shows is newer than the row.
RowIsNewest ==
    /\ \A x \in Topics : said[x] <= row[x]
    /\ \A p \in Pages, x \in Topics : view[p][x] <= row[x]

\* The queue is in order, between what the page shows (or will, once greeted) and the rows r.
GoodQueue(st, r) ==
    /\ ~Subscribed(st) => st.queue = <<>> /\ ~st.dropped
    /\ \A i \in 1 .. Len(st.queue) :
          /\ Reaches(st.queue[i], scope[st.page])
          /\ st.queue[i].version <= r[st.queue[i].about]
          /\ view[st.page][st.queue[i].about] <= st.queue[i].version
          /\ st.phase = "subscribed" => st.snapshot[st.queue[i].about] <= st.queue[i].version
    /\ \A i, j \in 1 .. Len(st.queue) :
          i < j /\ st.queue[i].about = st.queue[j].about
              => st.queue[i].version <= st.queue[j].version

\* The snapshot is not older than what the page shows, nor newer than the rows r.
GoodSnapshot(st, r) ==
    LET sc == scope[st.page]
    IN /\ st.phase = "subscribed" => ~OfJobs(sc)
       /\ st.phase = "subscribed" /\ OfList(sc) =>
             \A x \in Topics : /\ view[st.page][x] <= st.snapshot[x]
                               /\ st.snapshot[x] <= r[x]
                               /\ st.snapshot[x] > 0 => Concerns(sc, x)
       /\ st.phase \in {"accepted", "subscribed"} /\ OfDetail(sc) =>
             /\ TenantOf(sc.id) = sc.tenant
             /\ view[st.page][sc.id] <= st.snapshot[sc.id]
             /\ \A x \in Topics : st.snapshot[x] <= r[x]

Coherent ==
    /\ SourcesServe
    /\ RowIsNewest
    /\ Isolation
    /\ \A s \in Streams : Attached(s) => GoodQueue(stream[s], row) /\ GoodSnapshot(stream[s], row)

LEMMA DeliverGoodQueue ==
    ASSUME TypeOK, NEW st \in Stream, Len(st.queue) <= QueueSize, NEW r \in [Topics -> Nat],
           GoodQueue(st, r), GoodSnapshot(st, r),
           NEW e \in Events, e.version = r[e.about],
           \A x \in Topics : view[st.page][x] <= r[x]
    PROVE  GoodQueue(Deliver(st, e), r) /\ GoodSnapshot(Deliver(st, e), r)
<1> DEFINE dl == Deliver(st, e)
           q == st.queue
           n == dl.queue
<1>1. /\ dl \in Stream /\ dl.phase = st.phase /\ dl.page = st.page /\ dl.snapshot = st.snapshot
      /\ IF Subscribed(st) /\ Reaches(e, scope[st.page])
         THEN n = Push(q, e)
         ELSE dl = st
  BY DeliverFacts
<1>2. q \in Seq(Events) /\ n \in Seq(Events) /\ st.page \in Pages
  BY <1>1 DEF Stream
<1>5. n = dl.queue
  OBVIOUS
<1> HIDE DEF dl, n
<1> SUFFICES GoodQueue(dl, r) /\ GoodSnapshot(dl, r)
  BY DEF dl
<1>3. CASE ~(Subscribed(st) /\ Reaches(e, scope[st.page]))
  BY <1>1, <1>3
<1>4. CASE Subscribed(st) /\ Reaches(e, scope[st.page])
  <2>1. n = Push(q, e)
    BY <1>1, <1>4
  <2>2. /\ Len(n) \in 1 .. QueueSize /\ n[Len(n)] = e
        /\ Len(q) < QueueSize => Len(n) = Len(q) + 1 /\ \A i \in 1 .. Len(q) : n[i] = q[i]
        /\ Len(q) >= QueueSize => Len(n) = Len(q) /\ \A i \in 1 .. (Len(q) - 1) : n[i] = q[i + 1]
    <3>1. IsPushed(q, e, Push(q, e))
      BY <1>2, PushFacts
    <3> QED  BY <3>1, <2>1 DEF IsPushed
  <2>3. e.about \in Topics /\ e.version \in Nat
    BY EventFields
  <2>5. st.phase = "subscribed" => st.snapshot[e.about] <= e.version
    <3> DEFINE sc == scope[st.page]
    <3>1. ASSUME st.phase = "subscribed" PROVE OfList(sc) \/ OfDetail(sc)
      BY <3>1 DEF GoodSnapshot, OfJobs
    <3>2. ASSUME st.phase = "subscribed" PROVE \A x \in Topics : st.snapshot[x] <= r[x]
      BY <3>1, <3>2 DEF GoodSnapshot
    <3> QED  BY <3>2, <2>3
  <2>6. \A i \in 1 .. Len(n) : /\ Reaches(n[i], scope[st.page])
                               /\ n[i].version <= r[n[i].about]
                               /\ view[st.page][n[i].about] <= n[i].version
                               /\ st.phase = "subscribed" => st.snapshot[n[i].about] <= n[i].version
    <3> SUFFICES ASSUME NEW i \in 1 .. Len(n)
                 PROVE  /\ Reaches(n[i], scope[st.page])
                        /\ n[i].version <= r[n[i].about]
                        /\ view[st.page][n[i].about] <= n[i].version
                        /\ st.phase = "subscribed" => st.snapshot[n[i].about] <= n[i].version
      OBVIOUS
    <3>1. CASE i = Len(n)
      BY <3>1, <2>2, <2>3, <2>5, <1>4
    <3>2. CASE i < Len(n)
      <4>1. \E k \in 1 .. Len(q) : n[i] = q[k]
        <5>1. Len(q) \in Nat /\ Len(n) \in Nat
          BY <1>2
        <5>2. CASE Len(q) < QueueSize
          BY <5>1, <5>2, <3>2, <2>2
        <5>3. CASE Len(q) >= QueueSize
          <6>1. i \in 1 .. (Len(q) - 1) /\ i + 1 \in 1 .. Len(q)
            BY <5>1, <5>3, <3>2, <2>2
          <6> QED  BY <6>1, <5>3, <2>2
        <5> QED  BY <5>1, <5>2, <5>3
      <4> QED  BY <4>1 DEF GoodQueue
    <3> QED  BY <3>1, <3>2, <2>2
  <2>7. ASSUME NEW i \in 1 .. Len(n), NEW j \in 1 .. Len(n), i < j, n[i].about = n[j].about
        PROVE  n[i].version <= n[j].version
    <3>1. CASE j = Len(n)
      BY <3>1, <2>2, <2>3, <2>6, <2>7
    <3>2. CASE j < Len(n)
      <4>1. \E k, m \in 1 .. Len(q) : k < m /\ n[i] = q[k] /\ n[j] = q[m]
        <5>1. Len(q) \in Nat /\ Len(n) \in Nat
          BY <1>2
        <5>2. CASE Len(q) < QueueSize
          BY <5>1, <5>2, <3>2, <2>2, <2>7
        <5>3. CASE Len(q) >= QueueSize
          <6>1. /\ i \in 1 .. (Len(q) - 1) /\ i + 1 \in 1 .. Len(q)
                /\ j \in 1 .. (Len(q) - 1) /\ j + 1 \in 1 .. Len(q) /\ i + 1 < j + 1
            BY <5>1, <5>3, <3>2, <2>2, <2>7
          <6> QED  BY <6>1, <5>3, <2>2
        <5> QED  BY <5>1, <5>2, <5>3
      <4> QED  BY <4>1, <2>7 DEF GoodQueue
    <3> QED  BY <3>1, <3>2, <2>2
  <2>8. Subscribed(dl)
    BY <1>1, <1>4 DEF Subscribed
  <2>9. GoodQueue(dl, r)
    BY <1>1, <1>5, <2>6, <2>7, <2>8 DEF GoodQueue
  <2> QED  BY <2>9, <1>1 DEF GoodSnapshot
<1> QED  BY <1>3, <1>4

\* What a step that publishes does to the streams.
Published(str) ==
    \A s \in Streams : /\ str[s].phase = stream[s].phase
                       /\ str[s].page = stream[s].page
                       /\ Attached(s) => GoodQueue(str[s], row') /\ GoodSnapshot(str[s], row')

LEMMA GoodGrows ==
    ASSUME TypeOK, NEW st \in Stream, GoodQueue(st, row), GoodSnapshot(st, row),
           NEW r \in [Topics -> Nat], \A x \in Topics : row[x] <= r[x]
    PROVE  GoodQueue(st, r) /\ GoodSnapshot(st, r)
<1>1. /\ row \in [Topics -> Nat] /\ st.snapshot \in [Topics -> Nat]
      /\ st.queue \in Seq(Events)
  BY DEF TypeOK, Stream
<1>2. \A i \in 1 .. Len(st.queue) : st.queue[i].about \in Topics /\ st.queue[i].version \in Nat
  <2> DEFINE q == st.queue
  <2> HIDE DEF q
  <2>1. q \in Seq(Events)
    BY <1>1 DEF q
  <2>2. \A i \in 1 .. Len(q) : q[i] \in Events
    BY <2>1
  <2>3. \A i \in 1 .. Len(q) : q[i].about \in Topics /\ q[i].version \in Nat
    BY <2>2, EventFields
  <2> QED  BY <2>3 DEF q
<1>3. \A i \in 1 .. Len(st.queue) :
        st.queue[i].version <= row[st.queue[i].about] => st.queue[i].version <= r[st.queue[i].about]
  BY <1>1, <1>2
<1>4. \A x \in Topics : st.snapshot[x] <= row[x] => st.snapshot[x] <= r[x]
  BY <1>1
<1>5. GoodQueue(st, r)
  BY <1>3 DEF GoodQueue
<1>6. GoodSnapshot(st, r)
  BY <1>4 DEF GoodSnapshot
<1> QED  BY <1>5, <1>6

LEMMA PublishGood ==
    ASSUME TypeOK, Coherent, row' \in [Topics -> Nat], \A x \in Topics : row[x] <= row'[x],
           NEW e \in Events, e.version = row'[e.about]
    PROVE  Published(Publish(e))
<1> SUFFICES ASSUME NEW s \in Streams
             PROVE  LET dl == Deliver(stream[s], e)
                    IN /\ dl.phase = stream[s].phase /\ dl.page = stream[s].page
                       /\ Attached(s) => GoodQueue(dl, row') /\ GoodSnapshot(dl, row')
  BY DEF Published, Publish
<1>1. stream[s] \in Stream /\ Len(stream[s].queue) <= QueueSize /\ stream[s].page \in Pages
  BY DEF TypeOK, Stream
<1>2. Deliver(stream[s], e).phase = stream[s].phase /\ Deliver(stream[s], e).page = stream[s].page
  BY <1>1, DeliverFacts
<1>3. \A x \in Topics : view[stream[s].page][x] <= row'[x]
  BY <1>1 DEF Coherent, RowIsNewest, TypeOK
<1>4. ASSUME Attached(s) PROVE GoodQueue(stream[s], row') /\ GoodSnapshot(stream[s], row')
  BY <1>1, <1>4, GoodGrows DEF Coherent
<1>5. ASSUME Attached(s)
      PROVE  GoodQueue(Deliver(stream[s], e), row') /\ GoodSnapshot(Deliver(stream[s], e), row')
  BY <1>1, <1>3, <1>4, <1>5, DeliverGoodQueue
<1> QED  BY <1>2, <1>5

LEMMA PublishBothGood ==
    ASSUME TypeOK, Coherent, row' \in [Topics -> Nat], \A x \in Topics : row[x] <= row'[x],
           NEW e \in Events, e.version = row'[e.about],
           NEW f \in Events, f.version = row'[f.about]
    PROVE  Published(PublishBoth(e, f))
<1> SUFFICES ASSUME NEW s \in Streams
             PROVE  LET dl == Deliver(Deliver(stream[s], e), f)
                    IN /\ dl.phase = stream[s].phase /\ dl.page = stream[s].page
                       /\ Attached(s) => GoodQueue(dl, row') /\ GoodSnapshot(dl, row')
  BY DEF Published, PublishBoth
<1> DEFINE first == Deliver(stream[s], e)
<1>1. stream[s] \in Stream /\ Len(stream[s].queue) <= QueueSize /\ stream[s].page \in Pages
  BY DEF TypeOK, Stream
<1>2. first \in Stream /\ Len(first.queue) <= QueueSize
      /\ first.phase = stream[s].phase /\ first.page = stream[s].page
  BY <1>1, DeliverFacts
<1>3. \A x \in Topics : view[stream[s].page][x] <= row'[x]
  BY <1>1 DEF Coherent, RowIsNewest, TypeOK
<1>4. ASSUME Attached(s) PROVE GoodQueue(first, row') /\ GoodSnapshot(first, row')
  <2>1. GoodQueue(stream[s], row') /\ GoodSnapshot(stream[s], row')
    BY <1>1, <1>4, GoodGrows DEF Coherent
  <2> QED  BY <1>1, <1>3, <2>1, DeliverGoodQueue
<1> HIDE DEF first
<1>5. Deliver(first, f).phase = first.phase /\ Deliver(first, f).page = first.page
  BY <1>2, DeliverFacts
<1>6. ASSUME Attached(s)
      PROVE  GoodQueue(Deliver(first, f), row') /\ GoodSnapshot(Deliver(first, f), row')
  BY <1>2, <1>3, <1>4, <1>6, DeliverGoodQueue
<1> QED  BY <1>2, <1>5, <1>6 DEF first

LEMMA PublishCoherent ==
    ASSUME TypeOK, Coherent, row' \in [Topics -> Nat], \A x \in Topics : row[x] <= row'[x],
           Published(stream'), UNCHANGED pageVars, \A x \in Topics : said'[x] <= row'[x]
    PROVE  Coherent'
<1>1. SourcesServe'
  BY DEF Coherent, SourcesServe, Published, pageVars
<1>2. RowIsNewest'
  BY DEF Coherent, RowIsNewest, TypeOK, pageVars
<1>3. Isolation'
  BY DEF Coherent, Isolation, pageVars
<1>4. ASSUME NEW s \in Streams, Attached(s)'
      PROVE  (GoodQueue(stream[s], row) /\ GoodSnapshot(stream[s], row))'
  <2>1. Attached(s)
    BY <1>4 DEF Attached, Published, pageVars
  <2>2. GoodQueue(stream'[s], row') /\ GoodSnapshot(stream'[s], row')
    BY <2>1 DEF Published
  <2> QED  BY <2>2 DEF GoodQueue, GoodSnapshot, pageVars
<1> QED  BY <1>1, <1>2, <1>3, <1>4 DEF Coherent

\* A step of the stream or the page of s leaves the other streams as good as they were.
LEMMA OthersGood ==
    ASSUME TypeOK, Coherent, UNCHANGED <<row, scope>>, NEW s \in Streams, NEW r \in Streams, r # s,
           stream'[r] = stream[r], Attached(r), view'[stream[r].page] = view[stream[r].page]
    PROVE  (GoodQueue(stream[r], row) /\ GoodSnapshot(stream[r], row))'
<1>1. GoodQueue(stream[r], row) /\ GoodSnapshot(stream[r], row)
  BY DEF Coherent
<1> QED  BY <1>1 DEF GoodQueue, GoodSnapshot

\* Pages and streams change, what the pages show does not.
LEMMA ServeCoherent ==
    ASSUME TypeOK, Coherent, UNCHANGED <<row, said, scope, view>>, SourcesServe',
           \A r \in Streams : Attached(r)' =>
               \/ (GoodQueue(stream[r], row) /\ GoodSnapshot(stream[r], row))'
               \/ Attached(r) /\ stream'[r] = stream[r]
    PROVE  Coherent'
<1>1. RowIsNewest' /\ Isolation'
  BY DEF Coherent, RowIsNewest, Isolation
<1>2. ASSUME NEW r \in Streams, Attached(r), stream'[r] = stream[r]
      PROVE  (GoodQueue(stream[r], row) /\ GoodSnapshot(stream[r], row))'
  <2>1. GoodQueue(stream[r], row) /\ GoodSnapshot(stream[r], row)
    BY <1>2 DEF Coherent
  <2> QED  BY <1>2, <2>1 DEF GoodQueue, GoodSnapshot
<1> QED  BY <1>1, <1>2 DEF Coherent

LEMMA ConcernedMayShow ==
    ASSUME NEW sc, NEW x, Concerns(sc, x)
    PROVE  MayShow(sc, x)
BY DEF MayShow

LEMMA ReachesConcerned ==
    ASSUME NEW e \in Events, NEW sc \in Scopes, Reaches(e, sc)
    PROVE  MayShow(sc, e.about)
<1>1. CASE e.type = "deployment.upsert"
  <2>1. e.about \notin Jobs
    BY <1>1 DEF Events
  <2>2. TenantOf(e.about) = sc.tenant
        /\ \/ OfList(sc)
           \/ OfDetail(sc) /\ e.about = sc.id
    BY <1>1 DEF Reaches, OfJobs
  <2>3. Concerns(sc, e.about)
    BY <2>1, <2>2 DEF Concerns
  <2> QED  BY <2>3, ConcernedMayShow
<1>2. CASE e.type = "counts.update"
  <2>1. e.about \notin Jobs /\ TenantOf(e.about) = e.about
    BY <1>2 DEF Events, TenantOf
  <2> QED  BY <1>2, <2>1 DEF Reaches, Concerns, MayShow
<1>3. CASE e.type = "progress"
  <2>1. e.about \in Jobs
    BY <1>3 DEF Events
  <2>2. TenantOf(e.about) = sc.tenant /\ OfJobs(sc) /\ OfScope(sc, e.about)
    BY <1>3 DEF Reaches
  <2>3. Concerns(sc, e.about)
    BY <2>1, <2>2 DEF Concerns
  <2> QED  BY <2>3, ConcernedMayShow
<1> QED  BY <1>1, <1>2, <1>3 DEF Reaches

\* What a snapshot changes: the page of the stream only, and never towards older rows.
LEMMA GreetFacts ==
    ASSUME TypeOK, Coherent, NEW s \in Streams, Greet(s), NEW q \in Pages, source[q] = s
    PROVE  LET p == stream[s].page
               sc == scope[p]
           IN  /\ q = p /\ Attached(s)
               /\ \A x \in Topics : view[q][x] <= view'[q][x] /\ view'[q][x] <= row[x]
               /\ \A x \in Topics : view'[q][x] = view[q][x] \/ view'[q][x] = stream[s].snapshot[x]
               /\ \A x \in Topics : view'[q][x] > 0 => MayShow(sc, x)
<1> DEFINE p == stream[s].page
           sc == scope[p]
<1>1. /\ stream[s] \in Stream /\ p \in Pages /\ stream[s].phase = "subscribed"
      /\ UNCHANGED <<row, said, alone, scope, source>>
      /\ \A r \in Streams \ {s} : stream'[r] = stream[r]
      /\ stream'[s].phase = "streaming" /\ stream'[s].page = p
      /\ stream'[s].queue = stream[s].queue /\ stream'[s].dropped = stream[s].dropped
  BY DEF Greet, TypeOK, Stream
<1>2. \A o \in Pages : view'[o] = IF source[o] = s THEN Shown(o, stream[s].snapshot) ELSE view[o]
  BY DEF Greet
<1>3. q = p /\ Attached(s)
  BY <1>1 DEF Coherent, SourcesServe, Attached
<1>4. GoodSnapshot(stream[s], row) /\ ~OfJobs(sc)
  BY <1>1, <1>3 DEF Coherent, GoodSnapshot
<1>5. ASSUME NEW x \in Topics
      PROVE  /\ view[p][x] \in Nat /\ view[p][x] <= row[x]
             /\ view[p][x] > 0 => MayShow(sc, x)
             /\ view'[p][x] = IF OfList(sc) \/ x = sc.id THEN stream[s].snapshot[x] ELSE view[p][x]
  <2>1. view[p][x] \in Nat
    BY <1>1 DEF TypeOK
  <2>2. view[p][x] <= row[x]
    BY <1>1 DEF Coherent, RowIsNewest
  <2>3. view[p][x] > 0 => MayShow(sc, x)
    BY <1>1 DEF Coherent, Isolation
  <2>4. view'[p] = Shown(p, stream[s].snapshot)
    BY <1>2, <1>3
  <2> QED  BY <2>1, <2>2, <2>3, <2>4 DEF Shown
<1>6. CASE OfList(sc)
  <2>1. \A x \in Topics : /\ view[p][x] <= stream[s].snapshot[x] /\ stream[s].snapshot[x] <= row[x]
                          /\ stream[s].snapshot[x] > 0 => Concerns(sc, x)
    BY <1>1, <1>4, <1>6 DEF GoodSnapshot
  <2>2. \A x \in Topics : view'[p][x] = stream[s].snapshot[x]
    BY <1>5, <1>6
  <2> QED  BY <1>3, <2>1, <2>2, ConcernedMayShow
<1>7. CASE OfDetail(sc) /\ ~OfList(sc)
  <2>1. /\ TenantOf(sc.id) = sc.tenant /\ view[p][sc.id] <= stream[s].snapshot[sc.id]
        /\ \A x \in Topics : stream[s].snapshot[x] <= row[x]
    BY <1>1, <1>4, <1>7 DEF GoodSnapshot
  <2>2. sc.id \in Deployments
    BY <1>1, <1>7 DEF OfDetail, TypeOK
  <2>3. Concerns(sc, sc.id)
    BY <2>1, <2>2, <1>7 DEF Concerns
  <2>4. ASSUME NEW x \in Topics
        PROVE  /\ view[p][x] <= view'[p][x] /\ view'[p][x] <= row[x]
               /\ view'[p][x] = view[p][x] \/ view'[p][x] = stream[s].snapshot[x]
               /\ view'[p][x] > 0 => MayShow(sc, x)
    <3>1. CASE x = sc.id
      <4>1. MayShow(sc, x)
        BY <2>3, <3>1, ConcernedMayShow
      <4> QED  BY <1>5, <2>1, <3>1, <4>1
    <3>2. CASE x # sc.id
      BY <1>5, <1>7, <3>2
    <3> QED  BY <3>1, <3>2
  <2> QED  BY <1>3, <2>4
<1> QED  BY <1>4, <1>6, <1>7 DEF OfJobs

\* What an event changes: one row of the page of the stream only, to the event's version.
LEMMA ForwardFacts ==
    ASSUME TypeOK, Coherent, NEW s \in Streams, Forward(s), NEW o \in Pages, source[o] = s
    PROVE  LET p == stream[s].page
               sc == scope[p]
               e == Head(stream[s].queue)
           IN  /\ o = p /\ Attached(s)
               /\ view[o][e.about] <= e.version /\ e.version <= row[e.about] /\ Reaches(e, sc)
               /\ view'[o][e.about] = e.version
               /\ \A x \in Topics \ {e.about} : view'[o][x] = view[o][x]
<1> DEFINE p == stream[s].page
           sc == scope[p]
           q == stream[s].queue
           e == Head(stream[s].queue)
<1>1. /\ stream[s] \in Stream /\ p \in Pages /\ stream[s].phase = "streaming" /\ q # <<>>
      /\ UNCHANGED <<row, said, alone, scope, source>>
      /\ \A r \in Streams \ {s} : stream'[r] = stream[r]
      /\ stream'[s].phase = "streaming" /\ stream'[s].page = p
      /\ stream'[s].queue = Tail(q) /\ stream'[s].dropped = stream[s].dropped
  BY DEF Forward, TypeOK, Stream
<1>2. q \in Seq(Events)
  BY <1>1 DEF Stream
<1>3. view'[o] = [view[o] EXCEPT ![e.about] = e.version]
  BY DEF Forward
<1>4. /\ e = q[1] /\ Len(q) \in Nat /\ Len(q) >= 1 /\ e \in Events
      /\ Tail(q) \in Seq(Events) /\ Len(Tail(q)) = Len(q) - 1
      /\ \A i \in 1 .. Len(Tail(q)) : Tail(q)[i] = q[i + 1]
  <2> HIDE DEF q
  <2>1. q # <<>>
    BY <1>1 DEF q
  <2> QED  BY <1>2, <2>1 DEF q
<1>5. e.about \in Topics /\ e.version \in Nat
  BY <1>4, EventFields
<1>6. o = p /\ Attached(s)
  BY <1>1 DEF Coherent, SourcesServe, Attached
<1>7. GoodQueue(stream[s], row)
  BY <1>6 DEF Coherent
<1>8. 1 \in 1 .. Len(q)
  BY <1>4
<1>9. /\ view[p][q[1].about] <= q[1].version /\ q[1].version <= row[q[1].about]
      /\ Reaches(q[1], sc)
  BY <1>7, <1>8 DEF GoodQueue
<1>10. view[o] \in [Topics -> Nat]
  BY DEF TypeOK
<1> HIDE DEF e, q
<1>11. /\ view[o][e.about] <= e.version /\ e.version <= row[e.about] /\ Reaches(e, sc)
       /\ view'[o][e.about] = e.version
       /\ \A x \in Topics \ {e.about} : view'[o][x] = view[o][x]
  BY <1>3, <1>4, <1>5, <1>6, <1>9, <1>10
<1> QED  BY <1>6, <1>11 DEF e

LEMMA CoherentStep == TypeOK /\ Coherent /\ [Next]_vars => Coherent'
<1> SUFFICES ASSUME TypeOK, Coherent, [Next]_vars PROVE Coherent'
  OBVIOUS
<1>1. ASSUME NEW d \in Deployments, Announce(d) PROVE Coherent'
  <2>1. /\ d \in Topics /\ Owner[d] \in Topics /\ d # Owner[d]
        /\ Upsert(d) \in Events /\ Counts(Owner[d]) \in Events
        /\ row' \in [Topics -> Nat] /\ row \in [Topics -> Nat] /\ said \in [Topics -> Nat]
    BY <1>1, EventTypes DEF Announce, TypeOK
  <2>2. /\ row'[d] = row[d] + 1 /\ row'[Owner[d]] = row[Owner[d]] + 1
        /\ \A x \in Topics \ {d, Owner[d]} : row'[x] = row[x]
    BY <1>1, <2>1 DEF Announce, Written
  <2>3. \A x \in Topics : row[x] <= row'[x]
    BY <2>1, <2>2
  <2>4. /\ said'[d] = row'[d] /\ said'[Owner[d]] = row'[Owner[d]]
        /\ \A x \in Topics \ {d, Owner[d]} : said'[x] = said[x]
    BY <1>1, <2>1, <2>2 DEF Announce
  <2>5. \A x \in Topics : said'[x] <= row'[x]
    BY <2>1, <2>2, <2>4 DEF Coherent, RowIsNewest
  <2>6. Upsert(d).version = row'[Upsert(d).about]
        /\ Counts(Owner[d]).version = row'[Counts(Owner[d]).about]
    BY <2>2 DEF Upsert, Counts
  <2>7. Published(stream')
    BY <1>1, <2>1, <2>3, <2>6, PublishBothGood DEF Announce
  <2> QED  BY <1>1, <2>1, <2>3, <2>5, <2>7, PublishCoherent DEF Announce
<1>2. ASSUME NEW d \in Deployments, AnnounceHalf(d) PROVE Coherent'
  <2>1. /\ d \in Topics /\ Owner[d] \in Topics /\ d # Owner[d]
        /\ Upsert(d) \in Events
        /\ row' \in [Topics -> Nat] /\ row \in [Topics -> Nat] /\ said \in [Topics -> Nat]
    BY <1>2, EventTypes DEF AnnounceHalf, TypeOK
  <2>2. /\ row'[d] = row[d] + 1 /\ row'[Owner[d]] = row[Owner[d]] + 1
        /\ \A x \in Topics \ {d, Owner[d]} : row'[x] = row[x]
    BY <1>2, <2>1 DEF AnnounceHalf, Written
  <2>3. \A x \in Topics : row[x] <= row'[x]
    BY <2>1, <2>2
  <2>4. said'[d] = row'[d] /\ \A x \in Topics \ {d} : said'[x] = said[x]
    BY <1>2, <2>1, <2>2 DEF AnnounceHalf
  <2>5. \A x \in Topics : said'[x] <= row'[x]
    BY <2>1, <2>2, <2>4 DEF Coherent, RowIsNewest
  <2>6. Upsert(d).version = row'[Upsert(d).about]
    BY <2>2 DEF Upsert
  <2>7. Published(stream')
    BY <1>2, <2>1, <2>3, <2>6, PublishGood DEF AnnounceHalf
  <2> QED  BY <1>2, <2>1, <2>3, <2>5, <2>7, PublishCoherent DEF AnnounceHalf
<1>3. ASSUME NEW d \in Deployments, WriteSilently(d) PROVE Coherent'
  <2>1. /\ d \in Topics /\ Owner[d] \in Topics /\ d # Owner[d]
        /\ row' \in [Topics -> Nat] /\ row \in [Topics -> Nat] /\ said \in [Topics -> Nat]
    BY <1>3, EventTypes DEF WriteSilently, TypeOK
  <2>2. /\ row'[d] = row[d] + 1 /\ row'[Owner[d]] = row[Owner[d]] + 1
        /\ \A x \in Topics \ {d, Owner[d]} : row'[x] = row[x]
    BY <1>3, <2>1 DEF WriteSilently, Written
  <2>3. \A x \in Topics : row[x] <= row'[x]
    BY <2>1, <2>2
  <2>4. \A x \in Topics : said'[x] <= row'[x]
    BY <1>3, <2>1, <2>3 DEF Coherent, RowIsNewest, WriteSilently
  <2>5. Published(stream')
    <3> SUFFICES ASSUME NEW s \in Streams, Attached(s)
                 PROVE  GoodQueue(stream[s], row') /\ GoodSnapshot(stream[s], row')
      BY <1>3 DEF WriteSilently, Published
    <3>1. stream[s] \in Stream
      BY DEF TypeOK
    <3> QED  BY <3>1, <2>1, <2>3, GoodGrows DEF Coherent
  <2> QED  BY <1>3, <2>1, <2>3, <2>4, <2>5, PublishCoherent DEF WriteSilently
<1>4. ASSUME NEW j \in Jobs, Progress(j) PROVE Coherent'
  <2> DEFINE e == [type |-> "progress", about |-> j, version |-> row[j] + 1]
  <2>1. /\ j \in Topics /\ e \in Events
        /\ row' \in [Topics -> Nat] /\ row \in [Topics -> Nat] /\ said \in [Topics -> Nat]
    BY <1>4, JobEventTypes DEF Progress, TypeOK
  <2>2. row'[j] = row[j] + 1 /\ \A x \in Topics \ {j} : row'[x] = row[x]
    BY <1>4, <2>1 DEF Progress
  <2>3. \A x \in Topics : row[x] <= row'[x]
    BY <2>1, <2>2
  <2>4. said'[j] = row'[j] /\ \A x \in Topics \ {j} : said'[x] = said[x]
    BY <1>4, <2>1, <2>2 DEF Progress
  <2>5. \A x \in Topics : said'[x] <= row'[x]
    BY <2>1, <2>2, <2>4 DEF Coherent, RowIsNewest
  <2>6. e.version = row'[e.about] /\ stream' = Publish(e)
    BY <1>4, <2>2 DEF Progress
  <2> HIDE DEF e
  <2>7. Published(stream')
    BY <2>1, <2>3, <2>6, PublishGood
  <2> QED  BY <1>4, <2>1, <2>3, <2>5, <2>7, PublishCoherent DEF Progress
<1>5. ASSUME NEW j \in Jobs, ChangeJobStatus(j) PROVE Coherent'
  <2> DEFINE e == [type |-> "job.status_changed", about |-> j, version |-> row[j] + 1]
  <2>1. /\ j \in Topics /\ e \in Events
        /\ row' \in [Topics -> Nat] /\ row \in [Topics -> Nat] /\ said \in [Topics -> Nat]
    BY <1>5, JobEventTypes DEF ChangeJobStatus, TypeOK
  <2>2. row'[j] = row[j] + 1 /\ \A x \in Topics \ {j} : row'[x] = row[x]
    BY <1>5, <2>1 DEF ChangeJobStatus
  <2>3. \A x \in Topics : row[x] <= row'[x]
    BY <2>1, <2>2
  <2>4. \A x \in Topics : said'[x] <= row'[x]
    BY <1>5, <2>1, <2>3 DEF Coherent, RowIsNewest, ChangeJobStatus
  <2>5. e.version = row'[e.about] /\ stream' = Publish(e)
    BY <1>5, <2>2 DEF ChangeJobStatus
  <2> HIDE DEF e
  <2>6. Published(stream')
    BY <2>1, <2>3, <2>5, PublishGood
  <2> QED  BY <1>5, <2>1, <2>3, <2>4, <2>6, PublishCoherent DEF ChangeJobStatus
<1>6. ASSUME NEW s \in Streams, Accept(s) PROVE Coherent'
  <2> DEFINE p == stream[s].page
             sc == scope[p]
  <2>1. /\ stream[s] \in Stream /\ p \in Pages /\ stream[s].phase = "requested"
        /\ UNCHANGED <<row, said, alone, pageVars>>
        /\ \A r \in Streams \ {s} : stream'[r] = stream[r]
        /\ stream'[s].phase = "accepted" /\ stream'[s].page = p
        /\ stream'[s].queue = stream[s].queue /\ stream'[s].dropped = stream[s].dropped
        /\ stream'[s].snapshot = IF OfDetail(sc) THEN DetailRow(sc) ELSE stream[s].snapshot
    BY <1>6 DEF Accept, TypeOK, Stream
  <2>2. SourcesServe'
    BY <2>1 DEF Coherent, SourcesServe, pageVars
  <2>3. ASSUME Attached(s)'
        PROVE  (GoodQueue(stream[s], row) /\ GoodSnapshot(stream[s], row))'
    <3>1. Attached(s) /\ stream'[s].queue = <<>> /\ ~stream'[s].dropped
      BY <2>1, <2>3 DEF Attached, pageVars, Coherent, GoodQueue, Subscribed
    <3>2. GoodQueue(stream[s], row)'
      BY <2>1, <3>1 DEF GoodQueue, Subscribed
    <3>3. ASSUME OfDetail(sc)
          PROVE  /\ TenantOf(sc.id) = sc.tenant /\ sc.id \in Topics
                 /\ view[p][sc.id] <= DetailRow(sc)[sc.id]
                 /\ \A x \in Topics : DetailRow(sc)[x] <= row[x]
      <4>1. sc.id \in Topics /\ TenantOf(sc.id) = sc.tenant
        BY <1>6, <2>1, <3>3 DEF Accept, OfDetail, Topics, TypeOK
      <4>2. view[p][sc.id] <= row[sc.id] /\ row \in [Topics -> Nat]
        BY <4>1, <2>1 DEF Coherent, RowIsNewest, TypeOK
      <4> QED  BY <4>1, <4>2 DEF DetailRow, Nothing
    <3>4. GoodSnapshot(stream[s], row)'
      BY <2>1, <3>3 DEF GoodSnapshot, pageVars, OfDetail, TenantOf
    <3> QED  BY <3>2, <3>4
  <2>4. ASSUME NEW r \in Streams, r # s, Attached(r)'
        PROVE  Attached(r) /\ stream'[r] = stream[r]
    BY <2>1, <2>4 DEF Attached, pageVars
  <2> QED  BY <2>1, <2>2, <2>3, <2>4, ServeCoherent DEF pageVars
<1>7. ASSUME NEW s \in Streams, Refuse(s) PROVE Coherent'
  <2>1. SourcesServe'
    BY <1>7 DEF Refuse, FailedPages, Coherent, SourcesServe, TypeOK
  <2>2. ~Attached(s)'
    BY <1>7, FreeStreamType DEF Refuse, Attached, TypeOK
  <2>3. ASSUME NEW r \in Streams, r # s, Attached(r)'
        PROVE  Attached(r) /\ stream'[r] = stream[r]
    <3>1. stream'[r] = stream[r] /\ stream[r].page \in Pages
      BY <1>7, <2>3 DEF Refuse, TypeOK, Stream
    <3>2. source'[stream[r].page] = r /\ NoStream # r
      BY <2>3, <3>1 DEF Attached
    <3>3. source[stream[r].page] = r
      BY <1>7, <3>1, <3>2 DEF Refuse, FailedPages
    <3> QED  BY <2>3, <3>1, <3>3 DEF Attached
  <2> QED  BY <1>7, <2>1, <2>2, <2>3, ServeCoherent DEF Refuse
<1>8. ASSUME NEW s \in Streams, Start(s) PROVE Coherent'
  <2> DEFINE p == stream[s].page
             sc == scope[p]
  <2>1. /\ stream[s] \in Stream /\ p \in Pages /\ stream[s].phase = "accepted"
        /\ UNCHANGED <<row, said, alone, scope, source, view>>
        /\ \A r \in Streams \ {s} : stream'[r] = stream[r]
        /\ stream'[s].phase = (IF OfJobs(sc) THEN "streaming" ELSE "subscribed")
        /\ stream'[s].page = p
        /\ stream'[s].queue = stream[s].queue /\ stream'[s].dropped = stream[s].dropped
        /\ stream'[s].snapshot = IF OfList(sc) THEN Rows(sc) ELSE stream[s].snapshot
    BY <1>8 DEF Start, TypeOK, Stream
  <2>2. SourcesServe'
    BY <2>1 DEF Coherent, SourcesServe
  <2>3. ASSUME Attached(s)'
        PROVE  (GoodQueue(stream[s], row) /\ GoodSnapshot(stream[s], row))'
    <3>1. Attached(s) /\ stream[s].queue = <<>> /\ ~stream[s].dropped /\ GoodSnapshot(stream[s], row)
      BY <2>1, <2>3 DEF Attached, Coherent, GoodQueue, Subscribed
    <3>2. GoodQueue(stream[s], row)'
      BY <2>1, <3>1 DEF GoodQueue, Subscribed
    <3>3. ASSUME OfList(sc), NEW x \in Topics
          PROVE  /\ view[p][x] <= Rows(sc)[x] /\ Rows(sc)[x] <= row[x]
                 /\ Rows(sc)[x] > 0 => Concerns(sc, x)
      <4>1. /\ view[p][x] \in Nat /\ row[x] \in Nat /\ view[p][x] <= row[x]
            /\ Rows(sc)[x] = IF TenantOf(x) = sc.tenant /\ x \notin Jobs THEN row[x] ELSE 0
        BY <2>1 DEF Coherent, RowIsNewest, Rows, TypeOK
      <4>2. view[p][x] > 0 => Concerns(sc, x)
        BY <2>1, <3>3 DEF Coherent, Isolation, MayShow, OfDetail, OfList
      <4>3. Concerns(sc, x) <=> TenantOf(x) = sc.tenant /\ x \notin Jobs
        BY <3>3 DEF Concerns, OfList, OfDetail, OfJobs
      <4> QED  BY <4>1, <4>2, <4>3
    <3>4. GoodSnapshot(stream[s], row)'
      BY <2>1, <3>1, <3>3 DEF GoodSnapshot, OfDetail, OfList, OfJobs
    <3> QED  BY <3>2, <3>4
  <2>4. ASSUME NEW r \in Streams, r # s, Attached(r)'
        PROVE  Attached(r) /\ stream'[r] = stream[r]
    BY <2>1, <2>4 DEF Attached
  <2> QED  BY <2>1, <2>2, <2>3, <2>4, ServeCoherent
<1>9. ASSUME NEW s \in Streams, Greet(s) PROVE Coherent'
  <2> DEFINE p == stream[s].page
             sc == scope[p]
  <2>1. /\ stream[s] \in Stream /\ p \in Pages /\ stream[s].phase = "subscribed"
        /\ UNCHANGED <<row, said, alone, scope, source>>
        /\ \A r \in Streams \ {s} : stream'[r] = stream[r]
        /\ stream'[s].phase = "streaming" /\ stream'[s].page = p
        /\ stream'[s].queue = stream[s].queue /\ stream'[s].dropped = stream[s].dropped
    BY <1>9 DEF Greet, TypeOK, Stream
  <2>2. \A q \in Pages : view'[q] = IF source[q] = s THEN Shown(q, stream[s].snapshot) ELSE view[q]
    BY <1>9 DEF Greet
  <2>3. ASSUME NEW q \in Pages, source[q] = s
        PROVE  /\ q = p /\ Attached(s)
               /\ \A x \in Topics : view[q][x] <= view'[q][x] /\ view'[q][x] <= row[x]
               /\ \A x \in Topics : view'[q][x] = view[q][x] \/ view'[q][x] = stream[s].snapshot[x]
               /\ \A x \in Topics : view'[q][x] > 0 => MayShow(sc, x)
    BY <1>9, <2>3, GreetFacts
  <2>4. SourcesServe'
    BY <2>1 DEF Coherent, SourcesServe
  <2>5. RowIsNewest'
    BY <2>1, <2>2, <2>3 DEF Coherent, RowIsNewest
  <2>6. Isolation'
    <3> SUFFICES ASSUME NEW q \in Pages, NEW x \in Topics, view'[q][x] > 0
                 PROVE  MayShow(scope[q], x)
      BY <2>1 DEF Isolation
    <3>1. CASE source[q] = s
      BY <2>3, <3>1
    <3>2. CASE source[q] # s
      <4>1. view'[q] = view[q]
        BY <2>2, <3>2
      <4> QED  BY <4>1 DEF Coherent, Isolation
    <3> QED  BY <3>1, <3>2
  <2>7. ASSUME Attached(s)'
        PROVE  (GoodQueue(stream[s], row) /\ GoodSnapshot(stream[s], row))'
    <3>1. source[p] = s /\ Attached(s)
      BY <2>1, <2>7 DEF Attached
    <3>2. GoodQueue(stream[s], row)
      BY <3>1 DEF Coherent
    <3>3. \A i \in 1 .. Len(stream[s].queue) : stream[s].queue[i] \in Events
      BY <2>1 DEF Stream
    <3>4. \A i \in 1 .. Len(stream[s].queue) : stream[s].queue[i].about \in Topics
      BY <3>3, EventFields
    <3>5. \A i \in 1 .. Len(stream[s].queue) :
             view'[p][stream[s].queue[i].about] <= stream[s].queue[i].version
      BY <2>1, <2>3, <3>1, <3>2, <3>4 DEF GoodQueue
    <3>6. GoodQueue(stream[s], row)'
      BY <2>1, <3>2, <3>5 DEF GoodQueue, Subscribed
    <3>7. GoodSnapshot(stream[s], row)'
      BY <2>1 DEF GoodSnapshot
    <3> QED  BY <3>6, <3>7
  <2>8. ASSUME NEW r \in Streams, r # s, Attached(r)'
        PROVE  (GoodQueue(stream[r], row) /\ GoodSnapshot(stream[r], row))'
    <3>1. stream'[r] = stream[r] /\ Attached(r) /\ stream[r].page \in Pages
      BY <2>1, <2>8 DEF Attached, TypeOK, Stream
    <3>2. view'[stream[r].page] = view[stream[r].page]
      BY <2>2, <2>8, <3>1 DEF Attached
    <3> QED  BY <2>1, <2>8, <3>1, <3>2, OthersGood
  <2> QED  BY <2>4, <2>5, <2>6, <2>7, <2>8 DEF Coherent
<1>10. ASSUME NEW s \in Streams, Forward(s) PROVE Coherent'
  <2> DEFINE p == stream[s].page
             sc == scope[p]
             q == stream[s].queue
             e == Head(stream[s].queue)
  <2>1. /\ stream[s] \in Stream /\ p \in Pages /\ stream[s].phase = "streaming" /\ q # <<>>
        /\ UNCHANGED <<row, said, alone, scope, source>>
        /\ \A r \in Streams \ {s} : stream'[r] = stream[r]
        /\ stream'[s].phase = "streaming" /\ stream'[s].page = p
        /\ stream'[s].queue = Tail(q) /\ stream'[s].dropped = stream[s].dropped
    BY <1>10 DEF Forward, TypeOK, Stream
  <2>2. q \in Seq(Events)
    BY <2>1 DEF Stream
  <2>3. \A o \in Pages : view'[o] = IF source[o] = s THEN [view[o] EXCEPT ![e.about] = e.version]
                                    ELSE view[o]
    BY <1>10 DEF Forward
  <2>4. /\ e = q[1] /\ Len(q) \in Nat /\ Len(q) >= 1 /\ e \in Events
        /\ Tail(q) \in Seq(Events) /\ Len(Tail(q)) = Len(q) - 1
        /\ \A i \in 1 .. Len(Tail(q)) : Tail(q)[i] = q[i + 1]
    <3> HIDE DEF q
    <3>1. q # <<>>
      BY <2>1 DEF q
    <3> QED  BY <2>2, <3>1 DEF q
  <2>5. e.about \in Topics /\ e.version \in Nat
    BY <2>4, EventFields
  <2>6. ASSUME NEW o \in Pages, source[o] = s
        PROVE  /\ o = p /\ Attached(s)
               /\ view[o][e.about] <= e.version /\ e.version <= row[e.about] /\ Reaches(e, sc)
               /\ view'[o][e.about] = e.version
               /\ \A x \in Topics \ {e.about} : view'[o][x] = view[o][x]
    BY <1>10, <2>6, ForwardFacts
  <2> HIDE DEF e, q
  <2>7. SourcesServe'
    BY <2>1 DEF Coherent, SourcesServe
  <2>8. RowIsNewest'
    <3> SUFFICES ASSUME NEW o \in Pages, NEW x \in Topics PROVE view'[o][x] <= row[x]
      BY <2>1 DEF Coherent, RowIsNewest
    <3>1. view[o][x] <= row[x]
      BY DEF Coherent, RowIsNewest
    <3>2. CASE source[o] = s
      BY <2>6, <3>1, <3>2
    <3>3. CASE source[o] # s
      BY <2>3, <3>1, <3>3
    <3> QED  BY <3>2, <3>3
  <2>9. Isolation'
    <3> SUFFICES ASSUME NEW o \in Pages, NEW x \in Topics, view'[o][x] > 0
                 PROVE  MayShow(scope[o], x)
      BY <2>1 DEF Isolation
    <3>1. CASE source[o] = s /\ x = e.about
      <4>1. Reaches(e, sc) /\ o = p /\ sc \in Scopes /\ x \in Topics
        BY <2>6, <2>1, <3>1 DEF TypeOK
      <4>2. MayShow(sc, x)
        BY <2>4, <3>1, <4>1, ReachesConcerned
      <4> QED  BY <4>1, <4>2
    <3>2. CASE source[o] = s /\ x # e.about
      <4>1. view'[o][x] = view[o][x]
        BY <2>6, <3>2
      <4> QED  BY <4>1 DEF Coherent, Isolation
    <3>3. CASE source[o] # s
      <4>1. view'[o] = view[o]
        BY <2>3, <3>3
      <4> QED  BY <4>1 DEF Coherent, Isolation
    <3> QED  BY <3>1, <3>2, <3>3
  <2>10. ASSUME Attached(s)'
         PROVE  (GoodQueue(stream[s], row) /\ GoodSnapshot(stream[s], row))'
    <3>1. source[p] = s /\ Attached(s)
      BY <2>1, <2>10 DEF Attached
    <3>2. GoodQueue(stream[s], row)
      BY <3>1 DEF Coherent
    <3>3. ASSUME NEW i \in 1 .. Len(Tail(q))
          PROVE  /\ i + 1 \in 1 .. Len(q) /\ Tail(q)[i] = q[i + 1]
                 /\ Tail(q)[i].about \in Topics /\ Tail(q)[i].version \in Nat
      <4>1. i + 1 \in 1 .. Len(q) /\ Tail(q)[i] = q[i + 1] /\ Tail(q)[i] \in Events
        BY <2>4
      <4> QED  BY <4>1, EventFields
    <3>4. ASSUME NEW i \in 1 .. Len(Tail(q))
          PROVE  /\ Reaches(Tail(q)[i], sc)
                 /\ Tail(q)[i].version <= row[Tail(q)[i].about]
                 /\ view'[p][Tail(q)[i].about] <= Tail(q)[i].version
      <4>1. /\ Reaches(q[i + 1], sc) /\ q[i + 1].version <= row[q[i + 1].about]
            /\ view[p][q[i + 1].about] <= q[i + 1].version
            /\ q[1].about = q[i + 1].about => q[1].version <= q[i + 1].version
        <5>1. i + 1 \in 1 .. Len(stream[s].queue) /\ 1 \in 1 .. Len(stream[s].queue) /\ 1 < i + 1
          BY <3>3, <2>4 DEF q
        <5> QED  BY <3>2, <5>1 DEF GoodQueue, q
      <4> QED  BY <4>1, <3>3, <3>1, <2>1, <2>4, <2>6
    <3>5. ASSUME NEW i \in 1 .. Len(Tail(q)), NEW j \in 1 .. Len(Tail(q)), i < j,
                 Tail(q)[i].about = Tail(q)[j].about
          PROVE  Tail(q)[i].version <= Tail(q)[j].version
      <4>1. i + 1 \in 1 .. Len(stream[s].queue) /\ j + 1 \in 1 .. Len(stream[s].queue) /\ i + 1 < j + 1
        BY <3>3, <3>5 DEF q
      <4>2. q[i + 1].about = q[j + 1].about => q[i + 1].version <= q[j + 1].version
        BY <3>2, <4>1 DEF GoodQueue, q
      <4> QED  BY <4>2, <3>3, <3>5
    <3>6. GoodQueue(stream[s], row)'
      BY <2>1, <3>4, <3>5 DEF GoodQueue, Subscribed
    <3>7. GoodSnapshot(stream[s], row)'
      BY <2>1 DEF GoodSnapshot
    <3> QED  BY <3>6, <3>7
  <2>11. ASSUME NEW r \in Streams, r # s, Attached(r)'
         PROVE  (GoodQueue(stream[r], row) /\ GoodSnapshot(stream[r], row))'
    <3>1. stream'[r] = stream[r] /\ Attached(r) /\ stream[r].page \in Pages
      BY <2>1, <2>11 DEF Attached, TypeOK, Stream
    <3>2. view'[stream[r].page] = view[stream[r].page]
      BY <2>3, <2>11, <3>1 DEF Attached
    <3> QED  BY <2>1, <2>11, <3>1, <3>2, OthersGood
  <2> QED  BY <2>7, <2>8, <2>9, <2>10, <2>11 DEF Coherent
<1>11. ASSUME NEW s \in Streams, Close(s) PROVE Coherent'
  <2>1. SourcesServe'
    BY <1>11 DEF Close, pageVars, Coherent, SourcesServe, Attached, TypeOK
  <2>2. ~Attached(s)'
    BY <1>11, FreeStreamType DEF Close, Attached, TypeOK
  <2>3. ASSUME NEW r \in Streams, r # s, Attached(r)'
        PROVE  Attached(r) /\ stream'[r] = stream[r]
    BY <1>11, <2>3 DEF Close, pageVars, Attached
  <2> QED  BY <1>11, <2>1, <2>2, <2>3, ServeCoherent DEF Close, pageVars
<1>12. ASSUME NEW p \in Pages, NEW s \in Streams, Request(p, s), UNCHANGED <<row, said, alone, scope, view>>
       PROVE  Coherent'
  <2> DEFINE st == [FreeStream EXCEPT !.phase = "requested", !.page = p]
  <2>1. /\ st.phase = "requested" /\ st.page = p /\ st.queue = <<>> /\ ~st.dropped /\ Len(st.queue) = 0
        /\ stream'[s] = st /\ \A r \in Streams \ {s} : stream'[r] = stream[r]
        /\ source'[p] = s /\ \A q \in Pages \ {p} : source'[q] = source[q]
        /\ stream[s].phase = "free"
    BY <1>12, FreeStreamType DEF Request, FreeStream, TypeOK
  <2> HIDE DEF st
  <2>2. SourcesServe'
    <3> SUFFICES ASSUME NEW q \in Pages, source'[q] \in Streams
                 PROVE  stream'[source'[q]].phase # "free" /\ stream'[source'[q]].page = q
      BY DEF SourcesServe
    <3>1. CASE q = p
      BY <2>1, <3>1
    <3>2. CASE q # p
      <4>1. source'[q] = source[q] /\ stream[source[q]].phase # "free" /\ stream[source[q]].page = q
        BY <2>1, <3>2 DEF Coherent, SourcesServe
      <4> QED  BY <2>1, <4>1
    <3> QED  BY <3>1, <3>2
  <2>3. (GoodQueue(stream[s], row) /\ GoodSnapshot(stream[s], row))'
    BY <2>1 DEF GoodQueue, GoodSnapshot, Subscribed
  <2>4. ASSUME NEW r \in Streams, r # s, Attached(r)'
        PROVE  Attached(r) /\ stream'[r] = stream[r]
    <3>1. stream'[r] = stream[r] /\ stream[r].page \in Pages
      BY <2>1, <2>4 DEF TypeOK, Stream
    <3> QED  BY <2>1, <2>4, <3>1 DEF Attached
  <2> QED  BY <1>12, <2>1, <2>2, <2>3, <2>4, ServeCoherent
<1>13. ASSUME NEW p \in Pages, Mount(p) PROVE Coherent'
  BY <1>12, <1>13 DEF Mount
<1>14. ASSUME NEW p \in Pages, Reconnect(p) PROVE Coherent'
  BY <1>12, <1>14 DEF Reconnect
<1>15. ASSUME NEW p \in Pages, UNCHANGED <<row, said, alone, stream, scope, view>>,
              \A q \in Pages : source'[q] = source[q] \/ source'[q] = NoStream
       PROVE  Coherent'
  <2>1. SourcesServe'
    BY <1>15 DEF Coherent, SourcesServe
  <2>2. ASSUME NEW r \in Streams, Attached(r)' PROVE Attached(r)
    <3>1. stream[r].page \in Pages
      BY DEF TypeOK, Stream
    <3> QED  BY <1>15, <2>2, <3>1 DEF Attached
  <2> QED  BY <1>15, <2>1, <2>2, ServeCoherent
<1>16. ASSUME NEW p \in Pages, Unmount(p) PROVE Coherent'
  BY <1>15, <1>16 DEF Unmount, TypeOK
<1>17. ASSUME NEW p \in Pages, Disconnect(p) PROVE Coherent'
  BY <1>15, <1>17 DEF Disconnect, FailedPages
<1>18. CASE Restart
  <2>1. /\ \A p \in Pages : source'[p] = NoStream
        /\ UNCHANGED <<row, said, scope, view>>
        /\ \A s \in Streams : stream'[s].phase = "free"
    BY <1>18, FreeStreamType DEF Restart, FailedPages, TypeOK
  <2>2. SourcesServe' /\ \A s \in Streams : ~Attached(s)'
    BY <2>1 DEF SourcesServe, Attached
  <2> QED  BY <2>1, <2>2, ServeCoherent
<1>19. CASE UNCHANGED vars
  <2>1. SourcesServe' /\ \A s \in Streams : Attached(s)' => Attached(s)
    BY <1>19 DEF vars, Coherent, SourcesServe, Attached
  <2> QED  BY <1>19, <2>1, ServeCoherent DEF vars
<1> QED
  BY <1>1, <1>2, <1>3, <1>4, <1>5, <1>6, <1>7, <1>8, <1>9, <1>10, <1>11, <1>13, <1>14, <1>16,
     <1>17, <1>18, <1>19 DEF Next

THEOREM Coherence == Spec => []Coherent
<1>1. Init => Coherent
  BY FreeStreamType DEF Init, Coherent, SourcesServe, RowIsNewest, Isolation, Attached, Nothing
<1> QED  BY <1>1, TypeCorrect, CoherentStep, PTL DEF Spec

\* No page shows a row of another tenant, or one its scope is not about.
THEOREM Isolated == Spec => []Isolation
<1>1. Coherent => Isolation
  BY DEF Coherent
<1> QED  BY <1>1, Coherence, PTL

LEMMA NothingGoesBack ==
    TypeOK /\ Coherent /\ [Next]_vars => \A p \in Pages, x \in Topics : view'[p][x] >= view[p][x]
<1> SUFFICES ASSUME TypeOK, Coherent, [Next]_vars, NEW p \in Pages, NEW x \in Topics
             PROVE  view'[p][x] >= view[p][x]
  OBVIOUS
<1>1. view[p][x] \in Nat /\ row[x] \in Nat
  BY DEF TypeOK
<1>2. ASSUME NEW s \in Streams, Greet(s) PROVE view'[p][x] >= view[p][x]
  <2>1. CASE source[p] = s
    <3>1. view[p][x] <= view'[p][x]
      BY <1>2, <2>1, GreetFacts
    <3>2. view'[p][x] \in Nat
      BY TypeStep DEF TypeOK
    <3> QED  BY <1>1, <3>1, <3>2
  <2>2. CASE source[p] # s
    BY <1>1, <1>2, <2>2 DEF Greet
  <2> QED  BY <2>1, <2>2
<1>3. ASSUME NEW s \in Streams, Forward(s) PROVE view'[p][x] >= view[p][x]
  <2>1. CASE source[p] = s
    <3> DEFINE e == Head(stream[s].queue)
    <3>1. /\ view[p][e.about] <= e.version /\ view'[p][e.about] = e.version
          /\ \A y \in Topics \ {e.about} : view'[p][y] = view[p][y]
      BY <1>3, <2>1, ForwardFacts
    <3>2. view'[p][x] \in Nat
      BY TypeStep DEF TypeOK
    <3> HIDE DEF e
    <3> QED  BY <1>1, <3>1, <3>2
  <2>2. CASE source[p] # s
    BY <1>1, <1>3, <2>2 DEF Forward
  <2> QED  BY <2>1, <2>2
<1>4. CASE UNCHANGED view
  BY <1>1, <1>4
<1> QED
  BY <1>2, <1>3, <1>4
  DEF Next, vars, pageVars, Announce, AnnounceHalf, WriteSilently, Progress, ChangeJobStatus, Accept,
      Refuse, Start, Close, Mount, Reconnect, Unmount, Disconnect, Restart

\* No reconnection, overflow or restart takes a page back to an older version of a row.
THEOREM NeverGoesBack == Spec => NeverBackwards
<1>1. TypeOK /\ Coherent /\ [Next]_vars
        => [\A p \in Pages, x \in Topics : view'[p][x] >= view[p][x]]_vars
  BY NothingGoesBack
<1> QED  BY <1>1, TypeCorrect, Coherence, PTL DEF Spec, NeverBackwards

-----------------------------------------------------------------------------
(* The pages as replicas: every step writes rows, teaches one page, or is hidden. *)

\* Writing a deployment counts its row and its tenant's counters up.
LEMMA WriteDeployment ==
    ASSUME TypeOK, NEW d \in Deployments, row' = Written(d), UNCHANGED pageVars
    PROVE  Replica!Next
<1> DEFINE written == {d, Owner[d]}
<1>1. written \in SUBSET Topics /\ d # Owner[d]
  BY DEF Topics
<1>2. row' = [x \in Topics |-> IF x \in written THEN row[x] + 1 ELSE row[x]]
  BY <1>1 DEF Written, TypeOK
<1>3. Replica!Write(written)
  BY <1>2 DEF Replica!Write, pageVars
<1> QED  BY <1>1, <1>3 DEF Replica!Next

LEMMA WriteJob ==
    ASSUME TypeOK, NEW j \in Jobs, row' = [row EXCEPT ![j] = @ + 1], UNCHANGED pageVars
    PROVE  Replica!Next
<1>1. j \in Topics
  BY DEF Topics
<1>2. row' = [x \in Topics |-> IF x \in {j} THEN row[x] + 1 ELSE row[x]]
  BY <1>1 DEF TypeOK
<1>3. Replica!Write({j})
  BY <1>2 DEF Replica!Write, pageVars
<1> QED  BY <1>1, <1>3 DEF Replica!Next

\* What a page is shown is newer than what it showed, stored, and about a row it may show.
LEMMA OnePageLearns ==
    ASSUME TypeOK, TypeOK', Coherent, Coherent', [Next]_vars, UNCHANGED <<row, scope>>,
           NEW p \in Pages, \A q \in Pages \ {p} : view'[q] = view[q]
    PROVE  Replica!Next
<1> DEFINE learned == {x \in Topics : view'[p][x] # view[p][x]}
           allowed == [q \in Pages |-> {x \in Topics : MayShow(scope[q], x)}]
<1>1. \A x \in Topics : view[p][x] \in Nat /\ view'[p][x] \in Nat /\ view'[p][x] >= view[p][x]
  BY NothingGoesBack DEF TypeOK
<1>2. \A x \in learned : view[p][x] < view'[p][x] /\ view'[p][x] > 0
  BY <1>1
<1>3. \A x \in learned : view'[p][x] <= row[x]
  BY DEF Coherent, RowIsNewest
<1>4. \A x \in learned : MayShow(scope[p], x)
  <2>1. \A x \in Topics : view'[p][x] > 0 => MayShow(scope[p], x)'
    BY DEF Coherent, Isolation
  <2>2. \A x \in Topics : MayShow(scope[p], x)' <=> MayShow(scope[p], x)
    BY DEF MayShow, Concerns, OfScope
  <2> QED  BY <1>2, <2>1, <2>2
<1>5. learned \in SUBSET allowed[p]
  BY <1>4
<1>6. UNCHANGED allowed
  <2>1. \A q \in Pages, x \in Topics : MayShow(scope[q], x)' <=> MayShow(scope[q], x)
    BY DEF MayShow, Concerns, OfScope
  <2> QED  BY <2>1
<1>7. view' \in [Pages -> [Topics -> Nat]]
  BY DEF TypeOK
<1>8. \A x \in Topics \ learned : view'[p][x] = view[p][x]
  OBVIOUS
<1>9. Replica!Learn(p, learned)
  <2> HIDE DEF learned
  <2> QED  BY <1>2, <1>3, <1>6, <1>7, <1>8 DEF Replica!Learn
<1> QED  BY <1>5, <1>9 DEF Replica!Next

LEMMA ReplicaStep ==
    ASSUME TypeOK, TypeOK', Coherent, Coherent', [Next]_vars
    PROVE  [Replica!Next]_(Replica!vars)
<1>1. ASSUME NEW d \in Deployments, Announce(d) \/ AnnounceHalf(d) \/ WriteSilently(d)
      PROVE  Replica!Next
  BY <1>1, WriteDeployment DEF Announce, AnnounceHalf, WriteSilently
<1>2. ASSUME NEW j \in Jobs, Progress(j) \/ ChangeJobStatus(j)
      PROVE  Replica!Next
  BY <1>2, WriteJob DEF Progress, ChangeJobStatus
<1>3. ASSUME NEW s \in Streams, Greet(s) \/ Forward(s)
      PROVE  Replica!Next
  <2>1. UNCHANGED <<row, scope>>
    BY <1>3 DEF Greet, Forward
  <2>2. stream[s].page \in Pages
    BY DEF TypeOK, Stream
  <2>3. \A q \in Pages : source[q] = s => stream[s].page = q
    BY DEF Coherent, SourcesServe
  <2>4. \A q \in Pages : source[q] # s => view'[q] = view[q]
    BY <1>3 DEF Greet, Forward
  <2>5. \A q \in Pages \ {stream[s].page} : view'[q] = view[q]
    BY <2>3, <2>4
  <2> QED  BY <2>1, <2>2, <2>5, OnePageLearns
<1>4. CASE UNCHANGED <<row, scope, view>>
  <2>1. \A q \in Pages, x \in Topics : MayShow(scope[q], x)' <=> MayShow(scope[q], x)
    BY <1>4 DEF MayShow, Concerns, OfScope
  <2>2. UNCHANGED [q \in Pages |-> {x \in Topics : MayShow(scope[q], x)}]
    BY <2>1
  <2> QED  BY <1>4, <2>2 DEF Replica!vars
<1> QED
  BY <1>1, <1>2, <1>3, <1>4
  DEF Next, vars, pageVars, Accept, Refuse, Start, Close, Mount, Reconnect, Unmount, Disconnect, Restart

\* Live updates implement replication: for any pages, streams, queue size and faults, each page is a
\* replica of the rows it may show, which lags but never goes back, mixes tenants or invents.
THEOREM PagesAreReplicas == Spec => PagesReplicate
<1>1. Init => Replica!Init
  <2>1. ASSUME Init
        PROVE  [p \in Pages |-> {x \in Topics : MayShow(scope[p], x)}] \in [Pages -> SUBSET Topics]
    OBVIOUS
  <2> QED  BY <2>1 DEF Init, Nothing, Replica!Init
<1>2. TypeOK /\ TypeOK' /\ Coherent /\ Coherent' /\ [Next]_vars => [Replica!Next]_(Replica!vars)
  BY ReplicaStep
<1> QED  BY <1>1, <1>2, TypeCorrect, Coherence, PTL DEF Spec, PagesReplicate, Replica!Spec

-----------------------------------------------------------------------------
(* The last word: what was announced is shown or under way. *)

\* The steps that publish nothing.
Serves ==
    \/ \E s \in Streams : Accept(s) \/ Refuse(s) \/ Start(s) \/ Greet(s) \/ Forward(s) \/ Close(s)
    \/ \E p \in Pages : Mount(p) \/ Reconnect(p) \/ Unmount(p) \/ Disconnect(p)
    \/ Restart
    \/ UNCHANGED vars

\* A subscribed stream, after such a step: nothing happened to it, or one of its own steps did.
LEMMA ServedStream ==
    ASSUME TypeOK, Coherent, Serves, NEW r \in Streams, Attached(r)', Subscribed(stream'[r])
    PROVE  /\ UNCHANGED <<row, said, alone, scope>>
           /\ \/ /\ Attached(r) /\ stream'[r] = stream[r]
                 /\ view'[stream[r].page] = view[stream[r].page]
              \/ Start(r) \/ Greet(r) \/ Forward(r)
<1>0. stream[r] \in Stream /\ stream[r].page \in Pages
  BY DEF TypeOK, Stream
<1>1. ASSUME NEW s \in Streams, Accept(s) \/ Refuse(s) \/ Close(s)
      PROVE  /\ UNCHANGED <<row, said, alone, scope, view>>
             /\ r # s /\ stream'[r] = stream[r]
             /\ source'[stream[r].page] = source[stream[r].page]
  <2>1. CASE Accept(s)
    <3>1. UNCHANGED <<row, said, alone, scope, view, source>>
          /\ stream'[s].phase = "accepted" /\ \A o \in Streams \ {s} : stream'[o] = stream[o]
      BY <2>1 DEF Accept, pageVars, TypeOK, Stream
    <3> QED  BY <3>1, <1>0 DEF Subscribed
  <2>2. CASE Refuse(s)
    <3>1. UNCHANGED <<row, said, alone, scope, view>> /\ stream'[s] = FreeStream
          /\ \A o \in Streams \ {s} : stream'[o] = stream[o]
          /\ \A p \in Pages : source'[p] = IF source[p] = s THEN NoStream ELSE source[p]
      BY <2>2 DEF Refuse, FailedPages, TypeOK
    <3>2. r # s /\ stream'[r] = stream[r]
      BY <3>1, FreeStreamType DEF Subscribed
    <3>3. source'[stream[r].page] = r
      BY <3>2 DEF Attached
    <3> QED  BY <1>0, <3>1, <3>2, <3>3
  <2>3. CASE Close(s)
    <3>1. UNCHANGED <<row, said, alone, scope, view, source>> /\ stream'[s] = FreeStream
          /\ \A o \in Streams \ {s} : stream'[o] = stream[o]
      BY <2>3 DEF Close, pageVars, TypeOK
    <3> QED  BY <3>1, <1>0, FreeStreamType DEF Subscribed
  <2> QED  BY <1>1, <2>1, <2>2, <2>3
<1>2. ASSUME NEW s \in Streams, Start(s) \/ Greet(s) \/ Forward(s), r # s
      PROVE  /\ UNCHANGED <<row, said, alone, scope, source>> /\ stream'[r] = stream[r]
             /\ view'[stream[r].page] = view[stream[r].page]
  <2>1. UNCHANGED <<row, said, alone, scope, source>> /\ stream'[r] = stream[r]
    BY <1>2 DEF Start, Greet, Forward, TypeOK
  <2>2. source[stream[r].page] # s
    BY <1>0, <1>2, <2>1 DEF Attached
  <2> QED  BY <1>0, <1>2, <2>1, <2>2 DEF Start, Greet, Forward
<1>3. ASSUME NEW s \in Streams, Start(s) \/ Greet(s) \/ Forward(s)
      PROVE  UNCHANGED <<row, said, alone, scope>>
  BY <1>3 DEF Start, Greet, Forward
<1>4. ASSUME NEW p \in Pages, Mount(p) \/ Reconnect(p)
      PROVE  /\ UNCHANGED <<row, said, alone, scope, view>> /\ stream'[r] = stream[r]
             /\ source'[stream[r].page] = source[stream[r].page]
  <2>1. UNCHANGED <<row, said, alone, scope, view>>
    BY <1>4 DEF Mount, Reconnect
  <2>2. PICK s \in Streams : Request(p, s)
    BY <1>4 DEF Mount, Reconnect
  <2>3. /\ stream[s].phase = "free"
        /\ stream'[s] = [FreeStream EXCEPT !.phase = "requested", !.page = p]
        /\ \A o \in Streams \ {s} : stream'[o] = stream[o]
        /\ source'[p] = s /\ \A o \in Pages \ {p} : source'[o] = source[o]
    BY <2>2 DEF Request, TypeOK
  <2>4. [FreeStream EXCEPT !.phase = "requested", !.page = p].phase = "requested"
    BY DEF FreeStream
  <2>5. r # s
    BY <2>3, <2>4 DEF Subscribed
  <2>6. stream'[r] = stream[r] /\ source'[stream[r].page] = r
    BY <2>3, <2>5 DEF Attached
  <2> QED  BY <2>1, <2>3, <2>5, <2>6, <1>0
<1>5. ASSUME NEW p \in Pages, Unmount(p) \/ Disconnect(p)
      PROVE  /\ UNCHANGED <<row, said, alone, scope, view>> /\ stream'[r] = stream[r]
             /\ source'[stream[r].page] = source[stream[r].page]
  <2>1. UNCHANGED <<row, said, alone, scope, view, stream>>
        /\ \A o \in Pages : source'[o] \in {NoStream, source[o]}
    BY <1>5 DEF Unmount, Disconnect, FailedPages, TypeOK
  <2>2. source'[stream[r].page] = r
    BY <2>1 DEF Attached
  <2> QED  BY <1>0, <2>1, <2>2
<1>6. ~Restart
  BY FreeStreamType DEF Restart, Subscribed
<1>7. CASE UNCHANGED vars
  BY <1>7 DEF vars, Attached
<1>8. ASSUME stream'[r] = stream[r], source'[stream[r].page] = source[stream[r].page]
      PROVE  Attached(r)
  BY <1>8 DEF Attached
<1> QED
  BY <1>1, <1>2, <1>3, <1>4, <1>5, <1>6, <1>7, <1>8 DEF Serves, Attached

\* What LastWordIsComing says of one stream.
Kept(st) ==
    Subscribed(st) /\ ~st.dropped =>
        \A x \in Topics :
            Concerns(scope[st.page], x) /\ (OfList(scope[st.page]) \/ said[x] > st.since[x])
                => Coming(st, x, said[x])

LEMMA KeptIsLastWord == LastWordIsComing <=> \A s \in Streams : Attached(s) => Kept(stream[s])
BY DEF LastWordIsComing, Kept

\* An event about a topic of the scope reaches its streams.
LEMMA ConcernedReached ==
    ASSUME NEW e \in Events, NEW sc \in Scopes, e.type # "job.status_changed", Concerns(sc, e.about)
    PROVE  Reaches(e, sc)
<1>1. TenantOf(e.about) = sc.tenant
  BY DEF Concerns
<1>2. CASE e.type = "deployment.upsert"
  <2>1. e.about \notin Jobs
    BY <1>2 DEF Events
  <2> QED  BY <1>1, <1>2, <2>1 DEF Reaches, Concerns
<1>3. CASE e.type = "counts.update"
  <2>1. e.about \notin Jobs
    BY <1>3 DEF Events
  <2> QED  BY <1>1, <1>3, <2>1 DEF Reaches, Concerns
<1>4. CASE e.type = "progress"
  <2>1. e.about \in Jobs
    BY <1>4 DEF Events
  <2>2. ASSUME OfDetail(sc) PROVE e.about # sc.id
    BY <2>1, <2>2 DEF OfDetail
  <2>3. OfJobs(sc) /\ OfScope(sc, e.about)
    BY <2>1, <2>2 DEF Concerns
  <2> QED  BY <1>1, <1>4, <2>3 DEF Reaches
<1> QED  BY <1>2, <1>3, <1>4 DEF Events

\* A delivery that does not overflow loses nothing that was coming, and adds its own event.
LEMMA DeliveryComes ==
    ASSUME TypeOK, NEW st \in Stream, NEW e \in Events, Len(st.queue) <= QueueSize,
           ~Deliver(st, e).dropped
    PROVE  /\ ~st.dropped
           /\ \A x \in Topics, v \in Nat : Coming(st, x, v) => Coming(Deliver(st, e), x, v)
           /\ Subscribed(st) /\ Reaches(e, scope[st.page])
                => Coming(Deliver(st, e), e.about, e.version)
<1> DEFINE dl == Deliver(st, e)
<1>1. /\ dl.phase = st.phase /\ dl.page = st.page /\ dl.snapshot = st.snapshot
      /\ IF Subscribed(st) /\ Reaches(e, scope[st.page])
         THEN /\ dl.queue = Push(st.queue, e)
              /\ dl.dropped = (st.dropped \/ Len(st.queue) >= QueueSize)
         ELSE dl = st
  BY DeliverFacts
<1>2. st.queue \in Seq(Events) /\ ~dl.dropped /\ st.dropped \in BOOLEAN
  BY DEF Stream
<1> HIDE DEF dl
<1>3. CASE Subscribed(st) /\ Reaches(e, scope[st.page])
  <2>1. ~st.dropped /\ ~(Len(st.queue) >= QueueSize) /\ dl.queue = Push(st.queue, e)
    BY <1>1, <1>2, <1>3
  <2>2. Len(st.queue) \in Nat /\ Len(st.queue) < QueueSize
    BY <1>2, <2>1
  <2>3. IsPushed(st.queue, e, dl.queue)
    BY <1>2, <2>1, PushFacts
  <2>4. /\ Len(dl.queue) = Len(st.queue) + 1 /\ \A i \in 1 .. Len(st.queue) : dl.queue[i] = st.queue[i]
        /\ dl.queue \in Seq(Events) /\ dl.queue[Len(dl.queue)] = e
    BY <2>2, <2>3 DEF IsPushed
  <2>5. \A i \in 1 .. Len(st.queue) : i \in 1 .. Len(dl.queue)
    BY <2>2, <2>4
  <2>6. ASSUME NEW x \in Topics, NEW v \in Nat, Coming(st, x, v)
        PROVE  Coming(dl, x, v)
    <3>1. CASE \E i \in DOMAIN st.queue : st.queue[i].about = x /\ st.queue[i].version >= v
      <4>1. PICK i \in 1 .. Len(st.queue) : st.queue[i].about = x /\ st.queue[i].version >= v
        BY <1>2, <3>1
      <4>2. i \in DOMAIN dl.queue /\ dl.queue[i].about = x /\ dl.queue[i].version >= v
        BY <2>4, <2>5, <4>1
      <4> QED  BY <4>2 DEF Coming
    <3>2. CASE \/ st.phase = "subscribed" /\ st.snapshot[x] >= v
               \/ st.phase = "streaming" /\ view[st.page][x] >= v
      BY <1>1, <3>2 DEF Coming
    <3> QED  BY <2>6, <3>1, <3>2 DEF Coming
  <2>7. Coming(dl, e.about, e.version)
    <3>1. Len(dl.queue) \in DOMAIN dl.queue /\ e.version \in Nat
      BY <2>2, <2>4, EventFields
    <3> QED  BY <2>4, <3>1 DEF Coming
  <2> QED  BY <2>1, <2>6, <2>7 DEF dl
<1>4. CASE ~(Subscribed(st) /\ Reaches(e, scope[st.page]))
  BY <1>1, <1>2, <1>4 DEF dl
<1> QED  BY <1>3, <1>4

\* Where nothing happened, the promise stays.
LEMMA KeptStays ==
    ASSUME NEW r \in Streams, Kept(stream[r]), UNCHANGED <<said, scope>>, stream'[r] = stream[r],
           view'[stream[r].page] = view[stream[r].page]
    PROVE  Kept(stream[r])'
BY DEF Kept, Coming

\* One event: the promise made of the newer said'.
LEMMA PublishKept ==
    ASSUME TypeOK, NEW st \in Stream, Len(st.queue) <= QueueSize, Kept(st), NEW e \in Events,
           Subscribed(Deliver(st, e)), ~Deliver(st, e).dropped,
           NEW x \in Topics, Concerns(scope[st.page], x),
           OfList(scope[st.page]) \/ said[x] > st.since[x]
    PROVE  Coming(Deliver(st, e), x, said[x])
<1>1. Subscribed(st) /\ ~st.dropped
  BY DeliverFacts, DeliveryComes DEF Subscribed
<1>2. Coming(st, x, said[x]) /\ said[x] \in Nat
  BY <1>1 DEF Kept, TypeOK
<1> QED  BY <1>2, DeliveryComes

LEMMA LastWordStep == TypeOK /\ Coherent /\ LastWordIsComing /\ [Next]_vars => LastWordIsComing'
<1> SUFFICES ASSUME TypeOK, Coherent, LastWordIsComing, [Next]_vars,
                    NEW r \in Streams, Attached(r)'
             PROVE  Kept(stream[r])'
  BY KeptIsLastWord DEF LastWordIsComing, Kept
<1> DEFINE st == stream[r]
           sc == scope[st.page]
<1>0. /\ st \in Stream /\ Len(st.queue) <= QueueSize /\ st.page \in Pages /\ sc \in Scopes
      /\ said \in [Topics -> Nat] /\ row \in [Topics -> Nat] /\ st.since \in [Topics -> Nat]
      /\ Attached(r) => Kept(st)
  BY KeptIsLastWord DEF TypeOK, Stream
<1>1. ASSUME NEW d \in Deployments, Announce(d) PROVE Kept(stream[r])'
  <2> DEFINE up == Upsert(d)
             co == Counts(Owner[d])
             first == Deliver(st, up)
             second == Deliver(first, co)
  <2>1. /\ d \in Topics /\ Owner[d] \in Topics /\ up \in Events /\ co \in Events
        /\ up.type = "deployment.upsert" /\ up.about = d /\ up.version = row[d] + 1
        /\ co.type = "counts.update" /\ co.about = Owner[d] /\ co.version = row[Owner[d]] + 1
        /\ d # Owner[d]
    BY EventTypes DEF Upsert, Counts
  <2>2. /\ stream'[r] = second /\ UNCHANGED pageVars
        /\ said'[d] = row[d] + 1 /\ said'[Owner[d]] = row[Owner[d]] + 1
        /\ \A x \in Topics \ {d, Owner[d]} : said'[x] = said[x]
    BY <1>1, <1>0, <2>1 DEF Announce, PublishBoth
  <2> HIDE DEF up, co
  <2>3. /\ first \in Stream /\ Len(first.queue) <= QueueSize /\ first.page = st.page
        /\ first.phase = st.phase /\ first.since = st.since
    BY <1>0, <2>1, DeliverFacts
  <2> HIDE DEF first
  <2>4. second.page = st.page /\ second.phase = st.phase /\ second.since = st.since
    BY <2>1, <2>3, DeliverFacts
  <2>5. Attached(r) /\ Kept(st)
    BY <1>0, <2>2, <2>4 DEF Attached, pageVars
  <2>6. ASSUME Subscribed(second), ~second.dropped, NEW x \in Topics, Concerns(sc, x),
               OfList(sc) \/ said'[x] > st.since[x]
        PROVE  Coming(second, x, said'[x])
    <3>1. /\ ~first.dropped /\ Subscribed(st) /\ Subscribed(first)
          /\ \A y \in Topics, v \in Nat : Coming(first, y, v) => Coming(second, y, v)
          /\ Reaches(co, sc) => Coming(second, co.about, co.version)
      BY <2>1, <2>3, <2>4, <2>6, DeliveryComes DEF Subscribed
    <3>2. ~Deliver(st, up).dropped
      BY <3>1 DEF first
    <3>3. /\ ~st.dropped
          /\ \A y \in Topics, v \in Nat : Coming(st, y, v) => Coming(first, y, v)
          /\ Reaches(up, sc) => Coming(first, up.about, up.version)
      BY <1>0, <2>1, <3>1, <3>2, DeliveryComes DEF first
    <3>4. CASE x = d
      <4>1. Reaches(up, sc)
        BY <1>0, <2>1, <2>6, <3>4, ConcernedReached
      <4> QED  BY <1>0, <2>1, <2>2, <3>1, <3>3, <3>4, <4>1
    <3>5. CASE x = Owner[d]
      <4>1. Reaches(co, sc)
        BY <1>0, <2>1, <2>6, <3>5, ConcernedReached
      <4> QED  BY <2>1, <2>2, <3>1, <3>5, <4>1
    <3>6. CASE x \notin {d, Owner[d]}
      <4>1. said'[x] = said[x] /\ said[x] \in Nat
        BY <1>0, <2>2, <3>6
      <4>2. Coming(st, x, said[x])
        BY <2>5, <2>6, <3>1, <3>3, <4>1 DEF Kept
      <4> QED  BY <3>1, <3>3, <4>1, <4>2
    <3> QED  BY <3>4, <3>5, <3>6
  <2> HIDE DEF second
  <2> QED  BY <2>2, <2>4, <2>6 DEF Kept, Coming, Subscribed, pageVars
<1>2. ASSUME NEW e \in Events, stream'[r] = Deliver(st, e), UNCHANGED pageVars,
             \/ e.type # "job.status_changed" /\ said' = [said EXCEPT ![e.about] = e.version]
             \/ UNCHANGED said
      PROVE  Kept(stream[r])'
  <2> DEFINE dl == Deliver(st, e)
  <2>1. dl.page = st.page /\ dl.phase = st.phase /\ dl.since = st.since
    BY <1>0, DeliverFacts
  <2>2. Attached(r) /\ Kept(st)
    BY <1>0, <1>2, <2>1 DEF Attached, pageVars
  <2>3. ASSUME Subscribed(dl), ~dl.dropped, NEW x \in Topics, Concerns(sc, x),
               OfList(sc) \/ said'[x] > st.since[x]
        PROVE  Coming(dl, x, said'[x])
    <3>1. /\ ~st.dropped /\ Subscribed(st)
          /\ \A y \in Topics, v \in Nat : Coming(st, y, v) => Coming(dl, y, v)
          /\ Reaches(e, sc) => Coming(dl, e.about, e.version)
      BY <1>0, <2>1, <2>3, DeliveryComes DEF Subscribed
    <3>2. CASE said'[x] = said[x]
      <4>1. Coming(st, x, said[x])
        BY <2>2, <2>3, <3>1, <3>2 DEF Kept
      <4> QED  BY <1>0, <3>1, <3>2, <4>1
    <3>3. CASE said'[x] # said[x]
      <4>1. x = e.about /\ said'[x] = e.version /\ e.type # "job.status_changed"
        BY <1>0, <1>2, <3>3
      <4>2. Reaches(e, sc)
        BY <1>0, <2>3, <4>1, ConcernedReached
      <4> QED  BY <3>1, <4>1, <4>2
    <3> QED  BY <3>2, <3>3
  <2> HIDE DEF dl
  <2>4. stream'[r] = dl
    BY <1>2 DEF dl
  <2> QED  BY <1>2, <2>1, <2>3, <2>4 DEF Kept, Coming, Subscribed, pageVars
<1>3. ASSUME NEW d \in Deployments, AnnounceHalf(d) PROVE Kept(stream[r])'
  <2>1. Upsert(d) \in Events /\ Upsert(d).type = "deployment.upsert" /\ Upsert(d).about = d
        /\ Upsert(d).version = row[d] + 1
    BY EventTypes DEF Upsert
  <2> QED  BY <1>2, <1>3, <2>1 DEF AnnounceHalf, Publish
<1>4. ASSUME NEW d \in Deployments, WriteSilently(d) PROVE Kept(stream[r])'
  BY <1>0, <1>4 DEF WriteSilently, pageVars, Kept, Coming, Attached
<1>5. ASSUME NEW j \in Jobs, Progress(j) PROVE Kept(stream[r])'
  BY <1>2, <1>5, JobEventTypes DEF Progress, Publish
<1>6. ASSUME NEW j \in Jobs, ChangeJobStatus(j) PROVE Kept(stream[r])'
  BY <1>2, <1>6, JobEventTypes DEF ChangeJobStatus, Publish
<1>7. CASE Serves
  <2> SUFFICES ASSUME Subscribed(stream'[r]) PROVE Kept(stream[r])'
    BY DEF Kept, Subscribed
  <2>1. /\ UNCHANGED <<row, said, alone, scope>>
        /\ \/ /\ Attached(r) /\ stream'[r] = st
              /\ view'[st.page] = view[st.page]
           \/ Start(r) \/ Greet(r) \/ Forward(r)
    BY <1>7, ServedStream
  <2>2. CASE Attached(r) /\ stream'[r] = st /\ view'[st.page] = view[st.page]
    BY <1>0, <2>1, <2>2, KeptStays
  <2>3. CASE Start(r)
    <3>1. /\ stream'[r].page = st.page /\ stream'[r].since = said
          /\ stream'[r].phase = (IF OfJobs(sc) THEN "streaming" ELSE "subscribed")
          /\ stream'[r].snapshot = IF OfList(sc) THEN Rows(sc) ELSE st.snapshot
      BY <1>0, <2>3 DEF Start, TypeOK, Stream
    <3>2. ASSUME NEW x \in Topics, OfList(sc), Concerns(sc, x)
          PROVE  Coming(stream[r], x, said[x])'
      <4>1. Rows(sc)[x] = row[x]
        BY <3>2 DEF Rows, Concerns, OfList, OfDetail, OfJobs
      <4>2. said[x] <= row[x]
        BY DEF Coherent, RowIsNewest
      <4>3. stream'[r].phase = "subscribed" /\ stream'[r].snapshot[x] >= said'[x]
        BY <1>0, <2>1, <3>1, <3>2, <4>1, <4>2 DEF OfJobs
      <4> QED  BY <4>3 DEF Coming
    <3>3. \A x \in Topics : ~(said'[x] > stream'[r].since[x])
      BY <1>0, <2>1, <3>1
    <3> QED  BY <2>1, <3>1, <3>2, <3>3 DEF Kept
  <2>4. CASE Greet(r)
    <3>1. /\ Attached(r) /\ stream[r].phase = "subscribed"
          /\ stream'[r].page = st.page /\ stream'[r].phase = "streaming"
          /\ stream'[r].queue = st.queue /\ stream'[r].dropped = st.dropped
          /\ stream'[r].since = st.since
          /\ view'[st.page] = Shown(st.page, st.snapshot)
      BY <1>0, <2>4 DEF Greet, TypeOK, Stream, Attached
    <3>2. ASSUME NEW x \in Topics, Concerns(sc, x), Coming(st, x, said[x])
          PROVE  Coming(stream[r], x, said[x])'
      <4>1. CASE st.snapshot[x] >= said[x]
        <5>1. GoodSnapshot(st, row)
          BY <3>1 DEF Coherent
        <5>2. OfList(sc) \/ x = sc.id
          BY <3>1, <3>2, <5>1 DEF GoodSnapshot, Concerns
        <5>3. view'[st.page][x] >= said[x]
          BY <3>1, <4>1, <5>2 DEF Shown
        <5> QED  BY <2>1, <3>1, <5>3 DEF Coming
      <4>2. CASE \E i \in DOMAIN st.queue : st.queue[i].about = x /\ st.queue[i].version >= said[x]
        BY <2>1, <3>1, <4>2 DEF Coming
      <4> QED  BY <3>1, <3>2, <4>1, <4>2 DEF Coming
    <3> QED  BY <1>0, <2>1, <3>1, <3>2 DEF Kept, Subscribed
  <2>5. CASE Forward(r)
    <3> DEFINE q == st.queue
    <3>1. /\ Attached(r) /\ stream[r].phase = "streaming"
          /\ stream'[r].page = st.page /\ stream'[r].phase = "streaming"
          /\ stream'[r].queue = Tail(q) /\ stream'[r].dropped = st.dropped
          /\ stream'[r].since = st.since /\ q # <<>> /\ q \in Seq(Events)
          /\ source[st.page] = r
      BY <1>0, <2>5 DEF Forward, TypeOK, Stream, Attached
    <3>2. /\ view'[st.page][Head(q).about] = Head(q).version
          /\ \A x \in Topics : view'[st.page][x] >= view[st.page][x]
      BY <1>0, <2>5, <3>1, ForwardFacts, NothingGoesBack
    <3> HIDE DEF q
    <3>3. /\ Head(q) = q[1] /\ Len(q) \in Nat /\ Len(Tail(q)) = Len(q) - 1 /\ Tail(q) \in Seq(Events)
          /\ \A i \in 1 .. Len(Tail(q)) : Tail(q)[i] = q[i + 1]
      BY <3>1
    <3>4. ASSUME NEW x \in Topics, Coming(st, x, said[x])
          PROVE  Coming(stream[r], x, said[x])'
      <4>1. CASE view[st.page][x] >= said[x]
        <5>1. view'[st.page][x] >= view[st.page][x] /\ view[st.page][x] \in Nat /\ said[x] \in Nat
              /\ view'[st.page][x] \in Nat
          BY <1>0, <3>2, TypeStep DEF TypeOK
        <5>2. view'[st.page][x] >= said[x]
          BY <4>1, <5>1
        <5> QED  BY <2>1, <3>1, <5>2 DEF Coming
      <4>2. CASE \E i \in DOMAIN q : q[i].about = x /\ q[i].version >= said[x]
        <5>1. PICK i \in 1 .. Len(q) : q[i].about = x /\ q[i].version >= said[x]
          BY <3>1, <4>2
        <5>2. CASE i = 1
          BY <2>1, <3>1, <3>2, <3>3, <5>1, <5>2 DEF Coming
        <5>3. CASE i > 1
          <6>1. i - 1 \in DOMAIN Tail(q) /\ Tail(q)[i - 1] = q[i]
            BY <3>3, <5>3
          <6> QED  BY <2>1, <3>1, <5>1, <6>1 DEF Coming
        <5> QED  BY <5>2, <5>3
      <4> QED  BY <3>1, <3>4, <4>1, <4>2 DEF Coming, q
    <3> QED  BY <1>0, <2>1, <3>1, <3>4 DEF Kept, Subscribed
  <2> QED  BY <2>1, <2>2, <2>3, <2>4, <2>5
<1> QED
  BY <1>1, <1>3, <1>4, <1>5, <1>6, <1>7 DEF Next, Serves

\* The last word about every row of a page's scope is shown or under way until a queue overflows.
THEOREM LastWord == Spec => []LastWordIsComing
<1>1. Init => LastWordIsComing
  BY FreeStreamType DEF Init, LastWordIsComing, Subscribed
<1> QED  BY <1>1, TypeCorrect, Coherence, LastWordStep, PTL DEF Spec

\* A connected list page whose queue is empty, and was never full, shows the last word.
DrainedIsCurrent ==
    \A p \in Pages :
        LET st == stream[source[p]]
        IN /\ OfList(scope[p])
           /\ source[p] \in Streams
           /\ st.phase = "streaming" /\ st.queue = <<>> /\ ~st.dropped
           => \A x \in Topics : Concerns(scope[p], x) => view[p][x] >= said[x]

\* What EventuallyShown leaves to the event loop is to empty the queue: a list page that was
\* forwarded all it was queued shows the last word about every row of its scope.
THEOREM DrainedShows == Spec => []DrainedIsCurrent
<1>1. TypeOK /\ Coherent /\ LastWordIsComing => DrainedIsCurrent
  <2> SUFFICES ASSUME TypeOK, Coherent, LastWordIsComing,
                      NEW p \in Pages, OfList(scope[p]), source[p] \in Streams,
                      stream[source[p]].phase = "streaming", stream[source[p]].queue = <<>>,
                      ~stream[source[p]].dropped,
                      NEW x \in Topics, Concerns(scope[p], x)
               PROVE  view[p][x] >= said[x]
    BY DEF DrainedIsCurrent
  <2> DEFINE s == source[p]
  <2>1. stream[s].page = p /\ Attached(s) /\ Subscribed(stream[s])
    BY DEF Coherent, SourcesServe, Attached, Subscribed
  <2>2. Coming(stream[s], x, said[x])
    BY <2>1 DEF LastWordIsComing
  <2> QED  BY <2>1, <2>2 DEF Coming
<1> QED  BY <1>1, TypeCorrect, Coherence, LastWord, PTL

-----------------------------------------------------------------------------
(* The counters survive an overflow: they are never far from the end of the queue. *)

\* The counters t at version v or later are shown, or at most n events follow them in the queue.
Near(st, t, v, n) ==
    \/ st.phase = "subscribed" /\ st.snapshot[t] >= v
    \/ st.phase = "streaming" /\ view[st.page][t] >= v
    \/ \E i \in 1 .. Len(st.queue) : /\ st.queue[i].about = t
                                    /\ st.queue[i].version >= v
                                    /\ Len(st.queue) - i <= n

\* The counters of the stream's tenant, as last announced.
NearEnough(st) ==
    LET t == scope[st.page].tenant IN Near(st, t, said[t], alone[t])

CountersNear ==
    \A s \in Streams :
        LET sc == scope[stream[s].page]
        IN Subscribed(stream[s]) /\ Attached(s) /\ OfList(sc) /\ alone[sc.tenant] < QueueSize
                => NearEnough(stream[s])

\* An event more moves the counters one place from the end, even if the queue overflows.
LEMMA DeliveryNear ==
    ASSUME TypeOK, NEW st \in Stream, Len(st.queue) <= QueueSize, NEW e \in Events,
           NEW t \in Topics, NEW v \in Nat, NEW n \in Nat, n + 1 < QueueSize, Near(st, t, v, n)
    PROVE  Near(Deliver(st, e), t, v, n + 1)
<1> DEFINE dl == Deliver(st, e)
           q == st.queue
<1>1. /\ dl.phase = st.phase /\ dl.page = st.page /\ dl.snapshot = st.snapshot
      /\ dl.queue = Push(q, e) \/ dl = st
  BY DeliverFacts
<1>2. q \in Seq(Events) /\ Len(q) \in Nat
  BY DEF Stream
<1>3. IsPushed(q, e, Push(q, e))
  BY <1>2, PushFacts
<1> HIDE DEF dl
<1>4. CASE \E i \in 1 .. Len(q) : q[i].about = t /\ q[i].version >= v /\ Len(q) - i <= n
  <2>1. PICK i \in 1 .. Len(q) : q[i].about = t /\ q[i].version >= v /\ Len(q) - i <= n
    BY <1>4
  <2>2. CASE dl = st
    <3>1. Len(q) - i <= n + 1
      BY <1>2, <2>1
    <3> QED  BY <2>1, <2>2, <3>1 DEF Near, dl
  <2>3. CASE dl.queue = Push(q, e) /\ Len(q) < QueueSize
    <3>1. /\ Len(dl.queue) = Len(q) + 1 /\ dl.queue[i] = q[i]
          /\ i \in 1 .. Len(dl.queue) /\ Len(dl.queue) - i <= n + 1
      BY <1>2, <1>3, <2>1, <2>3 DEF IsPushed
    <3> QED  BY <2>1, <3>1 DEF Near, dl
  <2>4. CASE dl.queue = Push(q, e) /\ Len(q) >= QueueSize
    <3>1. /\ i > 1 /\ i - 1 \in 1 .. (Len(q) - 1)
      BY <1>2, <2>1, <2>4
    <3>2. Len(dl.queue) = Len(q) /\ dl.queue[i - 1] = q[i]
      BY <1>2, <1>3, <2>4, <3>1 DEF IsPushed
    <3>3. i - 1 \in 1 .. Len(dl.queue) /\ Len(dl.queue) - (i - 1) <= n + 1
      BY <1>2, <2>1, <3>1, <3>2
    <3> QED  BY <2>1, <3>2, <3>3 DEF Near, dl
  <2> QED  BY <1>1, <1>2, <2>2, <2>3, <2>4
<1>5. CASE \/ st.phase = "subscribed" /\ st.snapshot[t] >= v
           \/ st.phase = "streaming" /\ view[st.page][t] >= v
  BY <1>1, <1>5 DEF Near, dl
<1> QED  BY <1>4, <1>5 DEF Near

\* The counters themselves go to the end of the queue.
LEMMA CountersLast ==
    ASSUME TypeOK, NEW st \in Stream, Len(st.queue) <= QueueSize, NEW e \in Events,
           Subscribed(st), Reaches(e, scope[st.page])
    PROVE  Near(Deliver(st, e), e.about, e.version, 0)
<1> DEFINE dl == Deliver(st, e)
<1>1. dl.queue = Push(st.queue, e)
  BY DeliverFacts
<1>2. IsPushed(st.queue, e, dl.queue)
  BY <1>1, PushFacts DEF Stream
<1> HIDE DEF dl
<1>3. Len(dl.queue) \in 1 .. Len(dl.queue) /\ dl.queue[Len(dl.queue)] = e /\ e.version \in Nat
      /\ Len(dl.queue) - Len(dl.queue) <= 0
  BY <1>2, EventFields DEF IsPushed
<1> QED  BY <1>3 DEF Near, dl

LEMMA CountersStep == TypeOK /\ Coherent /\ CountersNear /\ [Next]_vars => CountersNear'
<1> SUFFICES ASSUME TypeOK, Coherent, CountersNear, [Next]_vars, NEW r \in Streams,
                    Attached(r)', Subscribed(stream'[r]), OfList(scope'[stream'[r].page]),
                    alone'[scope'[stream'[r].page].tenant] < QueueSize
             PROVE  NearEnough(stream[r])'
  BY DEF CountersNear, NearEnough, Subscribed
<1> DEFINE st == stream[r]
           sc == scope[st.page]
           t == sc.tenant
<1>0. /\ st \in Stream /\ Len(st.queue) <= QueueSize /\ st.page \in Pages /\ sc \in Scopes
      /\ said \in [Topics -> Nat] /\ row \in [Topics -> Nat] /\ alone \in [Tenants -> Nat]
      /\ t \in Tenants /\ t \in Topics /\ t \notin Jobs \cup Deployments /\ TenantOf(t) = t
  BY DEF TypeOK, Stream, Topics, TenantOf
<1>1. ASSUME UNCHANGED pageVars, stream'[r].page = st.page, stream'[r].phase = st.phase
      PROVE  /\ Subscribed(st) /\ OfList(sc) /\ scope'[stream'[r].page] = sc
             /\ alone[t] < QueueSize => Near(st, t, said[t], alone[t])
  BY <1>1 DEF CountersNear, NearEnough, Attached, Subscribed, pageVars
<1>2. ASSUME NEW d \in Deployments, Announce(d)
      PROVE  NearEnough(stream[r])' /\ scope'[stream'[r].page] = sc
  <2> DEFINE up == Upsert(d)
             co == Counts(Owner[d])
             first == Deliver(st, up)
             second == Deliver(first, co)
  <2>1. /\ d \in Topics /\ Owner[d] \in Tenants /\ Owner[d] \in Topics
        /\ up \in Events /\ co \in Events /\ up.about = d
        /\ co.type = "counts.update" /\ co.about = Owner[d] /\ co.version = row[Owner[d]] + 1
        /\ TenantOf(d) = Owner[d] /\ TenantOf(Owner[d]) = Owner[d]
    BY EventTypes DEF Upsert, Counts, TenantOf
  <2>2. /\ stream'[r] = second /\ UNCHANGED pageVars
        /\ said'[Owner[d]] = row[Owner[d]] + 1 /\ alone'[Owner[d]] = 0
        /\ t # Owner[d] => said'[t] = said[t] /\ alone'[t] = alone[t]
    BY <1>0, <1>2, <2>1 DEF Announce, PublishBoth
  <2> HIDE DEF up, co
  <2>3. /\ first \in Stream /\ Len(first.queue) <= QueueSize
        /\ first.page = st.page /\ first.phase = st.phase
    BY <1>0, <2>1, DeliverFacts
  <2> HIDE DEF first
  <2>4. second.page = st.page /\ second.phase = st.phase
    BY <2>1, <2>3, DeliverFacts
  <2> HIDE DEF second
  <2>5. /\ Subscribed(st) /\ OfList(sc) /\ scope'[stream'[r].page] = sc
        /\ alone[t] < QueueSize => Near(st, t, said[t], alone[t])
    BY <1>1, <2>2, <2>4
  <2>6. CASE t = Owner[d]
    <3>1. Reaches(co, scope[first.page]) /\ Subscribed(first)
      BY <2>1, <2>3, <2>5, <2>6 DEF Reaches, Subscribed
    <3>2. Near(second, co.about, co.version, 0)
      BY <2>1, <2>3, <3>1, CountersLast DEF second
    <3> QED  BY <2>1, <2>2, <2>5, <2>6, <3>2 DEF NearEnough, Near, pageVars
  <2>7. CASE t # Owner[d]
    <3>1. ~Reaches(up, sc) /\ ~Reaches(co, sc)
      BY <2>1, <2>7 DEF Reaches
    <3>2. first = st
      BY <1>0, <2>1, <3>1, DeliverFacts DEF first
    <3>3. second = st
      BY <1>0, <2>1, <3>1, <3>2, DeliverFacts DEF second
    <3> QED  BY <2>2, <2>5, <2>7, <3>3 DEF NearEnough, Near, pageVars
  <2> QED  BY <2>5, <2>6, <2>7
<1>3. ASSUME NEW d \in Deployments, AnnounceHalf(d)
      PROVE  NearEnough(stream[r])' /\ scope'[stream'[r].page] = sc
  <2> DEFINE up == Upsert(d)
             dl == Deliver(st, up)
  <2>1. /\ d \in Topics /\ Owner[d] \in Tenants /\ up \in Events /\ up.about = d /\ TenantOf(d) = Owner[d]
    BY EventTypes DEF Upsert, TenantOf
  <2>2. /\ stream'[r] = dl /\ UNCHANGED pageVars /\ said'[t] = said[t]
        /\ alone'[t] = IF t = Owner[d] THEN alone[t] + 1 ELSE alone[t]
    BY <1>0, <1>3, <2>1 DEF AnnounceHalf, Publish
  <2> HIDE DEF up
  <2>3. dl.page = st.page /\ dl.phase = st.phase
    BY <1>0, <2>1, DeliverFacts
  <2>4. /\ Subscribed(st) /\ OfList(sc) /\ scope'[stream'[r].page] = sc
        /\ alone[t] < QueueSize => Near(st, t, said[t], alone[t])
    BY <1>1, <2>2, <2>3
  <2>5. CASE t = Owner[d]
    <3>1. alone[t] \in Nat /\ alone'[t] = alone[t] + 1 /\ alone[t] + 1 < QueueSize /\ said[t] \in Nat
      BY <1>0, <2>2, <2>4, <2>5
    <3>2. Near(st, t, said[t], alone[t])
      BY <2>4, <3>1
    <3>3. Near(dl, t, said[t], alone[t] + 1)
      BY <1>0, <2>1, <3>1, <3>2, DeliveryNear
    <3> HIDE DEF dl
    <3> QED  BY <2>2, <2>4, <3>1, <3>3 DEF NearEnough, Near, pageVars
  <2>6. CASE t # Owner[d]
    <3>1. ~Reaches(up, sc)
      BY <2>1, <2>6 DEF Reaches
    <3>2. dl = st
      BY <1>0, <2>1, <3>1, DeliverFacts
    <3> HIDE DEF dl
    <3> QED  BY <2>2, <2>4, <2>6, <3>2 DEF NearEnough, Near, pageVars
  <2> QED  BY <2>5, <2>6
<1>4. ASSUME NEW e \in Events, e.type \in {"progress", "job.status_changed"},
             stream'[r] = Deliver(st, e), UNCHANGED <<alone, pageVars>>, said'[t] = said[t]
      PROVE  NearEnough(stream[r])' /\ scope'[stream'[r].page] = sc
  <2>1. stream'[r].page = st.page /\ stream'[r].phase = st.phase
    BY <1>0, <1>4, DeliverFacts
  <2>2. /\ Subscribed(st) /\ OfList(sc) /\ scope'[stream'[r].page] = sc
        /\ alone[t] < QueueSize => Near(st, t, said[t], alone[t])
    BY <1>1, <1>4, <2>1 DEF pageVars
  <2>3. ~Reaches(e, sc)
    BY <1>4, <2>2 DEF Reaches, OfJobs, OfList, OfDetail
  <2>4. stream'[r] = st
    BY <1>0, <1>4, <2>3, DeliverFacts
  <2> QED  BY <1>4, <2>2, <2>4 DEF NearEnough, Near, pageVars
<1>5. ASSUME NEW d \in Deployments, WriteSilently(d)
      PROVE  NearEnough(stream[r])' /\ scope'[stream'[r].page] = sc
  <2>1. /\ Subscribed(st) /\ OfList(sc) /\ scope'[stream'[r].page] = sc
        /\ alone[t] < QueueSize => Near(st, t, said[t], alone[t])
    BY <1>1, <1>5 DEF WriteSilently
  <2> QED  BY <1>5, <2>1 DEF NearEnough, Near, WriteSilently, pageVars
<1>6. ASSUME NEW j \in Jobs, Progress(j) \/ ChangeJobStatus(j)
      PROVE  NearEnough(stream[r])' /\ scope'[stream'[r].page] = sc
  <2>1. said'[t] = said[t] /\ UNCHANGED <<alone, pageVars>>
    BY <1>0, <1>6 DEF Progress, ChangeJobStatus
  <2>2. \E e \in Events : e.type \in {"progress", "job.status_changed"} /\ stream'[r] = Deliver(st, e)
    BY <1>6, JobEventTypes DEF Progress, ChangeJobStatus, Publish
  <2> QED  BY <1>4, <2>1, <2>2
<1>7. ASSUME Serves
      PROVE  NearEnough(stream[r])' /\ scope'[stream'[r].page] = sc
  <2>1. /\ UNCHANGED <<row, said, alone, scope>>
        /\ \/ /\ Attached(r) /\ stream'[r] = st
              /\ view'[st.page] = view[st.page]
           \/ Start(r) \/ Greet(r) \/ Forward(r)
    BY <1>7, ServedStream
  <2>2. CASE Attached(r) /\ stream'[r] = st /\ view'[st.page] = view[st.page]
    <3>1. Near(st, t, said[t], alone[t])
      BY <2>1, <2>2 DEF CountersNear, NearEnough
    <3> QED  BY <2>1, <2>2, <3>1 DEF NearEnough, Near
  <2>3. CASE Start(r)
    <3>1. /\ stream'[r].page = st.page
          /\ stream'[r].phase = (IF OfJobs(sc) THEN "streaming" ELSE "subscribed")
          /\ stream'[r].snapshot = IF OfList(sc) THEN Rows(sc) ELSE st.snapshot
      BY <1>0, <2>3 DEF Start, TypeOK, Stream
    <3>2. OfList(sc) /\ Rows(sc)[t] = row[t] /\ said[t] <= row[t] /\ said[t] \in Nat /\ row[t] \in Nat
      BY <1>0, <2>1, <3>1 DEF Rows, Coherent, RowIsNewest
    <3>3. stream'[r].phase = "subscribed" /\ stream'[r].snapshot[t] >= said'[t]
      BY <2>1, <3>1, <3>2 DEF OfJobs
    <3> QED  BY <2>1, <3>1, <3>3 DEF NearEnough, Near
  <2>4. CASE Greet(r)
    <3>1. /\ Attached(r) /\ stream[r].phase = "subscribed"
          /\ stream'[r].page = st.page /\ stream'[r].phase = "streaming"
          /\ stream'[r].queue = st.queue
          /\ view'[st.page] = Shown(st.page, st.snapshot)
      BY <1>0, <2>4 DEF Greet, TypeOK, Stream, Attached
    <3>2. OfList(sc) /\ Near(st, t, said[t], alone[t])
      BY <2>1, <3>1 DEF CountersNear, NearEnough, Subscribed
    <3>3. view'[st.page][t] = st.snapshot[t]
      BY <1>0, <3>1, <3>2 DEF Shown
    <3> QED  BY <2>1, <3>1, <3>2, <3>3 DEF NearEnough, Near
  <2>5. CASE Forward(r)
    <3> DEFINE q == st.queue
    <3>1. /\ Attached(r) /\ stream[r].phase = "streaming"
          /\ stream'[r].page = st.page /\ stream'[r].phase = "streaming"
          /\ stream'[r].queue = Tail(q) /\ q # <<>> /\ q \in Seq(Events)
          /\ source[st.page] = r
      BY <1>0, <2>5 DEF Forward, TypeOK, Stream, Attached
    <3>2. /\ view'[st.page][Head(q).about] = Head(q).version
          /\ view'[st.page][t] >= view[st.page][t]
      BY <1>0, <2>5, <3>1, ForwardFacts, NothingGoesBack
    <3>3. Near(st, t, said[t], alone[t])
      BY <2>1, <3>1 DEF CountersNear, NearEnough, Subscribed
    <3> HIDE DEF q
    <3>4. /\ Head(q) = q[1] /\ Len(q) \in Nat /\ Len(Tail(q)) = Len(q) - 1
          /\ \A i \in 1 .. Len(Tail(q)) : Tail(q)[i] = q[i + 1]
      BY <3>1
    <3>5. CASE view[st.page][t] >= said[t]
      <4>0. view' \in [Pages -> [Topics -> Nat]] /\ view \in [Pages -> [Topics -> Nat]]
        BY TypeStep DEF TypeOK
      <4>1. view'[st.page][t] \in Nat /\ view[st.page][t] \in Nat /\ said[t] \in Nat
        BY <1>0, <4>0
      <4>2. view'[st.page][t] >= said[t]
        BY <3>2, <3>5, <4>1
      <4> QED  BY <2>1, <3>1, <4>2 DEF NearEnough, Near
    <3>6. CASE \E i \in 1 .. Len(q) : q[i].about = t /\ q[i].version >= said[t] /\ Len(q) - i <= alone[t]
      <4>1. PICK i \in 1 .. Len(q) : q[i].about = t /\ q[i].version >= said[t] /\ Len(q) - i <= alone[t]
        BY <3>6
      <4>2. CASE i = 1
        BY <2>1, <3>1, <3>2, <3>4, <4>1, <4>2 DEF NearEnough, Near
      <4>3. CASE i > 1
        <5>1. i - 1 \in 1 .. Len(Tail(q)) /\ Tail(q)[i - 1] = q[i] /\ Len(Tail(q)) - (i - 1) = Len(q) - i
          BY <3>4, <4>3
        <5> QED  BY <2>1, <3>1, <4>1, <5>1 DEF NearEnough, Near
      <4> QED  BY <4>2, <4>3
    <3> QED  BY <2>1, <3>1, <3>3, <3>5, <3>6 DEF NearEnough, Near, q
  <2>6. stream'[r].page = st.page
    BY <1>0, <2>1, <2>2 DEF Start, Greet, Forward, TypeOK, Stream
  <2> QED  BY <2>1, <2>2, <2>3, <2>4, <2>5, <2>6
<1> QED
  BY <1>2, <1>3, <1>5, <1>6, <1>7 DEF Next, Serves

\* The newest counters reach a list page even through a queue that overflows.
THEOREM CountersSurvive == Spec => []CountersSurviveOverflow
<1>1. Init => CountersNear
  BY FreeStreamType DEF Init, CountersNear, Subscribed
<1>2. TypeOK /\ CountersNear => CountersSurviveOverflow
  <2> SUFFICES ASSUME TypeOK, CountersNear, NEW s \in Streams, Subscribed(stream[s]), Attached(s),
                      OfList(scope[stream[s].page]), alone[scope[stream[s].page].tenant] < QueueSize
               PROVE  LET t == scope[stream[s].page].tenant IN Coming(stream[s], t, said[t])
    BY DEF CountersSurviveOverflow
  <2> DEFINE t == scope[stream[s].page].tenant
  <2>1. Near(stream[s], t, said[t], alone[t])
    BY DEF CountersNear, NearEnough
  <2>2. stream[s].queue \in Seq(Events)
    BY DEF TypeOK, Stream
  <2> HIDE DEF t
  <2>3. Coming(stream[s], t, said[t])
    BY <2>1, <2>2 DEF Near, Coming
  <2> QED  BY <2>3 DEF t
<1> QED  BY <1>1, <1>2, TypeCorrect, Coherence, CountersStep, PTL DEF Spec
=============================================================================
