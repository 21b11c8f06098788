---------------------------- MODULE TravelmapProofs ----------------------------
(***************************************************************************)
(* The track worker, and the components put together.  No request to       *)
(* rebuild tracks is lost or answered from old points, for any users,      *)
(* points and number of recalculations, and however often the worker fails *)
(* or the server stops.  The composition implements Ingest and TrackWorker *)
(* both, and daily_stats and tracks agree on the distance travelled.       *)
(***************************************************************************)
EXTENDS Travelmap, IngestProofs

-----------------------------------------------------------------------------
(* The queue *)

\* Enqueue queues u and nobody else.
LEMMA EnqueueQueues ==
  ASSUME NEW queue \in Seq(User), NEW u \in User
  PROVE  /\ Enqueue(queue, u) \in Seq(User)
         /\ Queued(Enqueue(queue, u)) = Queued(queue) \cup {u}
<1>1. CASE u \in Queued(queue)
  BY <1>1 DEF Enqueue
<1>2. CASE u \notin Queued(queue)
  <2>1. Enqueue(queue, u) = Append(queue, u) /\ Append(queue, u) \in Seq(User)
    BY <1>2 DEF Enqueue
  <2>2. /\ DOMAIN Append(queue, u) = 1 .. Len(queue) + 1
        /\ Append(queue, u)[Len(queue) + 1] = u
        /\ \A i \in 1 .. Len(queue) : Append(queue, u)[i] = queue[i]
    OBVIOUS
  <2>3. Queued(Append(queue, u)) \subseteq Queued(queue) \cup {u}
    BY <2>2 DEF Queued
  <2>4. Queued(queue) \cup {u} \subseteq Queued(Append(queue, u))
    BY <2>2 DEF Queued
  <2> QED  BY <2>1, <2>3, <2>4
<1> QED  BY <1>1, <1>2

\* Enqueue moves nobody, and adds at the end only.
LEMMA EnqueueKeepsPlaces ==
  ASSUME NEW queue \in Seq(User), NEW u \in User
  PROVE  /\ \A i \in DOMAIN queue : i \in DOMAIN Enqueue(queue, u) /\ Enqueue(queue, u)[i] = queue[i]
         /\ \A i \in DOMAIN Enqueue(queue, u) \ DOMAIN queue :
              i = Len(queue) + 1 /\ Enqueue(queue, u)[i] = u /\ u \notin Queued(queue)
<1>1. CASE u \in Queued(queue)
  BY <1>1 DEF Enqueue
<1>2. CASE u \notin Queued(queue)
  BY <1>2 DEF Enqueue
<1> QED  BY <1>1, <1>2

\* A claim takes the head off the queue and moves everyone else up by one.
LEMMA TailDequeues ==
  ASSUME NEW queue \in Seq(User), queue # << >>
  PROVE  /\ Tail(queue) \in Seq(User) /\ Head(queue) \in User
         /\ Queued(queue) \subseteq Queued(Tail(queue)) \cup {Head(queue)}
         /\ Queued(Tail(queue)) \subseteq Queued(queue)
         /\ DOMAIN Tail(queue) = 1 .. Len(queue) - 1
         /\ \A i \in DOMAIN Tail(queue) : Tail(queue)[i] = queue[i + 1]
<1>1. /\ Tail(queue) \in Seq(User) /\ Head(queue) \in User /\ Head(queue) = queue[1]
      /\ DOMAIN queue = 1 .. Len(queue) /\ Len(queue) \in Nat /\ Len(queue) >= 1
      /\ DOMAIN Tail(queue) = 1 .. Len(queue) - 1
      /\ \A i \in 1 .. Len(queue) - 1 : Tail(queue)[i] = queue[i + 1]
  OBVIOUS
<1>2. ASSUME NEW i \in DOMAIN queue
      PROVE  queue[i] \in Queued(Tail(queue)) \cup {Head(queue)}
  <2>1. CASE i = 1
    BY <1>1, <2>1
  <2>2. CASE i # 1
    <3>1. i - 1 \in DOMAIN Tail(queue) /\ Tail(queue)[i - 1] = queue[i]
      BY <1>1, <2>2
    <3> QED  BY <3>1 DEF Queued
  <2> QED  BY <2>1, <2>2
<1>3. ASSUME NEW i \in DOMAIN Tail(queue)
      PROVE  Tail(queue)[i] \in Queued(queue)
  BY <1>1, <1>3 DEF Queued
<1> QED  BY <1>1, <1>2, <1>3 DEF Queued

-----------------------------------------------------------------------------

\* The tracks of a history are well typed.
LEMMA BuildType ==
  ASSUME NEW h \in History
  PROVE  build(h) \in SUBSET Track
<1> USE StoredType
<1>1. ASSUME NEW a \in Starts(h)
      PROVE  [t \in RunFrom(h, a) |-> h[t]] \in Track
  <2>1. RunFrom(h, a) \in SUBSET Time /\ \A t \in RunFrom(h, a) : h[t] \in Pos
    BY DEF Stored, History
  <2>2. [t \in RunFrom(h, a) |-> h[t]] \in [RunFrom(h, a) -> Pos]
    BY <2>1
  <2> QED  BY <2>1, <2>2 DEF Track
<1> QED  BY <1>1 DEF build

\* A user without points has no tracks.
LEMMA NothingToBuild == NoHistory \in History /\ build(NoHistory) = {}
<1>1. NoHistory \in History /\ Stored(NoHistory) = {}
  BY DEF NoHistory, History, Stored
<1> QED  BY <1>1, StoredType DEF build

\* Rows always come from one state of the user's points.
FromOneHistory == \A u \in User : \E h \in History : tracks[u] = build(h)

WorkerInv == WorkerTypeOK /\ TracksCurrent /\ FromOneHistory

\* Rebuilding a user's tracks from the current points keeps the invariant.
LEMMA RebuildPreserves ==
  ASSUME WorkerInv, NEW u \in User, RebuildUser(u), UNCHANGED points,
         jobs' \in Seq(User), Queued(jobs) \subseteq Queued(jobs') \cup {u}
  PROVE  TracksCurrent' /\ FromOneHistory' /\ tracks' \in [User -> SUBSET Track]
<1>1. tracks' = [tracks EXCEPT ![u] = build(points[u])] /\ points[u] \in History /\ points' = points
  BY DEF WorkerInv, WorkerTypeOK, TablesType, RebuildUser, ReplaceAll
<1>2. tracks' \in [User -> SUBSET Track]
  BY <1>1, BuildType DEF WorkerInv, WorkerTypeOK, TablesType
<1>3. tracks'[u] = build(points[u]) /\ \A v \in User \ {u} : tracks'[v] = tracks[v]
  BY <1>1 DEF WorkerInv, WorkerTypeOK, TablesType
<1>4. TracksCurrent'
  <2> SUFFICES ASSUME NEW v \in User
               PROVE  v \in Queued(jobs') \/ tracks'[v] = build(points[v])
    BY <1>1 DEF TracksCurrent
  <2> QED  BY <1>3 DEF WorkerInv, TracksCurrent
<1>5. FromOneHistory'
  <2> SUFFICES ASSUME NEW v \in User
               PROVE  \E h \in History : tracks'[v] = build(h)
    BY DEF FromOneHistory
  <2> QED  BY <1>1, <1>3 DEF WorkerInv, FromOneHistory
<1> QED  BY <1>2, <1>4, <1>5

\* A change to a user's points leaves a request behind.
LEMMA ChangePreserves ==
  ASSUME WorkerInv, NEW u \in User, NEW h \in History, Change(u, h)
  PROVE  WorkerInv'
<1>1. /\ points' = [points EXCEPT ![u] = h] /\ jobs' = Enqueue(jobs, u)
      /\ UNCHANGED <<tracks, worker, trackRun, trackUserIDs>>
  BY DEF Change, runs
<1>2. jobs' \in Seq(User) /\ Queued(jobs') = Queued(jobs) \cup {u}
  BY <1>1, EnqueueQueues DEF WorkerInv, WorkerTypeOK, TablesType
<1>3. WorkerTypeOK'
  BY <1>1, <1>2 DEF WorkerInv, WorkerTypeOK, TablesType
<1>4. TracksCurrent'
  <2> SUFFICES ASSUME NEW v \in User, v # u, v \notin Queued(jobs)
               PROVE  tracks'[v] = build(points'[v])
    BY <1>2 DEF TracksCurrent
  <2> QED  BY <1>1 DEF WorkerInv, WorkerTypeOK, TablesType, TracksCurrent
<1>5. FromOneHistory'
  BY <1>1 DEF WorkerInv, FromOneHistory
<1> QED  BY <1>3, <1>4, <1>5 DEF WorkerInv

\* A claim with its rebuild keeps WorkerInv.
LEMMA ClaimPreserves ==
  ASSUME WorkerInv, ClaimAndRebuild
  PROVE  WorkerInv'
<1>1. /\ jobs \in Seq(User) /\ jobs # << >> /\ jobs' = Tail(jobs) /\ RebuildUser(Head(jobs))
      /\ UNCHANGED <<points, worker, trackRun, trackUserIDs>>
  BY DEF WorkerInv, WorkerTypeOK, TablesType, ClaimAndRebuild, runs
<1>2. jobs' \in Seq(User) /\ Head(jobs) \in User /\ Queued(jobs) \subseteq Queued(jobs') \cup {Head(jobs)}
  BY <1>1, TailDequeues
<1>3. TracksCurrent' /\ FromOneHistory' /\ tracks' \in [User -> SUBSET Track]
  BY <1>1, <1>2, RebuildPreserves
<1> QED  BY <1>1, <1>2, <1>3 DEF WorkerInv, WorkerTypeOK, TablesType

\* A rebuild by recalculate keeps WorkerInv.
LEMMA RebuildListedPreserves ==
  ASSUME WorkerInv, NEW r \in Run, NEW u \in User, RebuildListed(r, u)
  PROVE  WorkerInv'
<1>1. /\ RebuildUser(u) /\ UNCHANGED <<points, jobs, worker, trackRun>>
      /\ trackUserIDs' = [trackUserIDs EXCEPT ![r] = @ \ {u}]
  BY DEF RebuildListed
<1>2. TracksCurrent' /\ FromOneHistory' /\ tracks' \in [User -> SUBSET Track]
  BY <1>1, RebuildPreserves DEF WorkerInv, WorkerTypeOK, TablesType
<1> QED  BY <1>1, <1>2 DEF WorkerInv, WorkerTypeOK, TablesType

\* The other steps leave points, requests and tracks alone.
LEMMA OthersPreserve ==
  ASSUME WorkerInv,
         \/ Start \/ EndDrain \/ Tick \/ Stop
         \/ \E r \in Run : ListTrackUsers(r) \/ EndTracks(r)
         \/ UNCHANGED workerVars
  PROVE  WorkerInv'
<1>1. UNCHANGED <<points, jobs, tracks>>
  BY DEF Start, EndDrain, Tick, Stop, ListTrackUsers, EndTracks, workerVars
<1>2. TracksCurrent' /\ FromOneHistory'
  BY <1>1 DEF WorkerInv, TracksCurrent, FromOneHistory
<1>3. WorkerTypeOK'
  <2> USE DEF WorkerInv, WorkerTypeOK, TablesType
  <2>1. CASE Start \/ EndDrain \/ Tick \/ Stop
    BY <1>1, <2>1 DEF Start, EndDrain, Tick, Stop, runs
  <2>2. ASSUME NEW r \in Run, ListTrackUsers(r) \/ EndTracks(r) PROVE WorkerTypeOK'
    BY <1>1, <2>2 DEF ListTrackUsers, EndTracks, UserIDs
  <2>3. CASE UNCHANGED workerVars
    BY <1>1, <2>3 DEF workerVars
  <2> QED  BY <2>1, <2>2, <2>3
<1> QED  BY <1>2, <1>3 DEF WorkerInv

\* The invariant holds of the track worker and its environment.
THEOREM WorkerInvariant == WorkerSpec => []WorkerInv
<1>1. WorkerInit => WorkerInv
  <2> SUFFICES ASSUME WorkerInit PROVE WorkerInv
    OBVIOUS
  <2>1. points = [u \in User |-> NoHistory] /\ tracks = [u \in User |-> {}] /\ jobs = << >>
    BY DEF WorkerInit, TablesInit
  <2>2. WorkerTypeOK
    BY NothingToBuild DEF WorkerInit, TablesInit, WorkerTypeOK, TablesType
  <2>3. TracksCurrent
    BY <2>1, NothingToBuild DEF TracksCurrent
  <2>4. FromOneHistory
    BY <2>1, NothingToBuild DEF FromOneHistory
  <2> QED  BY <2>2, <2>3, <2>4 DEF WorkerInv
<1>2. WorkerInv /\ [WorkerNext]_workerVars => WorkerInv'
  <2> SUFFICES ASSUME WorkerInv, [WorkerNext]_workerVars PROVE WorkerInv'
    OBVIOUS
  <2>1. ASSUME NEW u \in User, NEW h \in History, Change(u, h) PROVE WorkerInv'
    BY <2>1, ChangePreserves
  <2>2. CASE ClaimAndRebuild
    BY <2>2, ClaimPreserves
  <2>3. ASSUME NEW r \in Run, NEW u \in User, RebuildListed(r, u) PROVE WorkerInv'
    BY <2>3, RebuildListedPreserves
  <2>4. CASE \/ Start \/ EndDrain \/ Tick \/ Stop
             \/ \E r \in Run : ListTrackUsers(r) \/ EndTracks(r)
             \/ UNCHANGED workerVars
    BY <2>4, OthersPreserve
  <2> QED  BY <2>1, <2>2, <2>3, <2>4 DEF WorkerNext
<1> QED  BY <1>1, <1>2, PTL DEF WorkerSpec

\* Tables, worker and runs keep their types.
THEOREM WorkerTypeCorrect == WorkerSpec => []WorkerTypeOK
<1>1. WorkerInv => WorkerTypeOK
  BY DEF WorkerInv
<1> QED  BY <1>1, WorkerInvariant, PTL

\* Whoever has no request pending has the tracks the points make.
THEOREM TracksAlwaysCurrent == WorkerSpec => []TracksCurrent
<1>1. WorkerInv => TracksCurrent
  BY DEF WorkerInv
<1> QED  BY <1>1, WorkerInvariant, PTL

\* Whoever has no request pending finds a track's points by its range.
THEOREM RangeAlwaysFindsPoints == WorkerSpec => []RangeFindsPoints
<1>1. WorkerInv => RangeFindsPoints
  BY RangeIsTrack DEF WorkerInv, WorkerTypeOK, TablesType, TracksCurrent, RangeFindsPoints
<1> QED  BY <1>1, WorkerInvariant, PTL

\* No two tracks a user is shown overlap, pending requests or not.
THEOREM TracksNeverOverlap == WorkerSpec => []TracksApart
<1>1. WorkerInv => TracksApart
  BY TracksDoNotOverlap DEF WorkerInv, FromOneHistory, TracksApart
<1> QED  BY <1>1, WorkerInvariant, PTL

-----------------------------------------------------------------------------

\* What a step may do to the queue.
LEMMA QueueSteps ==
  ASSUME WorkerInv, [WorkerNext]_workerVars
  PROVE  \/ jobs' = jobs
         \/ \E u \in User : jobs' = Enqueue(jobs, u)
         \/ jobs # << >> /\ jobs' = Tail(jobs)
BY DEF WorkerNext, Change, Start, ClaimAndRebuild, EndDrain, Tick, Stop, ListTrackUsers,
       RebuildListed, EndTracks, workerVars

\* A user never has two requests pending.
THEOREM OneRequestAlways == WorkerSpec => []OneRequestEach
<1>1. WorkerInit => OneRequestEach
  BY DEF WorkerInit, TablesInit, OneRequestEach
<1>2. WorkerInv /\ OneRequestEach /\ [WorkerNext]_workerVars => OneRequestEach'
  <2> SUFFICES ASSUME WorkerInv, OneRequestEach, [WorkerNext]_workerVars PROVE OneRequestEach'
    OBVIOUS
  <2>1. jobs \in Seq(User) /\ DOMAIN jobs = 1 .. Len(jobs) /\ Len(jobs) \in Nat
    BY DEF WorkerInv, WorkerTypeOK, TablesType
  <2>2. CASE jobs' = jobs
    BY <2>2 DEF OneRequestEach
  <2>3. ASSUME NEW u \in User, jobs' = Enqueue(jobs, u) PROVE OneRequestEach'
    <3> SUFFICES ASSUME NEW i \in DOMAIN jobs', NEW j \in DOMAIN jobs', jobs'[i] = jobs'[j]
                 PROVE  i = j
      BY DEF OneRequestEach
    <3>1. \A k \in DOMAIN jobs : jobs'[k] = jobs[k] /\ jobs[k] \in Queued(jobs)
      BY <2>1, <2>3, EnqueueKeepsPlaces DEF Queued
    <3>2. \A k \in DOMAIN jobs' \ DOMAIN jobs :
            k = Len(jobs) + 1 /\ jobs'[k] = u /\ u \notin Queued(jobs)
      BY <2>1, <2>3, EnqueueKeepsPlaces
    <3> QED  BY <3>1, <3>2 DEF OneRequestEach
  <2>4. CASE jobs # << >> /\ jobs' = Tail(jobs)
    <3> SUFFICES ASSUME NEW i \in DOMAIN jobs', NEW j \in DOMAIN jobs', jobs'[i] = jobs'[j]
                 PROVE  i = j
      BY DEF OneRequestEach
    <3>1. /\ i \in 1 .. Len(jobs) - 1 /\ j \in 1 .. Len(jobs) - 1
          /\ jobs'[i] = jobs[i + 1] /\ jobs'[j] = jobs[j + 1]
      BY <2>1, <2>4, TailDequeues
    <3>2. i + 1 \in DOMAIN jobs /\ j + 1 \in DOMAIN jobs
      BY <2>1, <3>1
    <3>3. i + 1 = j + 1
      BY <3>1, <3>2 DEF OneRequestEach
    <3> QED  BY <3>1, <3>3
  <2> QED  BY <2>2, <2>3, <2>4, QueueSteps
<1> QED  BY <1>1, <1>2, WorkerInvariant, PTL DEF WorkerSpec

\* Requests are served first come, first served.
THEOREM NobodyOvertakes == WorkerSpec => NoOvertaking
<1>1. WorkerInv /\ OneRequestEach /\ [WorkerNext]_workerVars
        => [\A u, v \in User : Before(jobs, u, v) => u \notin Queued(jobs') \/ Before(jobs', u, v)]_jobs
  <2> SUFFICES ASSUME WorkerInv, OneRequestEach, [WorkerNext]_workerVars, jobs' # jobs,
                      NEW u \in User, NEW v \in User, Before(jobs, u, v)
               PROVE  u \notin Queued(jobs') \/ Before(jobs', u, v)
    OBVIOUS
  <2>1. jobs \in Seq(User) /\ DOMAIN jobs = 1 .. Len(jobs) /\ Len(jobs) \in Nat
    BY DEF WorkerInv, WorkerTypeOK, TablesType
  <2>2. PICK i \in DOMAIN jobs, j \in DOMAIN jobs : i < j /\ jobs[i] = u /\ jobs[j] = v
    BY DEF Before
  <2>3. ASSUME NEW w \in User, jobs' = Enqueue(jobs, w) PROVE Before(jobs', u, v)
    <3>1. i \in DOMAIN jobs' /\ j \in DOMAIN jobs' /\ jobs'[i] = u /\ jobs'[j] = v
      BY <2>1, <2>2, <2>3, EnqueueKeepsPlaces
    <3> QED  BY <2>2, <3>1 DEF Before
  <2>4. CASE jobs # << >> /\ jobs' = Tail(jobs) /\ i = 1
    <3> SUFFICES ASSUME NEW k \in DOMAIN jobs', jobs'[k] = u PROVE FALSE
      BY DEF Queued
    <3>1. k \in 1 .. Len(jobs) - 1 /\ jobs[k + 1] = u
      BY <2>1, <2>4, TailDequeues
    <3>2. k + 1 \in DOMAIN jobs /\ k + 1 # 1
      BY <2>1, <3>1
    <3> QED  BY <2>2, <2>4, <3>1, <3>2 DEF OneRequestEach
  <2>5. CASE jobs # << >> /\ jobs' = Tail(jobs) /\ i # 1
    <3>1. i - 1 \in 1 .. Len(jobs) - 1 /\ j - 1 \in 1 .. Len(jobs) - 1 /\ i - 1 < j - 1
      <4>1. i \in 1 .. Len(jobs) /\ j \in 1 .. Len(jobs) /\ i < j /\ i # 1
        BY <2>1, <2>2, <2>5
      <4> QED  BY <2>1, <4>1
    <3>2. i - 1 \in DOMAIN jobs' /\ j - 1 \in DOMAIN jobs' /\ jobs'[i - 1] = u /\ jobs'[j - 1] = v
      <4>1. /\ DOMAIN jobs' = 1 .. Len(jobs) - 1
            /\ \A k \in DOMAIN jobs' : jobs'[k] = jobs[k + 1]
        BY <2>1, <2>5, TailDequeues
      <4>2. (i - 1) + 1 = i /\ (j - 1) + 1 = j
        BY <2>1
      <4> QED  BY <2>2, <3>1, <4>1, <4>2
    <3> QED  BY <3>1, <3>2 DEF Before
  <2> QED  BY <2>3, <2>4, <2>5, QueueSteps
<1> QED  BY <1>1, WorkerInvariant, OneRequestAlways, PTL DEF WorkerSpec, NoOvertaking

-----------------------------------------------------------------------------
(* The composition *)

\* The days of a history share out its segments, and so do its tracks.
THEOREM SameSegments ==
  ASSUME NEW h \in History
  PROVE  UNION {DayStat(h, d).km : d \in Day} = UNION {TrackSegments(track) : track \in build(h)}
<1> USE StoredType
<1> DEFINE seg(s, t) == <<s, h[s], t, h[t]>>
           Hop(s, t) == t \in Stored(h) /\ s \in Lag(Stored(h), t) /\ t - s <= TrackBreak
<1>1. \A d \in Day : DayStat(h, d).km
        = {seg(st[1], st[2]) : st \in Hops(Stored(h), PointsOn(h, d))}
  BY DEF DayStat, Segments
<1>2. \A x : x \in UNION {DayStat(h, d).km : d \in Day}
               <=> \E s \in Time, t \in Time : Hop(s, t) /\ x = seg(s, t)
  <2>1. ASSUME NEW d \in Day, NEW x \in DayStat(h, d).km
        PROVE  \E s \in Time, t \in Time : Hop(s, t) /\ x = seg(s, t)
    <3>1. PICK st \in Hops(Stored(h), PointsOn(h, d)) : x = seg(st[1], st[2])
      BY <1>1, <2>1
    <3>2. Hop(st[1], st[2]) /\ st[1] \in Time /\ st[2] \in Time
      BY DEF Hops, PointsOn
    <3> QED  BY <3>1, <3>2
  <2>2. ASSUME NEW s \in Time, NEW t \in Time, Hop(s, t)
        PROVE  \E d \in Day : seg(s, t) \in DayStat(h, d).km
    <3>1. Midnight[t] \in Day /\ t \in PointsOn(h, Midnight[t])
      BY <2>2 DEF Day, PointsOn
    <3>2. <<s, t>> \in Hops(Stored(h), PointsOn(h, Midnight[t]))
      BY <2>2, <3>1 DEF Hops, Lag
    <3>3. seg(s, t) \in DayStat(h, Midnight[t]).km
      BY <1>1, <3>1, <3>2
    <3> QED  BY <3>1, <3>3
  <2> HIDE DEF seg, Hop
  <2> QED  BY <2>1, <2>2
<1>3. \A x : x \in UNION {TrackSegments(track) : track \in build(h)}
               <=> \E s \in Time, t \in Time : Hop(s, t) /\ x = seg(s, t)
  <2>1. ASSUME NEW track \in build(h), NEW x \in TrackSegments(track)
        PROVE  \E s \in Time, t \in Time : Hop(s, t) /\ x = seg(s, t)
    <3>1. PICK a \in Starts(h) : track = [t \in RunFrom(h, a) |-> h[t]]
      BY DEF build
    <3>2. PICK s \in RunFrom(h, a), t \in RunFrom(h, a) :
            /\ s \in Lag(RunFrom(h, a), t)
            /\ x = <<s, track[s], t, track[t]>>
      BY <2>1, <3>1 DEF TrackSegments, Segments
    <3>3. s \in Lag(Stored(h), t)
      BY <3>2, LagOfRun
    <3>4. t - s <= TrackBreak
      BY <3>2, <3>3, LagInRun
    <3> QED  BY <3>1, <3>2, <3>3, <3>4
  <2>2. ASSUME NEW s \in Time, NEW t \in Time, Hop(s, t)
        PROVE  \E track \in build(h) : seg(s, t) \in TrackSegments(track)
    <3>1. PICK a \in Starts(h) : t \in RunFrom(h, a)
      BY <2>2, RunOfPoint
    <3>2. s \in Lag(RunFrom(h, a), t)
      BY <2>2, <3>1, LagInRun
    <3>3. s \in RunFrom(h, a) /\ s # t
      BY <2>2, <3>2 DEF Lag
    <3> DEFINE track == [r \in RunFrom(h, a) |-> h[r]]
    <3>4. track \in build(h)
      BY <3>1, <3>3 DEF build
    <3>5. DOMAIN track = RunFrom(h, a) /\ track[s] = h[s] /\ track[t] = h[t]
      BY <3>1, <3>3
    <3>6. <<s, track[s], t, track[t]>> \in TrackSegments(track)
      <4> HIDE DEF track
      <4>1. <<s, t>> \in {st \in (DOMAIN track) \X (DOMAIN track) : st[1] \in Lag(DOMAIN track, st[2])}
        BY <3>1, <3>2, <3>3, <3>5
      <4> QED  BY <4>1 DEF TrackSegments, Segments
    <3> QED  BY <3>4, <3>5, <3>6
  <2> HIDE DEF seg, Hop
  <2> QED  BY <2>1, <2>2
<1> HIDE DEF seg, Hop
<1> QED  BY <1>2, <1>3

-----------------------------------------------------------------------------

\* Seen from internal/ingest, the system does what Ingest says: the worker's
\* steps touch nothing of it but the queue, and that as Claim does.
THEOREM ImplementsIngest == Spec => IngestSpec
<1>1. Init => IngestInit
  BY DEF Init
<1>2. [Next]_vars => [IngestNext]_ingestVars
  <2> SUFFICES ASSUME [Next]_vars PROVE [IngestNext]_ingestVars
    OBVIOUS
  <2>1. CASE Request
    BY <2>1 DEF Request, IngestNext
  <2>2. CASE Worker
    BY <2>2 DEF Worker, ingestOwn, IngestNext, Claim, ingestVars, run, Start, ClaimAndRebuild,
       EndDrain, Tick, Stop
  <2>3. ASSUME NEW r \in Run, RunNext(r) PROVE [IngestNext]_ingestVars
    BY <2>3 DEF RunNext, BeginRun, RunStats, EndStats, BeginTracks, GiveUpTracks, RunTracks,
       ingestOwn, IngestNext, RunStep, ingestVars, ListTrackUsers, RebuildListed, EndTracks
  <2>4. CASE UNCHANGED vars
    BY <2>4 DEF vars, ingestOwn, ingestVars
  <2> QED  BY <2>1, <2>2, <2>3, <2>4 DEF Next
<1> QED  BY <1>1, <1>2, PTL DEF Spec, IngestSpec

\* Seen from internal/track, the system does what TrackWorker says: points only
\* ever change together with a request for their user's tracks.
THEOREM ImplementsTrackWorker == Spec => WorkerSpec
<1>1. Init => WorkerInit
  BY DEF Init
<1>2. IngestTypeOK /\ [Next]_vars => [WorkerNext]_workerVars
  <2> SUFFICES ASSUME IngestTypeOK, [Next]_vars PROVE [WorkerNext]_workerVars
    OBVIOUS
  <2>1. CASE Request
    <3>1. PICK u \in User :
            ingestLocations(u) \/ patchPoint(u) \/ deletePoint(u) \/ bulkDeletePoints(u)
      BY <2>1 DEF Request, ServerStep
    <3>2. PICK h \in History, touched \in SUBSET Time : Mutate(u, h, touched)
      BY <3>1, MutationIsMutate
    <3>3. Change(u, h)
      BY <2>1, <3>2 DEF Request, workerOwn, Mutate, Change, runs
    <3> QED  BY <3>3 DEF WorkerNext
  <2>2. CASE Worker
    BY <2>2 DEF Worker, WorkerNext
  <2>3. ASSUME NEW r \in Run, RunNext(r) PROVE [WorkerNext]_workerVars
    <3>1. CASE BeginTracks(r) \/ RunTracks(r)
      BY <3>1 DEF BeginTracks, RunTracks, WorkerNext
    <3>2. CASE BeginRun(r) \/ RunStats(r) \/ EndStats(r) \/ GiveUpTracks(r)
      BY <3>2 DEF BeginRun, RunStats, EndStats, GiveUpTracks, workerOwn, workerVars,
         DeleteAll, ListUsers, RecalculateUser, Finish, Interrupt, db
    <3> QED  BY <2>3, <3>1, <3>2 DEF RunNext
  <2>4. CASE UNCHANGED vars
    BY <2>4 DEF vars, workerOwn, workerVars
  <2> QED  BY <2>1, <2>2, <2>3, <2>4 DEF Next
<1> QED  BY <1>1, <1>2, ImplementsIngest, IngestTypeCorrect, PTL DEF Spec, WorkerSpec

\* The composition adds to the types of its parts how far each run is.
THEOREM TypeCorrect == Spec => []TypeOK
<1> DEFINE Progress == statsDone \in [Run -> BOOLEAN]
<1>1. Init => Progress
  BY DEF Init
<1>2. Progress /\ [Next]_vars => Progress'
  <2> SUFFICES ASSUME Progress, [Next]_vars PROVE Progress'
    OBVIOUS
  <2>1. ASSUME NEW r \in Run, RunNext(r) PROVE Progress'
    BY <2>1 DEF RunNext, BeginRun, RunStats, EndStats, BeginTracks, GiveUpTracks, RunTracks
  <2>2. CASE Request \/ Worker \/ UNCHANGED vars
    BY <2>2 DEF Request, Worker, vars
  <2> QED  BY <2>1, <2>2 DEF Next
<1>3. IngestTypeOK /\ WorkerTypeOK /\ Progress => TypeOK
  BY DEF TypeOK
<1> HIDE DEF Progress
<1> QED  BY <1>1, <1>2, <1>3, ImplementsIngest, ImplementsTrackWorker, IngestTypeCorrect,
            WorkerTypeCorrect, PTL DEF Spec

\* Statistics and tracks agree: a user's daily_stats rows count the segments of
\* the user's tracks, no more and no less, once neither is owed to the user.
THEOREM KmIsWithinTracks == Spec => []KmWithinTracks
<1>1. IngestInv /\ TracksCurrent => KmWithinTracks
  <2> SUFFICES ASSUME IngestInv, TracksCurrent, NEW u \in User, u \notin owed, u \notin Queued(jobs)
               PROVE  UNION {daily_stats[u][d].km : d \in Day}
                        = UNION {TrackSegments(track) : track \in tracks[u]}
    BY DEF KmWithinTracks
  <2>1. points[u] \in History /\ tracks[u] = build(points[u])
    BY DEF IngestInv, IngestTypeOK, TablesType, TracksCurrent
  <2>2. \A d \in Day : daily_stats[u][d] = DayStat(points[u], d)
    BY DEF IngestInv, RowsComplete
  <2> QED  BY <2>1, <2>2, SameSegments
<1> QED  BY <1>1, ImplementsIngest, ImplementsTrackWorker, IngestInvariant, TracksAlwaysCurrent, PTL

==============================================================================
