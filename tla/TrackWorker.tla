------------------------------ MODULE TrackWorker ------------------------------
(***************************************************************************)
(* internal/track: the only writer of tracks.  A worker inside the server  *)
(* drains the rebuild requests that every change to a user's points left   *)
(* in track_split_jobs, at its start and then at every tick.               *)
(* `travelmap recalculate`, another process, rebuilds every user directly. *)
(*                                                                         *)
(* A rebuild, with the claim of its request, is one transaction and so one *)
(* step; one that fails or is cut off leaves everything as it was.  The    *)
(* server may stop at any moment and start again; runs may end anywhere.   *)
(***************************************************************************)
EXTENDS Tracks, Tables

VARIABLES
  tracks,        \* tracks[u]: the rows of u
  worker,        \* RunWorker: "down", "draining", or "waiting" for a tick
  trackRun,      \* trackRun[r]: where RecalculateAll of run r is
  trackUserIDs   \* the users r has listed and not yet rebuilt

workerVars == <<points, jobs, tracks, worker, trackRun, trackUserIDs>>
runs == <<trackRun, trackUserIDs>>

WorkerTypeOK ==
  /\ TablesType
  /\ tracks \in [User -> SUBSET Track]
  /\ worker \in {"down", "draining", "waiting"}
  /\ trackRun \in [Run -> {"idle", "rebuilding"}]
  /\ trackUserIDs \in [Run -> SUBSET User]

WorkerInit ==
  /\ TablesInit
  /\ tracks = [u \in User |-> {}]
  /\ worker = "down"
  /\ trackRun = [r \in Run |-> "idle"]
  /\ trackUserIDs = [r \in Run |-> {}]

-----------------------------------------------------------------------------
(* The environment: internal/ingest changes a user's points, in whatever way, *)
(* and in the same transaction asks for a rebuild.                            *)

Change(u, h) ==
  /\ points' = [points EXCEPT ![u] = h]
  /\ jobs' = Enqueue(jobs, u)
  /\ UNCHANGED <<tracks, worker, runs>>

-----------------------------------------------------------------------------
(* The worker of the server *)

\* Mutant: the rows of every user are deleted.
ReplaceEvery(u, new) == tracks' = [v \in User |-> IF v = u THEN new ELSE {}]

\* Mutant: the old rows are not deleted.
ReplaceNone(u, new) == tracks' = [tracks EXCEPT ![u] = @ \cup new]

\* DELETE all rows of the user, then INSERT the new ones.
ReplaceAll(u, new) == tracks' = [tracks EXCEPT ![u] = new]

\* AllOrdered, build, ReplaceAll.
RebuildUser(u) == ReplaceAll(u, build(points[u]))

\* RunWorker catches up before it waits for the first tick.
Start ==
  /\ worker = "down"
  /\ worker' = "draining"
  /\ UNCHANGED <<points, jobs, tracks, runs>>

\* Mutant: the claim deletes every request.
ClaimEvery ==
  /\ worker = "draining"
  /\ jobs # << >>
  /\ jobs' = << >>
  /\ RebuildUser(Head(jobs))
  /\ UNCHANGED <<points, worker, runs>>

\* One round of drain: NextPending takes the oldest request off the table, the
\* rebuild joins its transaction, both commit.
ClaimAndRebuild ==
  /\ worker = "draining"
  /\ jobs # << >>
  /\ jobs' = Tail(jobs)
  /\ RebuildUser(Head(jobs))
  /\ UNCHANGED <<points, worker, runs>>

\* Nothing is left, or the transaction failed and rolled back: drain returns.
EndDrain ==
  /\ worker = "draining"
  /\ worker' = "waiting"
  /\ UNCHANGED <<points, jobs, tracks, runs>>

Tick ==
  /\ worker = "waiting"
  /\ worker' = "draining"
  /\ UNCHANGED <<points, jobs, tracks, runs>>

\* The server is stopped or dies; a transaction in flight rolls back.
Stop ==
  /\ worker # "down"
  /\ worker' = "down"
  /\ UNCHANGED <<points, jobs, tracks, runs>>

-----------------------------------------------------------------------------
(* travelmap recalculate: track.RecalculateAll *)

\* Points().UserIDs, read outside any transaction.
ListTrackUsers(r) ==
  /\ trackRun[r] = "idle"
  /\ trackRun' = [trackRun EXCEPT ![r] = "rebuilding"]
  /\ trackUserIDs' = [trackUserIDs EXCEPT ![r] = UserIDs]
  /\ UNCHANGED <<points, jobs, tracks, worker>>

\* One user's transaction.  A pending request of the user stays pending.
RebuildListed(r, u) ==
  /\ trackRun[r] = "rebuilding"
  /\ u \in trackUserIDs[r]
  /\ RebuildUser(u)
  /\ trackUserIDs' = [trackUserIDs EXCEPT ![r] = @ \ {u}]
  /\ UNCHANGED <<points, jobs, worker, trackRun>>

\* Every listed user is rebuilt, or the run fails or is killed before that.
EndTracks(r) ==
  /\ trackRun[r] = "rebuilding"
  /\ trackRun' = [trackRun EXCEPT ![r] = "idle"]
  /\ trackUserIDs' = [trackUserIDs EXCEPT ![r] = {}]
  /\ UNCHANGED <<points, jobs, tracks, worker>>

-----------------------------------------------------------------------------

WorkerNext ==
  \/ \E u \in User, h \in History : Change(u, h)
  \/ Start \/ ClaimAndRebuild \/ EndDrain \/ Tick \/ Stop
  \/ \E r \in Run : \/ ListTrackUsers(r)
                    \/ \E u \in User : RebuildListed(r, u)
                    \/ EndTracks(r)

WorkerSpec == WorkerInit /\ [][WorkerNext]_workerVars

\* A stopped server is started again and its ticker ticks.  Rebuilds may fail
\* and the server may stop again and again, but a rebuild that is attempted
\* infinitely often does not always fail.  Nothing makes points change.
WorkerFairSpec ==
  /\ WorkerSpec
  /\ WF_workerVars(Start) /\ WF_workerVars(Tick)
  /\ SF_workerVars(ClaimAndRebuild)

-----------------------------------------------------------------------------

\* The rows of tracks are what the user's points make of them, unless a request
\* to rebuild them is pending: neither a crash, a failed rebuild, a recalculation
\* nor a change that arrives while one is under way loses the request.
TracksCurrent ==
  \A u \in User : u \in Queued(jobs) \/ tracks[u] = build(points[u])

\* One request per user, and a claim frees the place.
OneRequestEach ==
  \A i, j \in DOMAIN jobs : jobs[i] = jobs[j] => i = j

\* "That range alone is enough to find them again": with nothing pending, a
\* track's range holds its own points, and no other's nor a lone one.
RangeFindsPoints ==
  \A u \in User \ Queued(jobs) : \A track \in tracks[u] :
    PointsOfTrack(points[u], track) = DOMAIN track

\* A user's tracks never overlap, not even while they are out of date: a rebuild
\* replaces all of them at once.
TracksApart ==
  \A u \in User : \A a, b \in tracks[u] :
    a = b \/ EndAt(a) < StartAt(b) \/ EndAt(b) < StartAt(a)

Before(queue, u, v) == \E i, j \in DOMAIN queue : i < j /\ queue[i] = u /\ queue[j] = v

\* The queue is first come, first served: whoever waits behind another stays
\* behind until the other is served, and a repeated request loses no place.
NoOvertaking ==
  [][\A u, v \in User : Before(jobs, u, v) => u \notin Queued(jobs') \/ Before(jobs', u, v)]_jobs

\* However often points keep changing, every request is served.
RequestsServed ==
  \A u \in User : u \in Queued(jobs) ~> u \notin Queued(jobs)

=============================================================================
