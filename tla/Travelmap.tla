------------------------------ MODULE Travelmap ------------------------------
(***************************************************************************)
(* The server, its track worker and `travelmap recalculate` on one         *)
(* database: Ingest and TrackWorker put together.  Each is the environment *)
(* of the other.  Ingest's changes of points are TrackWorker's Change, and *)
(* the worker's claim of a request is Ingest's Claim.  A run of            *)
(* recalculate goes through daily_stats first and through tracks next.     *)
(*                                                                         *)
(* IngestSpec and WorkerSpec are properties of this specification: neither *)
(* component meets a step of its environment it was not modelled, and      *)
(* proved, with.                                                           *)
(***************************************************************************)
EXTENDS Ingest, TrackWorker

VARIABLE
  statsDone      \* statsDone[r]: r is through daily_stats, tracks are next

ingestOwn == <<daily_stats, pc, userIDs, owed, lastDelete>>
workerOwn == <<tracks, worker, trackRun, trackUserIDs>>
vars == <<points, jobs, ingestOwn, workerOwn, statsDone>>

TypeOK == IngestTypeOK /\ WorkerTypeOK /\ statsDone \in [Run -> BOOLEAN]

Init == IngestInit /\ WorkerInit /\ statsDone = [r \in Run |-> FALSE]

-----------------------------------------------------------------------------

\* An HTTP request that changes points.
Request == ServerStep /\ UNCHANGED <<workerOwn, statsDone>>

Worker ==
  /\ Start \/ ClaimAndRebuild \/ EndDrain \/ Tick \/ Stop
  /\ UNCHANGED <<ingestOwn, statsDone>>

-----------------------------------------------------------------------------
(* cmd/travelmap/recalculate.go *)

\* ingest.Recalculate begins.  Run r is not already in its later half.
BeginRun(r) ==
  /\ ~ statsDone[r] /\ trackRun[r] = "idle"
  /\ DeleteAll(r)
  /\ UNCHANGED <<workerOwn, statsDone>>

RunStats(r) ==
  /\ ListUsers(r) \/ (\E u \in User : RecalculateUser(r, u)) \/ Interrupt(r)
  /\ UNCHANGED <<workerOwn, statsDone>>

\* Only a Recalculate that returned no error is followed by RecalculateAll.
EndStats(r) ==
  /\ Finish(r)
  /\ statsDone' = [statsDone EXCEPT ![r] = TRUE]
  /\ UNCHANGED workerOwn

BeginTracks(r) ==
  /\ statsDone[r]
  /\ ListTrackUsers(r)
  /\ statsDone' = [statsDone EXCEPT ![r] = FALSE]
  /\ UNCHANGED ingestOwn

\* Listing the users again fails, or the process is killed before it.
GiveUpTracks(r) ==
  /\ statsDone[r]
  /\ statsDone' = [statsDone EXCEPT ![r] = FALSE]
  /\ UNCHANGED <<points, jobs, ingestOwn, workerOwn>>

RunTracks(r) ==
  /\ (\E u \in User : RebuildListed(r, u)) \/ EndTracks(r)
  /\ UNCHANGED <<ingestOwn, statsDone>>

-----------------------------------------------------------------------------

RunNext(r) ==
  BeginRun(r) \/ RunStats(r) \/ EndStats(r) \/ BeginTracks(r) \/ GiveUpTracks(r) \/ RunTracks(r)

Next == Request \/ Worker \/ \E r \in Run : RunNext(r)

Spec == Init /\ [][Next]_vars

-----------------------------------------------------------------------------

\* "km means distance travelled within tracks": the segments of a user's
\* daily_stats rows are those of the user's tracks, once no recalculation owes
\* the user a row and no request for the tracks is pending.  Two programs, one
\* in SQL and one in Go, split the same history independently.
KmWithinTracks ==
  \A u \in User \ (owed \cup Queued(jobs)) :
    UNION {daily_stats[u][d].km : d \in Day} = UNION {TrackSegments(track) : track \in tracks[u]}

=============================================================================
