-------------------------------- MODULE Ingest --------------------------------
(***************************************************************************)
(* internal/ingest: the only writer of points, and through it of           *)
(* daily_stats and of the track rebuild requests (track_split_jobs).       *)
(*                                                                         *)
(* The server's four mutations each run in one transaction, so each is one *)
(* step.  `travelmap recalculate` is another process and deliberately not  *)
(* one transaction: it empties daily_stats, lists the users, then rebuilds *)
(* them one transaction each, and the server keeps writing in between.  A  *)
(* run may end early anywhere: a signal, or a transaction that failed.     *)
(* Several runs may overlap.                                               *)
(*                                                                         *)
(* A mutation or a run's transaction that fails leaves the database as it  *)
(* was (Store.Tx rolls back).                                              *)
(***************************************************************************)
EXTENDS DailyStats, Tables

CONSTANT NoRun   \* no run

ASSUME RunAssumption == NoRun \notin Run

VARIABLES
  daily_stats,   \* daily_stats[u][d]: the row for user u and day d, or NoRow
  pc,            \* pc[r]: where run r is
  userIDs,       \* userIDs[r]: the users r has listed and not yet rebuilt
  owed,          \* history: users whose rows a DeleteAll removed and no run
                 \* has put back since
  lastDelete     \* history: the run whose DeleteAll was the last, or NoRun

db  == <<points, daily_stats, jobs>>
run == <<pc, userIDs, owed, lastDelete>>
ingestVars == <<points, daily_stats, jobs, pc, userIDs, owed, lastDelete>>

IngestTypeOK ==
  /\ TablesType
  /\ daily_stats \in [User -> [Day -> Row]]
  /\ pc \in [Run -> {"idle", "listing", "rebuilding", "interrupted"}]
  /\ userIDs \in [Run -> SUBSET User]
  /\ owed \in SUBSET User
  /\ lastDelete \in Run \cup {NoRun}

IngestInit ==
  /\ TablesInit
  /\ daily_stats = [u \in User |-> [d \in Day |-> NoRow]]
  /\ pc = [r \in Run |-> "idle"]
  /\ userIDs = [r \in Run |-> {}]
  /\ owed = {}
  /\ lastDelete = NoRun

-----------------------------------------------------------------------------
(* The server: mutations of the authenticated user's points *)

\* rebuildAffectedDays on the rows of one user whose history is now h.
rebuildAffectedDays(rows, h, touched) ==
  [d \in Day |-> IF d \in affectedDays(h, touched) THEN Rebuild(h, d) ELSE rows[d]]

\* Mutant: the request to rebuild the tracks is forgotten.
MutateOnly(u, h, touched) ==
  /\ touched # {}
  /\ points' = [points EXCEPT ![u] = h]
  /\ daily_stats' =
       [daily_stats EXCEPT ![u] = rebuildAffectedDays(daily_stats[u], h, touched)]
  /\ UNCHANGED <<jobs, run>>

\* The half every mutation shares: the history of u becomes h, and what was
\* touched decides which days are rebuilt and that u's tracks are due.
Mutate(u, h, touched) ==
  /\ touched # {}
  /\ points' = [points EXCEPT ![u] = h]
  /\ daily_stats' =
       [daily_stats EXCEPT ![u] = rebuildAffectedDays(daily_stats[u], h, touched)]
  /\ jobs' = Enqueue(jobs, u)
  /\ UNCHANGED run

\* ON CONFLICT (user_id, timestamp) DO NOTHING: a stored point keeps its place.
Inserted(h, batch) ==
  [t \in Time |-> IF h[t] = NoPos /\ t \in DOMAIN batch THEN batch[t] ELSE h[t]]

\* A batch maps the timestamps of a request to positions; of two points of one
\* request that share a timestamp the first wins, like a stored one.
CreatePoints(u, batch) == Mutate(u, Inserted(points[u], batch), DOMAIN batch)

\* Coordinates only; PATCH never moves a point in time.
Moved(h, t, pos) == [h EXCEPT ![t] = pos]

UpdatePoint(u, t, pos) ==
  /\ t \in Stored(points[u])
  /\ Mutate(u, Moved(points[u], t, pos), {t})

Removed(h, times) == [t \in Time |-> IF t \in times THEN NoPos ELSE h[t]]

DeletePoint(u, t) ==
  /\ t \in Stored(points[u])
  /\ Mutate(u, Removed(points[u], {t}), {t})

\* ids holds what the client asked for.  An id that is gone, or someone else's,
\* is skipped; with none left nothing is touched and nothing changes.
DeletePoints(u, ids) ==
  LET deleted == ids \cap Stored(points[u])
  IN  Mutate(u, Removed(points[u], deleted), deleted)

-----------------------------------------------------------------------------
(* travelmap recalculate: ingest.Recalculate *)

\* The first transaction.  A run that was interrupted is started again.
DeleteAll(r) ==
  /\ pc[r] \in {"idle", "interrupted"}
  /\ daily_stats' = [u \in User |-> [d \in Day |-> NoRow]]
  /\ pc' = [pc EXCEPT ![r] = "listing"]
  /\ userIDs' = [userIDs EXCEPT ![r] = {}]
  /\ owed' = User
  /\ lastDelete' = r
  /\ UNCHANGED <<points, jobs>>

\* Points().UserIDs, read outside any transaction: who has points right now.
ListUsers(r) ==
  /\ pc[r] = "listing"
  /\ pc' = [pc EXCEPT ![r] = "rebuilding"]
  /\ userIDs' = [userIDs EXCEPT ![r] = UserIDs]
  /\ owed' = owed \cap UserIDs
  /\ UNCHANGED <<db, lastDelete>>

\* Mutant: the user's first day is skipped.
recalculateLaterDays(rows, h) ==
  [d \in Day |-> IF \E s, t \in Stored(h) : Midnight[t] = d /\ Midnight[s] < d
                  THEN Rebuild(h, d) ELSE rows[d]]

\* recalculateUser: a day none of the user's points is on keeps what it has.
recalculateUser(rows, h) ==
  [d \in Day |-> IF \E t \in Stored(h) : Midnight[t] = d THEN Rebuild(h, d) ELSE rows[d]]

\* One user's transaction, in ascending id order; which order is nothing a
\* row depends on, so any listed user may be next.
RecalculateUser(r, u) ==
  /\ pc[r] = "rebuilding"
  /\ u \in userIDs[r]
  /\ daily_stats' = [daily_stats EXCEPT ![u] = recalculateUser(daily_stats[u], points[u])]
  /\ userIDs' = [userIDs EXCEPT ![r] = @ \ {u}]
  /\ owed' = owed \ {u}
  /\ UNCHANGED <<points, jobs, pc, lastDelete>>

Finish(r) ==
  /\ pc[r] = "rebuilding"
  /\ userIDs[r] = {}
  /\ pc' = [pc EXCEPT ![r] = "idle"]
  /\ UNCHANGED <<db, userIDs, owed, lastDelete>>

\* Mutant: the error is dropped, the run counts as finished.
InterruptUnnoticed(r) ==
  /\ pc[r] \in {"listing", "rebuilding"}
  /\ pc' = [pc EXCEPT ![r] = "idle"]
  /\ userIDs' = [userIDs EXCEPT ![r] = {}]
  /\ UNCHANGED <<db, owed, lastDelete>>

\* The process is killed, or a transaction of it fails: what it committed stays.
Interrupt(r) ==
  /\ pc[r] \in {"listing", "rebuilding"}
  /\ pc' = [pc EXCEPT ![r] = "interrupted"]
  /\ userIDs' = [userIDs EXCEPT ![r] = {}]
  /\ UNCHANGED <<db, owed, lastDelete>>

-----------------------------------------------------------------------------
(* The environment of this package *)

\* The track worker claims the oldest request.  Module TrackWorker has the rest.
Claim ==
  /\ jobs # << >>
  /\ jobs' = Tail(jobs)
  /\ UNCHANGED <<points, daily_stats, run>>

-----------------------------------------------------------------------------

(* internal/httpapi/points.go: the requests of an authenticated user.  A       *)
(* refused one changes nothing.                                                *)

\* What parseLocations leaves of a body: Features whose coordinates or timestamp
\* cannot be read are gone, possibly all of them.
Batch == UNION {[times -> Pos] : times \in SUBSET Time}

ingestLocations(u) == \E batch \in Batch : CreatePoints(u, batch)

patchPoint(u) == \E t \in Time, pos \in Pos : UpdatePoint(u, t, pos)

deletePoint(u) == \E t \in Time : DeletePoint(u, t)

\* 422 if no id is selected.
bulkDeletePoints(u) == \E ids \in SUBSET Time : ids # {} /\ DeletePoints(u, ids)

ServerStep ==
  \E u \in User :
    ingestLocations(u) \/ patchPoint(u) \/ deletePoint(u) \/ bulkDeletePoints(u)

RunStep(r) ==
  \/ ListUsers(r)
  \/ \E u \in User : RecalculateUser(r, u)
  \/ Finish(r)

IngestNext ==
  \/ ServerStep
  \/ Claim
  \/ \E r \in Run : DeleteAll(r) \/ RunStep(r) \/ Interrupt(r)

IngestSpec == IngestInit /\ [][IngestNext]_ingestVars

-----------------------------------------------------------------------------
(* What the README calls a daily_stats row: the day's own points, and the     *)
(* distance travelled to them.                                                *)

\* No row is ever stale or half right: at every moment, also between two
\* transactions of a recalculation and while several overlap, a row that
\* exists is what the user's current points make of that day.
RowsSound ==
  \A u \in User, d \in Day : daily_stats[u][d] \in {NoRow, DayStat(points[u], d)}

\* A row is missing only for a user a recalculation still owes.  In particular
\* a point that arrives while one is running, also from a user with none when
\* the users were listed, loses no day.
RowsComplete ==
  \A u \in User \ owed : \A d \in Day : daily_stats[u][d] = DayStat(points[u], d)

\* Users the last run to empty the table has not come to.
Outstanding(r) ==
  CASE pc[r] = "listing"    -> User
    [] pc[r] = "rebuilding" -> userIDs[r]
    [] OTHER                -> {}

\* Re-running is the recovery: however earlier and concurrent runs ended, once
\* the run that emptied daily_stats last is through, no user is owed anything.
RerunRecovers ==
  \/ lastDelete = NoRun /\ owed = {}
  \/ /\ lastDelete # NoRun
     /\ pc[lastDelete] # "interrupted" => owed \subseteq Outstanding(lastDelete)

=============================================================================
