# travelmap in TLA+

A specification of [travelmap](../src/README.md), the single-binary, Dawarich-compatible
location server: what its database tables promise each other, and why they keep
the promise while requests, background workers and command line runs interleave,
fail, stop and start again. TLC checks small instances; TLAPS proves all
safety properties and refinements for every value of the constants.

## The system

travelmap is one Go program over one SQLite file. `travelmap serve` answers HTTP
and runs three background goroutines: the track worker, the periodic Foursquare sync and the
session sweep. `travelmap recalculate` and `travelmap foursquare sync` are other processes
that write to the same file while the server does. SQLite lets one writer in at a time; a
`Store.Tx` takes the write lock at its start, so a transaction is one atomic step here,
and everything the code leaves outside one is a step of its own.

| Part | State | Operations | Hard because | Correct when |
|---|---|---|---|---|
| Points (`internal/ingest`, `store/sqlite/points.go`) | `points` | create a batch, update, delete one or many | a change on one day alters the distance of the next day that has points, however far away | every derived table follows in the same transaction |
| `daily_stats` (`dailystats.go`, `ingest/rebuild.go`) | one row a user and day | `Rebuild` of one day, `DeleteAll` | it is computed over a window of the history, by a SQL query | no row is stale, none is missing |
| `travelmap recalculate` | where a run is, the users it listed | empty, list, one transaction a user; then the tracks | not one transaction; the server writes meanwhile; a run may die; two may overlap | nobody is left without rows, re-running recovers |
| Calendar days (`localMidnight`, `AddDate`, `Format`) | none | cut the time line | offsets change; midnight may be skipped or come twice | days partition the time line |
| Track splitting (`track/build.go`) | `tracks` | one ordered walk | boundary of the break, the run still open at the end | the tracks are the longest runs |
| Track worker and queue (`track/worker.go`, `tracks.go`) | `track_split_jobs` | enqueue, claim, rebuild, tick | a request must survive failure and crash; coalescing; starvation | tracks are current or a request is pending; every request is served |
| Check-ins (`internal/checkin`, `foursquare/client.go`) | `checkins` | push, fetch page by page | two paths and several runs write the same rows; a page is written after it was read; the list moves under the walk; accounts change | a walk covers its window; a row belongs to whom it should |
| Foursquare accounts (`foursquareaccounts.go`, `httpapi/foursquare.go`, `oauthstate.go`) | `foursquare_accounts`, pending OAuth states in memory | start a link, come back from it, unlink, `synced_through` | a run works from accounts it listed earlier; the callback takes five steps, and who is signed in may change at each; states are lost at a restart | an account is linked to whoever asked for it, once per state; `synced_through` speaks of the account in the row |
| Settings (`httpapi/settings.go`) | one `settings` row a user | two PATCH routes | read, overlay, write back without a transaction | a PATCH changes what it carries |
| Sessions (`session.go`, `sessions.go`, `sweep.go`, `server.go`) | `sessions`, the cookie in the browser, what a request has loaded | load, renew and commit, destroy, sweep; start, shut down | requests of one browser carry the same cookie at once; a renewal is two statements and a response that may be lost | a token is good for who signed in, for one lifetime, and stays ended |
| Accounts, authentication (`internal/auth`) | `users` | register, log in, API keys | two credentials in one request | a request is served as whom it proves to be |
| Statistics, point and track endpoints | none | read | totals are sums of another table's rows; pages are cut out of a list that changes, and counted in a statement of their own | the figures add up to the points; a client that reads on misses none that was there throughout, but for what it cannot know of |
| Trips (`internal/timeline`) | `trips` | single statements | no caller yet | - |
| Configuration (`internal/config`) | the file, what each process read of it | read at start | the setting changes while the old server runs on | a recalculation makes the derived tables follow it |
| Migrations | schema version | at start | - | - |
| HTTP plumbing, React front end | the signed-in flag | routing, forms | - | - |

`PROJECT.json` lists the parts with their sources, the code's hazards line by line, and the
lines behind each definition.

**Interactions.** `ingest` is the only writer of `points`; in the same transaction it rebuilds
the affected `daily_stats` rows and enqueues a rebuild of the user's tracks. The track worker
claims the request and rebuilds in one transaction. `recalculate` rewrites both tables. The
webhook and the sync share one upsert on `checkins` and read `foursquare_accounts`, which the
settings page changes. Check-ins and settings share nothing with points and tracks (the `track_break`
of a user's settings is the phone's; tracks are split at the configured one). The callback of a link
runs under a session and ends in `foursquare_accounts`.

## Modules

```
Points ── DailyStats ── Ingest ─────────┬── Reading, Paging
   │                      │             ├── Travelmap
   └──── Tracks ──────────│─ TrackWorker┘
           └─ TrackBuild  └─ Tables ─┘             DayCut
Accounts ─┬─ CheckinSync                           Settings
          └─ AccountLink          SessionLife ◁── Sessions
```

| Module | Models | How it corresponds |
|---|---|---|
| `Points` | a user's rows of `points` | a history: timestamp to position. `Lag` is SQL's `LAG` and the walk's `prev`; `NextTimestamp` the store's |
| `DailyStats` | `Rebuild`, `affectedDays` | operators on one history. A row is kept as the *set* of points counted and segments summed, finer than the count and the kilometres, so no cancellation can hide an error. `DayStat` says what a row ought to be, without window or candidates |
| `Users` | the ids of `users` | the constant the tables of a user share |
| `Tables` | `points`, `track_split_jobs` | the queue is a sequence of users in `id` order; `Enqueue` of a queued user keeps its place, since `ON CONFLICT DO UPDATE` sets `requested_at` and never the `id` |
| `Ingest` | `internal/ingest`, the handlers that call it, and the first half of `recalculate` | `ingestLocations`, `patchPoint`, `deletePoint`, `bulkDeletePoints` are the handlers, one transaction each; `DeleteAll`, `ListUsers`, `RecalculateUser`, `Finish`, `Interrupt` are the transactions and reads of a run |
| `Reading` | `stats.go`, tracked months | operators on the state of `Ingest`: each endpoint reads the rows in one statement. A sum of km is the bag of the segments added |
| `Paging` | `Points().List`, `listPoints`, and a client that reads to the last page | `Count` and `List` are the two statements of a request, with steps of `Ingest` (`Meanwhile`) in between; `Probe` is a `HEAD` the client may send first, `AskAgain` a request that failed. The client (external) goes by `X-Total-Pages`, in either order, with an `end_at` of its own or the time of each request |
| `Tracks` | what tracks are | `build` as a definition: a run begins where the gap exceeds the break |
| `TrackBuild` | `build` of `track/build.go` | `Walk` is one round of the loop, `Return` the flush after it |
| `TrackWorker` | worker, queue, second half of `recalculate` | `ClaimAndRebuild` is one round of `drain`; `EndDrain` its return, empty or failed; `Stop` a crash or a signal |
| `Travelmap` | `serve` and `recalculate` on one file | each component is the other's environment; `statsDone` is the point of `recalculate` between the two passes |
| `DayCut` | the arithmetic of days, and the setting `tracking.timezone` | `DateTime` is Go's `time.Date` with its guess of the offset; `Date`, `Clock`, `Offset` are `time.Time` (external). `timezone` is the file, `zone` what the server read at its start, `run` what a recalculation read at its own: `Configure`, `Restart`, `DeleteAll` |
| `Accounts` | `foursquare_accounts` | a row is the Swarm account and `synced_through`; the access token is the Swarm account it was issued to |
| `CheckinSync` | `internal/checkin`, `EachCheckinPage`, webhook | a run goes account by account (`StartWalk`), page by page (`FetchPage`, `PageWritten`), row by row (`WriteFetched`); a push is `Resolve` then `StorePush`, two statements. `Server` and `Command` run the same walk: the worker lists the accounts at a tick (`Begin`), the command when it is run (`foursquareSync`). The list at Foursquare, its edits (`Edited`) and the clock are external |
| `AccountLink` | `oauthstate.go`, start, callback and disconnect | `New` prunes and issues; the callback is `Return` (its session is loaded), `foursquareOAuthCallback` (the state is consumed and the user compared), `Identify` (the two requests to Foursquare), `CreateAccount`; any of them may fail (`Abandon`) or be cut short (`Restart`). Sessions are a variable that changes at any time |
| `SessionLife` | what a session promises | abstract: `SignIn`, `End`, `Pass` on tokens that are unused, good or ended |
| `Sessions` | middleware, sign-up, sign-in, sign-out, sweep, start and shutdown | a request loads its row (`loadSessionUser`, `authenticate`), is verified (`createSession`, `createUser`), renews its token (`startSession`), writes the row (`Commit`), and reaches the browser (`Receive`) or does not (`Finish`). `scs` is external |
| `Settings` | both PATCH routes, `Register` | `Get` and `Update` are the two statements of a request; `Scaled` is the division of `route_opacity` by 100 |

`MC*` modules give the constants values for TLC; `*Proofs` hold the theorems. Operators marked
"Mutant" are bugs the code could have; no specification uses them, and each shows that some
property would notice.

Abstractions: a position, a payload or a setting is a model value; kilometres are sets of segments;
an error message, a log line, JSON and HTML are left out. A transaction that fails changes nothing
and is a stutter, except where the caller goes on differently (`Interrupt`, `EndDrain`, `Fail`).

## Runs

A pass run explores every reachable state of its instance.

| Run | Instance | Shows |
|---|---|---|
| `ingest` | 2 users, 3 timestamps on 2 days with an empty day between, in 2 months, 2 runs | `RowsSound`, `RowsComplete`, `RerunRecovers`: no row is stale or missing at any moment of two interruptible, overlapping recalculations; `StatsTrue`: what clients are shown adds up to the points. `PagesSkipNoPoint`, for the range of all timestamps and for the open one (which reaches from the first to the time of each request), both orders, and pages of 2, of 1 too for the range of all without a `HEAD`: points come and go between any two statements; of those there throughout, and not moved past the client by a deletion, one at most is missed for each that came after the `COUNT` the client goes by, and none if the last page was not full |
| `track_build` | all histories of 7 timestamps and 2 positions | `BuildsTracks`, `FlushedStay` |
| `track_worker` | 2 users, 3 timestamps, 1 run | `TracksCurrent`, `RangeFindsPoints`, `TracksApart`, `NoOvertaking`, `RequestsServed` |
| `travelmap` | 2 users, 2 timestamps, 1 run | the composition implements `IngestSpec` and `WorkerSpec`; `KmWithinTracks`: SQL and Go split a history alike |
| `day_cut` | 13 timezones, days of 6 hours, 2 points at once, a setting changed to one timezone whose days are cut elsewhere | `DaysPartition`; `RowsByDate`: after a recalculation rows are of the new setting, until the old server writes again. All 13 keep their midnights (`KeepsMidnight`) |
| `checkin_walk` | 4 check-ins, pages of 2, 1 run of the command, windows of all and of 3 | `WalkCovers`: a walk stores its window though the list moves; a check-in that is removed costs it at most one other |
| `checkin_races` | 2 users, 2 Swarm accounts, 1 check-in, 1 push, the server's sync | `Attributed`; `Collected`, also where the other account fails for ever |
| `sessions` | 2 users, 1 browser, 2 requests at once, 2 tokens, a lifetime of 1 and a clock to 2 | `ReplacedAreGone`, `SessionOfSignedIn`, `OnlyHolderEnds`; `SessionsKeepPromise`: `Sessions` implements `SessionLife`; `Swept` |
| `account_link` | 2 users of 1 browser, 2 Swarm accounts, 2 states, 2 callbacks, a clock to 1 | `LinkedAsStarted`, `OneLinkPerState`, `AbandonedStatesGo`; `FirstLinkStands`: of callbacks that race for one Swarm account or one user, the first to store wins and is not replaced. 1 user's settings of 3 fields and 3 values, 2 requests at once: `RefusedForItsOwn`: a request is refused only for what it carries, whatever row it read and however long ago |

Three more runs expect a counterexample; they are under *Findings*.

**Bounds, and why they are enough.** In the core runs the data are finite by nature: `Time` and `Pos` are
the only sources of states, and nothing is cut off but as said below for `ingest`. Timestamps are chosen so that gaps below, at and above
the track break occur, within a day and across a midnight, and so that deleting one point
turns a short gap into a long one. A row depends on its day's points and on one point before,
a track on neighbours, so three timestamps, two of them on one day and the third behind an empty one, hold
the relation that matters, and `track_build` takes seven. Two users tell one user's rows from another's and make
a queue in which one can be starved. Two runs give every way runs overlap that `lastDelete` and `owed`
distinguish; the proofs do away with the bound. In `Paging`, three points
are two pages of two or three of one, and so give a last page that is full and one that is not; a request
reads the rows of one user and a recalculation changes no points, so `ingest` explores the client while only its user has points and
no recalculation was begun, and recalculations while no client reads (`OneAtATime`). The queue of rebuild requests is
read by no property of that run but the type invariant, so it is cut short: no more than one is queued beside the recalculations, none is claimed while
the client reads points that are stored. A narrower range selects what fewer points would, and the theorem about the pages is about every range. `AccountLink` and `Settings` share no
state; `account_link` explores each while nothing happens to the other. `DayCut` keeps `MaxStored` points, two: a row
is a filter of points, and a write rebuilds the day of one point and of its next neighbour. `NewZone` is one timezone, reached from every other. Its timezones are one or
two hours from UTC with one change of one hour at or near a midnight, both sides of UTC: `time.Date`
compares signs and sides only. In `CheckinSync`, `Edited` (the check-ins that come and go at Foursquare), `MaxEdits`, `MaxClock` and the set of check-ins
are bounds; two full pages are the least in which a boundary can be stepped over, and a clock
that may tick once gives two windows, one of which ends inside a page. One lookback stands for all runs, although
`--lookback-days` lets a manual run have its own. In `Sessions`, `Token`, `Request` and `MaxClock` are bounds: two tokens are one
sign-in that replaces another, two requests the least that can race, and a clock of two seconds
passes the end of both a session taken at once and one taken later; several browsers do not meet
but in the sweep, and the theorems hold for any number. In `AccountLink`, `State`, `Callback`
and `MaxClock` are: two states so that one flow can be finished with the other under way, and a `StateLifetime` of zero so that
every state expires at the one tick.

`CHECK_DEADLOCK FALSE` appears once, for `TrackBuild`: the walk returns.

**Symmetry** is used in `ingest`, `travelmap` and `account_link`, which check no liveness; `OneAtATime` tells no user or run from another.

## Fairness

Clients, the clock and people at the settings page owe nothing. Assumed is:

- `WF(Start)`, `WF(Tick)` (`TrackWorker`): a stopped server is started again some day; a
  ticker ticks. `SF(ClaimAndRebuild)`: a rebuild tried infinitely often does not fail for ever.
  `drain` stops at a failure and the failed request stays first, so a user whose rebuild *always* fails
  blocks everybody behind; strong fairness is exactly the assumption that there is none.
- `WF(Sweep)` (`Sessions`): the sweep's ticker ticks while the server serves. No request need ever be finished; that the
  server stays up is the premise of `Swept`.
- `WF(SyncStep(s))` (`CheckinSync`): a ticker ticks and a run under way goes on; nobody has to run the command. That the server stays
  up and the account's own requests stop failing is the premise of `Collected`, stated in the property, not
  assumed of the system.

## Proofs

tlapm checks all of it; nothing is assumed but the named assumptions on constants, and in two theorems on days
`KeepsMidnight` of the timezones.

- Assumptions: `TimeAssumption`, `BoundsAssumption`, `PosAssumption`, `BreakAssumption` (timestamps are
  integers between the bounds of a column, no position is the mark of an absent point), `ZoneAssumption`
  (calendar days partition the time line), `MonthAssumption` (a day is in one month),
  `PageSizeAssumption` (`positiveInt` lets no other size through), `LifetimeAssumption`, `RowAssumption` (`Sessions`), `CheckinAssumption`, `DayLengthAssumption`,
  `InstantAssumption`, `ZonesAssumption` (`DayCut` counts in integers), `InRangeAssumption`, `ScaledAssumption`, `FieldAssumption` and
  `DefaultAssumption` (the fields of the two settings routes are apart, the defaults are in range). The others
  (`RunAssumption`, `NoTimeAssumption`, `NoneAssumption`, `EntryAssumption`, `UnlinkedAssumption` and the like) only say that marks are not values.
- `HistoryProofs`, first `Points`: every nonempty set of timestamps has a greatest and a least element between the bounds
  (well-foundedness of the naturals), and so a predecessor and successor exist. Then `Tracks`: runs are apart and each
  is an interval of the history, so `RangeIsTrack` (a range holds its own points only) and `TracksDoNotOverlap`. Then
  `TrackBuild`, with the loop invariant `BuildInv`: what is flushed are the complete runs before
  the current one, and the current one is a run from its start to `prev`.
- `IngestProofs`, its first part on `DailyStats`: `RebuildExact`, the window query equals `DayStat`: the point before the window is
  all that matters of the past. `UnaffectedDay`: a day `affectedDays` does not name has the same row before and
  after; if its first point's predecessor was touched, it is the next point after a latest touch.
  The second part: the inductive invariant `IngestInv` is `IngestTypeOK`, `RowsSound`,
  `RowsComplete` and `RerunRecovers` together: `RowsComplete` needs `RowsSound`, since a user without points is no
  longer owed anything although nobody rebuilt them, and a day a run skips keeps its row. Mutations keep rows exact by the two theorems above; a run keeps them because it
  rebuilds from the points of its transaction, not of its listing. The third, on `Reading`: `StatsAlwaysTrue` follows from
  the rows being exact, since days partition the points and a segment ends in one day. The fourth, on `Paging`: `PagingInv` says that what
  was promised and is not yet read has a place in the list not before the offset asked for next (`NothingPassed`). An insertion only moves a point to a later
  place, and a deletion takes back what it moves past the client; a page sends the places from its offset on. What is left when the client stops lies
  beyond the last page, and since the pages up to there hold as many places as the `COUNT` had rows (`LastPage`), the rows
  beyond are no more than those the `COUNT` did not see (`ListPreserves`); where there are any, the page was full.
- `DayCutProofs`: `MidnightSplits` is the fact on `time.Date`: by cases on where the change is shown, the midnight it finds for a
  date splits the time line as the wall clock does. It needs `KeepsMidnight`: no midnight is skipped, and one that comes twice is west
  of UTC and the first reading repeated, where the guess of `time.Date` takes the earlier. From it `KeptMidnightsPartition`, and
  `ZoneAssumptionHolds`: the assumption of `DailyStats`, word for word, of Go's arithmetic. `RowsInv` strengthens `RowsByDate`: also
  while a recalculation is cut off or has not come to an end, rows written in one timezone only hold points of their own date, and
  `written` is what a run under way will have written. `RowsOfKeptByDate` assumes nothing of timezones: those that keep
  midnights get their rows right whatever the setting was before. `DaysAlwaysPartition` and `RowsAlwaysByDate` are of systems
  whose timezones all do.
- `TravelmapProofs`, first `TrackWorker`: `WorkerInv` is the type, `TracksCurrent`, and that the stored tracks of a user are those of *some*
  one history, which is what keeps out-of-date tracks from overlapping. `NoOvertaking` is proved
  with that a user is queued once. Then the composition: step by step, a step of it is a step or a stutter of each component,
  so their theorems hold of it. `KmWithinTracks` follows from `SameSegments`, the equality of what the
  SQL and the Go split of one history sum.
- `CheckinSyncProofs`: `AlwaysAttributed` by `AttributedInv`: every place a user id is carried from
  one statement to the next (the accounts a run listed, the walk, its page, a resolved push) holds a link that was
  once made, which is what makes stale lists harmless to attribution. `WalkAlwaysCovers` by `CoverInv`: whatever a walk
  promised to store and has not stored is on its page or at a rank not less than the offset it asks for next. The rank of a check-in is the number listed before
  it; arrivals only raise it, and a removal lowers those behind by one (`RankRemoved`), which only the check-in that was next cannot
  afford (`RemovalCovers`). A page holds the ranks from its offset on, and one that is short, or ends before the window does, leaves
  none of the window behind it (`PageFull`, `WalkGoesOn`).
- `SessionsProofs`: `SessionsInv` follows a token from the request that mints it to its row. Until that request commits,
  the token has no row (`Minting`) and no other request has minted it (`MintedApart`); a request not yet answered carries
  a token that had a row, or none (`Carries`), and what it replaced had one and has none (`Replaced`). So a token gets its row once,
  and one that was deleted is never written again, which is what the safety properties and the refinement need. `KeepsPromise`
  maps `Commit` to a sign-in, `Tick` to the passing of time, a deleted row that was still good to an end,
  and everything else, the sweep among it, to a stutter.
- `AccountLinkProofs`: `LinkInv` follows a state the same way. In memory it is that of its flow (`Minted`); a callback let through
  the check is of the flow's user and was in time (`Held`); a state that was consumed is out of memory and in the
  hands of one callback, one that made a link in nobody's (`Spent`). `FirstLinkAlwaysStands` adds that no two users have one Swarm account (`OneOwner`), which
  the two conflicts of `Create` keep.
- `SettingsProofs`: `SettingsInv`: every stored row is in range, and so is what a request under way has read. That is why a request that
  is refused is refused for a field it carries, although the whole row is validated and the web route validates nothing.

The type of each module is proved too: alone (`TypeCorrect` and the like) or as a part of its invariant.

**Only model-checked**: liveness (`RequestsServed`, `Collected`, `Swept`), which is out of the prover's reach; and that a
timezone that does not keep its midnights gets rows wrong, which `day_cut_gap` shows (each of its three timezones fails alone).

## Findings

Three runs refute a sentence of the repository; `PROJECT.json` quotes each.

- `day_cut_gap`: where the clock skips 00:00 west of UTC (Santiago), local midnight comes out as 23:00 of the day before, and the
  row of the day before ends there: a point of its last hour is stored and counted in no row. That is the run's trace. Its two other
  timezones, run alone, violate the property too: where 00:00 is skipped east of UTC (Cairo, Beirut) the row reaches an hour into the next day, and the first
  point of that is counted twice; where 00:00 comes twice east of UTC (Amman until 2022), a point of the hour between
  is in no row, or in that of the day before once that is rebuilt.
- `checkin_synced`: a user who relinks to another Swarm account during a walk has `synced_through` set on an
  account nobody fetched.
- `settings_overlap`: of two PATCHes of one user that overlap, the later one writes back the row it read before the
  earlier one wrote: a field it omits is not left as it was.

## Not modelled, and why

- SQLite itself, and with `synchronous=NORMAL` the loss of the last commits at a power failure.
- The moment between the two statements that read a track and its points. Each is right of its own
  state of the database, and no text promises that both are of one.
- Track ids (a rebuild replaces them) and the pages of tracks; parsing and formatting; countries and cities of
  the statistics, which the program does not fill in yet.
- The width of integers in paging: only a page size near 2^63 would matter.
- Hashing of passwords, generation of keys, and the bytes of `scs`.
- Trips: single statements without a caller. Migrations: goose's.
- HTTP plumbing, logging and the React front end.

## Plan

Done, in this order: `Points`, `DailyStats`, `Tables`, `Ingest` and its proofs; `Tracks`, `TrackBuild`,
`TrackWorker` and theirs; the composition `Travelmap`; `DayCut`; `Accounts` and `CheckinSync`; `Settings`; `Sessions` with its
abstract specification and proofs; `AccountLink`; the change of a setting in `DayCut`; `Reading` and its proofs; `Paging` and its proofs; the proofs of `AccountLink`, `DayCut`, `Settings`
and of `WalkCovers`.

Next:

1. The order of renderings in `CheckinSync`: of two overlapping runs the one that fetched earlier may write later; a single
   run without pushes never puts one back.
2. A changed track break, as `DayCut` has a changed timezone: until the restart the server's worker splits at the old one.
3. Proofs of what these two add, and a second change of offset close to the first in `DayCut`, with its proofs.
