------------------------------ MODULE DailyStats ------------------------------
(***************************************************************************)
(* The daily_stats arithmetic of internal/store/sqlite and the choice of   *)
(* days to rebuild of internal/ingest, as operators on one user's history. *)
(*                                                                         *)
(* A daily_stats row is kept finer than the code keeps it: the set of      *)
(* points counted instead of COUNT( * ), and the set of segments summed    *)
(* instead of the sum in km.  Two equal rows here are equal there.         *)
(*                                                                         *)
(* The timezone is a parameter: Midnight is localMidnight, NextMidnight    *)
(* is day.AddDate(0, 0, 1).  Module DayCut computes both as Go does and    *)
(* says for which timezones ZoneAssumption holds.                          *)
(***************************************************************************)
EXTENDS Points

CONSTANTS
  Midnight,      \* Midnight[t]: local midnight of the day t falls on
  NextMidnight   \* NextMidnight[d]: the midnight one calendar day after d

\* A calendar day is named by its midnight, the instant Rebuild is given.
Day == {Midnight[t] : t \in Time}

\* The calendar days partition the time line: every timestamp lies in its own
\* day's window, and windows of different days do not overlap.
ASSUME ZoneAssumption ==
  /\ Midnight \in [Time -> Int]
  /\ NextMidnight \in [Day -> Int]
  /\ \A t \in Time : Midnight[t] <= t /\ t < NextMidnight[Midnight[t]]
  /\ \A s, t \in Time :
       Midnight[s] < Midnight[t] => NextMidnight[Midnight[s]] <= Midnight[t]

-----------------------------------------------------------------------------
(* DailyStats().Rebuild *)

Row == [points : SUBSET Time, km : SUBSET (Time \X Pos \X Time \X Pos)]

NoRow == [points |-> {}, km |-> {}]

\* Mutant: deleted points are still read.
DayPointsDeleted(h, day) == {t \in Time : day <= t /\ t < NextMidnight[day]}

DayPoints(h, day) == {t \in Stored(h) : day <= t /\ t < NextMidnight[day]}

\* The subquery ORDER BY timestamp DESC LIMIT 1 below :day_start.
Preceding(h, day) ==
  {s \in Stored(h) : s < day /\ \A r \in Stored(h) : r < day => r <= s}

Candidates(h, day) == Preceding(h, day) \cup DayPoints(h, day)

\* The pairs LAG forms over times whose later point is in ends, less those a
\* track break apart, which add nothing to km.
Hops(times, ends) ==
  {st \in times \X ends : st[1] \in Lag(times, st[2]) /\ st[2] - st[1] <= TrackBreak}

\* The row Rebuild leaves for a day.  An emptied day's row is deleted: NoRow.
Rebuild(h, day) ==
  [points |-> DayPoints(h, day),
   km     |-> Segments(h, Hops(Candidates(h, day), DayPoints(h, day)))]

-----------------------------------------------------------------------------
(* What a row promises, with no window and no candidate set: the points whose *)
(* calendar day it is, and the segments that reach them from whatever point   *)
(* precedes them anywhere in the history.                                     *)

PointsOn(h, day) == {t \in Stored(h) : Midnight[t] = day}

DayStat(h, day) ==
  [points |-> PointsOn(h, day),
   km     |-> Segments(h, Hops(Stored(h), PointsOn(h, day)))]

-----------------------------------------------------------------------------
(* affectedDays of internal/ingest, after the write: the day of every touched *)
(* timestamp, and the day of the point now next after each day's latest touch *)

LatestTouched(touched) ==
  {t \in touched : \A s \in touched : Midnight[s] = Midnight[t] => s <= t}

\* Mutant: the point after the touched ones is forgotten.
affectedDaysOwn(h, touched) == {Midnight[t] : t \in touched}

affectedDays(h, touched) ==
  {Midnight[t] : t \in touched}
    \cup {Midnight[s] : s \in UNION {NextTimestamp(h, t) : t \in LatestTouched(touched)}}

=============================================================================
