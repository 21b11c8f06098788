-------------------------------- MODULE Reading --------------------------------
(***************************************************************************)
(* The statistics a client is shown: what GET /api/v1/stats and            *)
(* GET /api/v1/points/tracked_months add up from the rows of daily_stats.  *)
(* Each reads the rows in one statement and changes nothing, so they are   *)
(* operators on the state of Ingest.                                       *)
(*                                                                         *)
(* A sum in km is kept finer than the code keeps it: the bag of the        *)
(* segments added, one that is added twice counted twice.                  *)
(***************************************************************************)
EXTENDS Ingest, FiniteSets

CONSTANT Month   \* Month[d]: the year and month of day d, one number

ASSUME MonthAssumption == Month \in [Day -> Int]

-----------------------------------------------------------------------------
(* daily_stats of one user, read *)

\* Mutant: days nothing was travelled on are left out.
AllTravelled(rows) == {d \in Day : rows[d].km # {}}

\* DailyStats().All: the days that have a row.
All(rows) == {d \in Day : rows[d] # NoRow}

trackedMonths(rows) == {Month[d] : d \in All(rows)}

totalPoints(rows) == Cardinality({dt \in All(rows) \X Time : dt[2] \in rows[dt[1]].points})

\* How often each segment was added to the km of these days.
Kilometres(rows, days) ==
  [s \in UNION {rows[d].km : d \in days} |-> Cardinality({d \in days : s \in rows[d].km})]

totalKM(rows) == Kilometres(rows, All(rows))

monthKM(rows, m) == Kilometres(rows, {d \in All(rows) : Month[d] = m})

-----------------------------------------------------------------------------

Once(segments) == [s \in segments |-> 1]

MonthOf(t) == Month[Midnight[t]]

\* What the client is shown adds up, whatever order points came, moved and went
\* in: a month is tracked exactly if a point of it is stored, every point is
\* counted once, and every segment travelled once, in the month it ends in.
\* Only while a recalculation owes a user rows may a figure fall short, and
\* even then none counts what is not there, or anything twice.
StatsTrue ==
  \A u \in User :
    LET h == points[u]
        rows == daily_stats[u]
        travelled(times) == Segments(h, Hops(Stored(h), times))
        inMonth(m) == {t \in Stored(h) : MonthOf(t) = m}
        months == {MonthOf(t) : t \in Stored(h)}
    IN  /\ trackedMonths(rows) \subseteq months
        /\ totalPoints(rows) <= Cardinality(Stored(h))
        /\ totalKM(rows) = Once(DOMAIN totalKM(rows))
        /\ DOMAIN totalKM(rows) \subseteq travelled(Stored(h))
        /\ u \notin owed =>
             /\ trackedMonths(rows) = months
             /\ totalPoints(rows) = Cardinality(Stored(h))
             /\ totalKM(rows) = Once(travelled(Stored(h)))
             /\ \A m \in months : monthKM(rows, m) = Once(travelled(inMonth(m)))

=============================================================================
