-------------------------------- MODULE DayCut --------------------------------
(***************************************************************************)
(* Where one calendar day ends and the next begins: localMidnight of       *)
(* internal/ingest, the window and the label of Rebuild, on the time.Time  *)
(* arithmetic of Go they are written with, in a timezone with one change   *)
(* of offset.  It answers for which timezones DailyStats' ZoneAssumption   *)
(* holds, and what becomes of the daily_stats rows in the others.          *)
(*                                                                         *)
(* The timezone is a setting, which the server reads when it starts and    *)
(* `travelmap recalculate` when it is run: for a while rows of two         *)
(* timezones may be in the table.                                          *)
(*                                                                         *)
(* Time is counted in hours of a day of DayLength hours.  A row is the set *)
(* of points it counts, under the date that labels it.                     *)
(***************************************************************************)
EXTENDS Integers, FiniteSets

CONSTANTS
  DayLength,     \* hours in a day without a change of offset
  Instant,       \* the timestamps points may carry
  Zone,          \* timezones: [before, after : offsets, at : the change, UTC]
  NewZone,       \* the timezones the setting may be changed to
  MaxStored,     \* bound on the points stored at once
  NoRun          \* no recalculation is under way

ASSUME DayLengthAssumption == DayLength \in Nat \ {0}
ASSUME InstantAssumption == Instant \subseteq Int
ASSUME ZonesAssumption ==
  /\ NewZone \subseteq Zone /\ NoRun \notin Zone
  /\ \A z \in Zone : z.before \in Int /\ z.after \in Int /\ z.at \in Int

VARIABLES
  timezone,      \* tracking.timezone, as the config file has it
  zone,          \* the one the server was started with
  run,           \* the one of the recalculation under way, or NoRun
  stored,        \* the timestamps of one user's points
  rows,          \* rows[date]: the points daily_stats counts under date
  written,       \* history: the timezones the rows were written in
  whole          \* history: no recalculation left rows out

vars == <<timezone, zone, run, stored, rows, written, whole>>

-----------------------------------------------------------------------------
(* time.Time *)

Changed(z, unix) == unix >= z.at

Offset(z, unix) == IF Changed(z, unix) THEN z.after ELSE z.before

Date(z, t)  == (t + Offset(z, t)) \div DayLength

Clock(z, t) == (t + Offset(z, t)) % DayLength

\* time.Date: the offset in force at the wall clock read as UTC is tried first;
\* if the instant it gives lies across the change, that instant's offset is
\* taken.  A wall clock that does not exist or exists twice gets what comes out.
DateTime(z, date, clock) ==
  LET wall == date * DayLength + clock
      utc  == wall - Offset(z, wall)
  IN  IF Offset(z, wall) # 0 /\ Changed(z, utc) # Changed(z, wall)
        THEN wall - Offset(z, utc)
        ELSE utc

\* The wall clock readings a change skips, and those it shows twice.
Skipped(z)  == z.at + z.before .. z.at + z.after - 1
Repeated(z) == z.at + z.after .. z.at + z.before - 1

\* Every date has one midnight, and it is the one time.Date finds: none is
\* skipped, and one that is shown twice is the first reading shown twice, west
\* of UTC after the change, where time.Date takes the earlier of the two.
KeepsMidnight(z) ==
  /\ \A wall \in Skipped(z) : wall % DayLength # 0
  /\ \A wall \in Repeated(z) :
       wall % DayLength = 0 => wall = z.at + z.after /\ z.after < 0

-----------------------------------------------------------------------------
(* The days of internal/ingest and of Rebuild *)

localMidnight(z, t) == DateTime(z, Date(z, t), 0)

\* Mutant: every day is as long as any other.
DayEndAdd(z, day) == day + DayLength

\* day.AddDate(0, 0, 1): the next date at the same wall clock.
DayEnd(z, day) == DateTime(z, Date(z, day) + 1, Clock(z, day))

\* day.Format("2006-01-02").
Label(z, day) == Date(z, day)

Counted(z, times, day) == {t \in times : day <= t /\ t < DayEnd(z, day)}

Labels == {Label(z, localMidnight(z, t)) : z \in Zone, t \in Instant}

\* Mutant: the rows of other days are lost.
RebuiltOnly(z, old, times, days) ==
  [l \in {Label(z, d) : d \in days} |->
     UNION {Counted(z, times, d) : d \in {e \in days : Label(z, e) = l}}]

\* Rebuild of several days in ascending order: of two days under one label the
\* later one is what remains.
Rebuilt(z, old, times, days) ==
  [l \in Labels |->
     LET same == {d \in days : Label(z, d) = l}
     IN  IF same = {} THEN old[l]
         ELSE Counted(z, times, CHOOSE d \in same : \A e \in same : e <= d)]

\* affectedDays for one touched timestamp.
Affected(z, times, t) ==
  {localMidnight(z, s) : s \in {t} \cup
     {n \in times : n > t /\ \A r \in times : r > t => n <= r}}

-----------------------------------------------------------------------------

NoRows == [l \in Labels |-> {}]

Init ==
  /\ timezone \in Zone /\ zone = timezone
  /\ run = NoRun
  /\ stored = {} /\ rows = NoRows
  /\ written = {zone} /\ whole = TRUE

\* A write of the server, and the days it rebuilds.
Write(t, times) ==
  /\ stored' = times
  /\ rows' = Rebuilt(zone, rows, times, Affected(zone, times, t))
  /\ written' = written \cup {zone}
  /\ UNCHANGED <<timezone, zone, run, whole>>

Insert(t) == Cardinality(stored \cup {t}) <= MaxStored /\ Write(t, stored \cup {t})

Delete(t) == t \in stored /\ Write(t, stored \ {t})

Configure(z) ==
  /\ timezone # z
  /\ timezone' = z
  /\ UNCHANGED <<zone, run, stored, rows, written, whole>>

Restart ==
  /\ zone # timezone
  /\ zone' = timezone
  /\ UNCHANGED <<timezone, run, stored, rows, written, whole>>

\* Mutant: the rows that are there are kept, to be overwritten.
EmptyNothing == rows

Emptied == NoRows

\* The recalculation reads the setting and empties the table.
DeleteAll ==
  /\ run = NoRun
  /\ run' = timezone
  /\ rows' = Emptied /\ written' = {timezone} /\ whole' = FALSE
  /\ UNCHANGED <<timezone, zone, stored>>

\* Every day one of the timestamps is on.
RecalculateUser ==
  /\ run # NoRun
  /\ rows' = Rebuilt(run, rows, stored, {localMidnight(run, t) : t \in stored})
  /\ run' = NoRun /\ whole' = TRUE
  /\ UNCHANGED <<timezone, zone, stored, written>>

Interrupt ==
  /\ run # NoRun
  /\ run' = NoRun
  /\ UNCHANGED <<timezone, zone, stored, rows, written, whole>>

Next ==
  \/ \E t \in Instant : Insert(t) \/ Delete(t)
  \/ \E z \in NewZone : Configure(z)
  \/ Restart \/ DeleteAll \/ RecalculateUser \/ Interrupt

Spec == Init /\ [][Next]_vars

-----------------------------------------------------------------------------

TypeOK ==
  /\ timezone \in Zone /\ zone \in Zone /\ run \in Zone \cup {NoRun}
  /\ stored \in SUBSET Instant
  /\ rows \in [Labels -> SUBSET Instant]
  /\ written \in SUBSET Zone /\ whole \in BOOLEAN

Partitions(z) ==
  LET days == {localMidnight(z, t) : t \in Instant}
  IN  /\ \A t \in Instant : localMidnight(z, t) <= t /\ t < DayEnd(z, localMidnight(z, t))
      /\ \A c, d \in days : c < d => DayEnd(z, c) <= d /\ Label(z, c) # Label(z, d)

\* The comment on localMidnight: it is the start of the calendar day the
\* timestamp falls on, the days it starts partition the time line and are told
\* apart by their labels.  This is DailyStats' ZoneAssumption.
DaysPartition == Partitions(zone)

\* "Changing it invalidates every stored daily_stats row and requires `travelmap
\* recalculate`", and no more than that: once a recalculation has run through
\* and nothing was written in another timezone since it emptied the table, a
\* row counts exactly the points whose local date is its own, however the
\* points came and went and whatever the setting was before.
RowsByDate ==
  \A z \in Zone : whole /\ written = {z} =>
    \A l \in Labels : rows[l] = {t \in stored : Date(z, t) = l}

=============================================================================
