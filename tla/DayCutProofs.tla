----------------------------- MODULE DayCutProofs -----------------------------
(***************************************************************************)
(* For which timezones days are what the rest of the code takes them for:  *)
(* the days of Go's time.Time partition the time line, and daily_stats     *)
(* counts points by local date, in every timezone that keeps its midnights *)
(* (KeepsMidnight), for any points, settings and length of a day.          *)
(*                                                                         *)
(* All of it rests on one fact about time.Date (MidnightSplits): an        *)
(* instant is at or after what it gives for the midnight of a date exactly *)
(* when the date of the instant is that one or a later one.                *)
(***************************************************************************)
EXTENDS DayCut, TLAPS

-----------------------------------------------------------------------------
(* Division *)

\* Dates are quotients: a reading is on date n or later exactly when it is not
\* before midnight of date n.
LEMMA DateOfReading ==
  ASSUME NEW wall \in Int, NEW n \in Int
  PROVE  /\ wall \div DayLength \in Int
         /\ wall \div DayLength >= n <=> wall >= n * DayLength
<1> DEFINE q == wall \div DayLength
           r == wall % DayLength
<1>1. DayLength \in Int /\ DayLength > 0
  BY DayLengthAssumption
<1>2. q \in Int /\ r \in Int /\ wall = DayLength * q + r /\ 0 <= r /\ r < DayLength
  BY <1>1
<1> HIDE DEF q, r
<1>3. ASSUME q >= n PROVE wall >= n * DayLength
  <2>1. PICK k \in Nat : q = n + k
    BY <1>2, <1>3
  <2>2. DayLength * k >= 0 /\ DayLength * q = n * DayLength + DayLength * k
    BY <1>1, <2>1
  <2> QED  BY <1>1, <1>2, <2>2
<1>4. ASSUME ~ (q >= n) PROVE ~ (wall >= n * DayLength)
  <2>1. PICK k \in Nat : n = q + 1 + k
    BY <1>2, <1>4
  <2>2. DayLength * k >= 0 /\ n * DayLength = DayLength * q + DayLength + DayLength * k
    BY <1>1, <1>2, <2>1
  <2> QED  BY <1>1, <1>2, <2>2
<1> QED  BY <1>2, <1>3, <1>4 DEF q

\* The midnights are the multiples of the day.
LEMMA MidnightReading ==
  ASSUME NEW n \in Int
  PROVE  /\ n * DayLength \in Int /\ (n * DayLength) % DayLength = 0
         /\ (n * DayLength) \div DayLength = n
<1>1. DayLength \in Int /\ DayLength > 0 /\ n * DayLength \in Int
  BY DayLengthAssumption
<1>2. (n * DayLength) \div DayLength >= n /\ ~ ((n * DayLength) \div DayLength >= n + 1)
  <2>1. ~ (n * DayLength >= (n + 1) * DayLength)
    BY <1>1
  <2> QED  BY <1>1, <2>1, DateOfReading
<1>3. (n * DayLength) \div DayLength = n
  BY <1>1, <1>2, DateOfReading
<1>4. \A wall \in Int : /\ wall % DayLength \in Int
                        /\ wall = DayLength * (wall \div DayLength) + (wall % DayLength)
  BY <1>1
<1>5. /\ (n * DayLength) % DayLength \in Int
      /\ n * DayLength = DayLength * n + ((n * DayLength) % DayLength)
  BY <1>1, <1>3, <1>4
<1>6. DayLength * n = n * DayLength
  BY <1>1
<1> DEFINE wall == n * DayLength
           rest == wall % DayLength
<1>7. wall \in Int /\ rest \in Int /\ wall = wall + rest
  BY <1>1, <1>5, <1>6
<1>8. rest = 0
  <2> HIDE DEF wall, rest
  <2> QED  BY <1>7
<1> QED  BY <1>1, <1>3, <1>8

-----------------------------------------------------------------------------
(* Midnights *)

\* time.Date, for the midnight of date n.
MidnightOf(z, n) == DateTime(z, n, 0)

LEMMA ZoneType ==
  ASSUME NEW z \in Zone
  PROVE  z.before \in Int /\ z.after \in Int /\ z.at \in Int
BY ZonesAssumption

\* What is before the midnight of date n, by the clock on the wall, is before it
\* in time, and it is midnight when it is.
LEMMA MidnightSplits ==
  ASSUME NEW z \in Zone, KeepsMidnight(z), NEW n \in Int
  PROVE  /\ MidnightOf(z, n) \in Int
         /\ MidnightOf(z, n) + Offset(z, MidnightOf(z, n)) = n * DayLength
         /\ \A t \in Int : t >= MidnightOf(z, n) <=> t + Offset(z, t) >= n * DayLength
<1> DEFINE wall == n * DayLength
<1>1. wall \in Int /\ wall % DayLength = 0
  BY MidnightReading
<1>2. wall \notin Skipped(z)
  BY <1>1 DEF KeepsMidnight
<1>3. wall \in Repeated(z) => wall = z.at + z.after /\ z.after < 0
  BY <1>1 DEF KeepsMidnight
<1>4. MidnightOf(z, n) = (LET utc == wall - Offset(z, wall)
                          IN  IF Offset(z, wall) # 0 /\ Changed(z, utc) # Changed(z, wall)
                                THEN wall - Offset(z, utc) ELSE utc)
  <2>1. wall + 0 = wall
    BY <1>1
  <2> QED  BY <2>1 DEF MidnightOf, DateTime
<1> HIDE DEF wall
<1>5. /\ MidnightOf(z, n) \in Int
      /\ MidnightOf(z, n) + Offset(z, MidnightOf(z, n)) = wall
      /\ \A t \in Int : t >= MidnightOf(z, n) <=> t + Offset(z, t) >= wall
  <2>1. CASE wall < z.at + z.before /\ wall < z.at + z.after
    <3>1. MidnightOf(z, n) = wall - z.before
      BY <1>1, <1>4, <2>1, ZoneType DEF Offset, Changed
    <3> QED  BY <1>1, <2>1, <3>1, ZoneType DEF Offset, Changed
  <2>2. CASE wall >= z.at + z.before /\ wall >= z.at + z.after
    <3>1. MidnightOf(z, n) = wall - z.after
      BY <1>1, <1>4, <2>2, ZoneType DEF Offset, Changed
    <3> QED  BY <1>1, <2>2, <3>1, ZoneType DEF Offset, Changed
  <2>3. CASE wall >= z.at + z.before /\ wall < z.at + z.after
    BY <1>1, <1>2, <2>3, ZoneType DEF Skipped
  <2>4. CASE wall < z.at + z.before /\ wall >= z.at + z.after
    <3>1. wall = z.at + z.after /\ z.after < 0
      BY <1>1, <1>3, <2>4, ZoneType DEF Repeated
    <3>2. MidnightOf(z, n) = wall - z.before
      BY <1>1, <1>4, <2>4, <3>1, ZoneType DEF Offset, Changed
    <3> QED  BY <1>1, <2>4, <3>1, <3>2, ZoneType DEF Offset, Changed
  <2> QED  BY <1>1, <2>1, <2>2, <2>3, <2>4, ZoneType
<1> QED  BY <1>5 DEF wall

\* So an instant is on date n or later exactly from that midnight on.
LEMMA DateFromMidnight ==
  ASSUME NEW z \in Zone, KeepsMidnight(z), NEW n \in Int, NEW t \in Int
  PROVE  /\ Date(z, t) \in Int
         /\ Date(z, t) >= n <=> t >= MidnightOf(z, n)
<1>1. t + Offset(z, t) \in Int
  BY ZoneType DEF Offset
<1> QED  BY <1>1, MidnightSplits, DateOfReading DEF Date

\* The midnight of a date is on that date, at 00:00, and the day ends with the
\* midnight of the next.
LEMMA MidnightIsMidnight ==
  ASSUME NEW z \in Zone, KeepsMidnight(z), NEW n \in Int
  PROVE  /\ Date(z, MidnightOf(z, n)) = n /\ Label(z, MidnightOf(z, n)) = n
         /\ DayEnd(z, MidnightOf(z, n)) = MidnightOf(z, n + 1)
<1>1. MidnightOf(z, n) + Offset(z, MidnightOf(z, n)) = n * DayLength
  BY MidnightSplits
<1>2. Date(z, MidnightOf(z, n)) = n
  BY <1>1, MidnightReading DEF Date
<1>3. Clock(z, MidnightOf(z, n)) = 0
  BY <1>1, MidnightReading DEF Clock
<1> QED  BY <1>2, <1>3 DEF DayEnd, Label, MidnightOf

\* The day an instant is counted under, by its date.
LEMMA DayOf ==
  ASSUME NEW z \in Zone, KeepsMidnight(z), NEW t \in Int
  PROVE  /\ Date(z, t) \in Int
         /\ localMidnight(z, t) = MidnightOf(z, Date(z, t))
         /\ localMidnight(z, t) \in Int
         /\ Label(z, localMidnight(z, t)) = Date(z, t)
         /\ DayEnd(z, localMidnight(z, t)) = MidnightOf(z, Date(z, t) + 1)
         /\ DayEnd(z, localMidnight(z, t)) \in Int
<1>1. Date(z, t) \in Int
  BY DateFromMidnight, 0 \in Int
<1>2. localMidnight(z, t) = MidnightOf(z, Date(z, t))
  BY DEF localMidnight, MidnightOf
<1>3. Date(z, t) + 1 \in Int
  BY <1>1
<1> QED  BY <1>1, <1>2, <1>3, MidnightIsMidnight, MidnightSplits

-----------------------------------------------------------------------------
(* Days *)

\* A window holds the instants of a date.
LEMMA CountedByDate ==
  ASSUME NEW z \in Zone, KeepsMidnight(z), NEW times \in SUBSET Int, NEW t \in Int
  PROVE  Counted(z, times, localMidnight(z, t)) = {s \in times : Date(z, s) = Date(z, t)}
<1>1. Date(z, t) \in Int /\ Date(z, t) + 1 \in Int
  BY DayOf
<1>2. ASSUME NEW s \in times
      PROVE  (localMidnight(z, t) <= s /\ s < DayEnd(z, localMidnight(z, t))) <=> Date(z, s) = Date(z, t)
  <2>1. s \in Int /\ Date(z, s) \in Int
    BY DayOf
  <2>2. /\ localMidnight(z, t) \in Int /\ localMidnight(z, t) = MidnightOf(z, Date(z, t))
        /\ DayEnd(z, localMidnight(z, t)) \in Int
        /\ DayEnd(z, localMidnight(z, t)) = MidnightOf(z, Date(z, t) + 1)
    BY DayOf
  <2>3. Date(z, s) >= Date(z, t) <=> s >= localMidnight(z, t)
    BY <1>1, <2>1, <2>2, DateFromMidnight
  <2>4. Date(z, s) >= Date(z, t) + 1 <=> s >= DayEnd(z, localMidnight(z, t))
    BY <1>1, <2>1, <2>2, DateFromMidnight
  <2> QED  BY <1>1, <2>1, <2>2, <2>3, <2>4
<1> QED  BY <1>2 DEF Counted

\* One day, one label.
LEMMA OneDayPerLabel ==
  ASSUME NEW z \in Zone, KeepsMidnight(z), NEW s \in Int, NEW t \in Int
  PROVE  localMidnight(z, s) = localMidnight(z, t) <=> Date(z, s) = Date(z, t)
<1>1. localMidnight(z, s) = localMidnight(z, t) => Date(z, s) = Date(z, t)
  BY DayOf
<1>2. Date(z, s) = Date(z, t) => localMidnight(z, s) = localMidnight(z, t)
  BY DayOf
<1> QED  BY <1>1, <1>2

\* Of two days the one that starts later has the later date, and starts when or
\* after the other has ended.
LEMMA DaysApart ==
  ASSUME NEW z \in Zone, KeepsMidnight(z), NEW s \in Int, NEW t \in Int,
         localMidnight(z, s) < localMidnight(z, t)
  PROVE  /\ DayEnd(z, localMidnight(z, s)) <= localMidnight(z, t)
         /\ Label(z, localMidnight(z, s)) # Label(z, localMidnight(z, t))
<1>1. /\ localMidnight(z, s) \in Int /\ localMidnight(z, t) \in Int
      /\ Date(z, s) \in Int /\ Date(z, t) \in Int /\ Date(z, s) + 1 \in Int
      /\ DayEnd(z, localMidnight(z, s)) \in Int
  BY DayOf
<1>2. Date(z, localMidnight(z, t)) = Date(z, t)
  BY <1>1, DayOf DEF Label
<1>3. Date(z, t) >= Date(z, s)
  BY <1>1, <1>2, DateFromMidnight, DayOf
<1>4. Date(z, t) # Date(z, s)
  BY <1>1, OneDayPerLabel
<1>5. Date(z, t) >= Date(z, s) + 1
  BY <1>1, <1>3, <1>4
<1>6. localMidnight(z, t) >= DayEnd(z, localMidnight(z, s))
  BY <1>1, <1>2, <1>5, DateFromMidnight, DayOf
<1> QED  BY <1>1, <1>4, <1>6, DayOf

\* A timezone that keeps its midnights has days that partition the time line.
THEOREM KeptMidnightsPartition ==
  ASSUME NEW z \in Zone, KeepsMidnight(z)
  PROVE  Partitions(z)
<1>1. ASSUME NEW t \in Instant
      PROVE  localMidnight(z, t) <= t /\ t < DayEnd(z, localMidnight(z, t))
  <2>1. t \in Int
    BY InstantAssumption
  <2>2. t \in Counted(z, {t}, localMidnight(z, t))
    BY <2>1, CountedByDate
  <2> QED  BY <2>2 DEF Counted
<1>2. ASSUME NEW s \in Instant, NEW t \in Instant, localMidnight(z, s) < localMidnight(z, t)
      PROVE  /\ DayEnd(z, localMidnight(z, s)) <= localMidnight(z, t)
             /\ Label(z, localMidnight(z, s)) # Label(z, localMidnight(z, t))
  BY <1>2, InstantAssumption, DaysApart
<1> QED  BY <1>1, <1>2 DEF Partitions

\* Module DailyStats takes a timezone as the midnight of each timestamp and the
\* end of each day, and assumes of them what ZoneAssumption says.  What the code
\* computes in a timezone that keeps its midnights is of that kind, so that what
\* is proved from ZoneAssumption holds there.
THEOREM ZoneAssumptionHolds ==
  ASSUME NEW z \in Zone, KeepsMidnight(z)
  PROVE  LET Midnight == [t \in Instant |-> localMidnight(z, t)]
             Day == {Midnight[t] : t \in Instant}
             NextMidnight == [d \in Day |-> DayEnd(z, d)]
         IN  /\ Midnight \in [Instant -> Int]
             /\ NextMidnight \in [Day -> Int]
             /\ \A t \in Instant : Midnight[t] <= t /\ t < NextMidnight[Midnight[t]]
             /\ \A s, t \in Instant :
                  Midnight[s] < Midnight[t] => NextMidnight[Midnight[s]] <= Midnight[t]
<1> DEFINE Midnight == [t \in Instant |-> localMidnight(z, t)]
           Day == {Midnight[t] : t \in Instant}
           NextMidnight == [d \in Day |-> DayEnd(z, d)]
<1>1. \A t \in Instant : t \in Int /\ localMidnight(z, t) \in Int /\ DayEnd(z, localMidnight(z, t)) \in Int
  BY InstantAssumption, DayOf
<1>2. \A t \in Instant : /\ Midnight[t] = localMidnight(z, t) /\ Midnight[t] \in Day
                         /\ NextMidnight[Midnight[t]] = DayEnd(z, localMidnight(z, t))
  OBVIOUS
<1>3. Midnight \in [Instant -> Int] /\ NextMidnight \in [Day -> Int]
  BY <1>1
<1> HIDE DEF Midnight, Day, NextMidnight
<1>4. \A t \in Instant : Midnight[t] <= t /\ t < NextMidnight[Midnight[t]]
  BY <1>2, KeptMidnightsPartition DEF Partitions
<1>5. \A s, t \in Instant : Midnight[s] < Midnight[t] => NextMidnight[Midnight[s]] <= Midnight[t]
  BY <1>1, <1>2, DaysApart
<1> QED  BY <1>3, <1>4, <1>5 DEF Midnight, Day, NextMidnight

-----------------------------------------------------------------------------
(* Rows *)

DaysOf(z, T) == {localMidnight(z, t) : t \in T}

Dated(z, times, l) == {t \in times : Date(z, t) = l}

\* Rebuild of the days of some timestamps leaves under their dates the points of
\* those dates, and the rows of other dates as they were.
LEMMA RebuiltByDate ==
  ASSUME NEW z \in Zone, KeepsMidnight(z), NEW old, NEW times \in SUBSET Int,
         NEW T \in SUBSET Int, NEW l \in Labels
  PROVE  /\ (\E s \in T : Date(z, s) = l) =>
              Rebuilt(z, old, times, DaysOf(z, T))[l] = Dated(z, times, l)
         /\ (\A s \in T : Date(z, s) # l) =>
              Rebuilt(z, old, times, DaysOf(z, T))[l] = old[l]
<1> DEFINE days == DaysOf(z, T)
           same == {d \in days : Label(z, d) = l}
           latest == CHOOSE d \in same : \A e \in same : e <= d
           new == Rebuilt(z, old, times, days)
<1>1. \A s \in T : Label(z, localMidnight(z, s)) = Date(z, s) /\ localMidnight(z, s) \in Int
  BY DayOf
<1>2. new[l] = IF same = {} THEN old[l] ELSE Counted(z, times, latest)
  BY DEF Rebuilt
<1>3. ASSUME NEW s \in T, Date(z, s) = l PROVE new[l] = Dated(z, times, l)
  <2>1. same = {localMidnight(z, s)}
    <3>1. localMidnight(z, s) \in same
      BY <1>1, <1>3 DEF DaysOf
    <3>2. ASSUME NEW d \in same PROVE d = localMidnight(z, s)
      <4>1. PICK r \in T : d = localMidnight(z, r)
        BY DEF DaysOf
      <4>2. Date(z, r) = l
        BY <1>1, <4>1
      <4> QED  BY <1>3, <4>1, <4>2, OneDayPerLabel
    <3> HIDE DEF same
    <3> QED  BY <3>1, <3>2
  <2>2. latest = localMidnight(z, s)
    <3> HIDE DEF same
    <3> QED  BY <1>1, <2>1
  <2> HIDE DEF same, latest, new
  <2> QED  BY <1>2, <1>3, <2>1, <2>2, CountedByDate DEF Dated
<1>4. ASSUME \A s \in T : Date(z, s) # l PROVE new[l] = old[l]
  <2>1. same = {}
    BY <1>1, <1>4 DEF DaysOf
  <2> HIDE DEF same, latest, new
  <2> QED  BY <1>2, <2>1
<1> QED  BY <1>3, <1>4

OnDate(z, l) == Dated(z, stored, l)

\* The strengthening of RowsByDate that every step keeps.  Rows that are missing
\* are missing as a whole or in part, but hold no point of another date: what a
\* recalculation that is cut off, and the writes meanwhile, leave behind.
RowsInv ==
  /\ written # {} /\ (run # NoRun => run \in written)
  /\ \A z \in Zone : KeepsMidnight(z) /\ written = {z} =>
       \A l \in Labels : /\ rows[l] \subseteq OnDate(z, l)
                         /\ whole => rows[l] = OnDate(z, l)

\* What a rebuild leaves is well typed, whatever the timezone.
LEMMA RebuiltType ==
  ASSUME NEW z, NEW old \in [Labels -> SUBSET Instant], NEW times \in SUBSET Instant, NEW days
  PROVE  Rebuilt(z, old, times, days) \in [Labels -> SUBSET Instant]
<1>1. \A day : Counted(z, times, day) \in SUBSET Instant
  BY DEF Counted
<1> QED  BY <1>1 DEF Rebuilt

\* The days a write rebuilds are those of some timestamps, the touched one among them.
LEMMA AffectedDays ==
  ASSUME NEW z, NEW times \in SUBSET Instant, NEW t \in Instant
  PROVE  \E T \in SUBSET Instant :
           t \in T /\ Affected(z, times, t) = DaysOf(z, T)
<1> DEFINE T == {t} \cup {n \in times : n > t /\ \A r \in times : r > t => n <= r}
<1>1. T \in SUBSET Instant /\ t \in T
  OBVIOUS
<1>2. Affected(z, times, t) = DaysOf(z, T)
  BY DEF Affected, DaysOf
<1> QED  BY <1>1, <1>2, Zenon

\* Every step keeps the type.
LEMMA TypeKept == TypeOK /\ [Next]_vars => TypeOK'
<1> SUFFICES ASSUME TypeOK, [Next]_vars PROVE TypeOK'
  OBVIOUS
<1> USE DEF TypeOK
<1>1. ASSUME NEW t \in Instant, NEW times \in SUBSET Instant, Write(t, times) PROVE TypeOK'
  <2>1. rows' \in [Labels -> SUBSET Instant]
    BY <1>1, RebuiltType DEF Write
  <2> QED  BY <1>1, <2>1 DEF Write
<1>2. ASSUME NEW t \in Instant, Insert(t) \/ Delete(t) PROVE TypeOK'
  BY <1>1, <1>2 DEF Insert, Delete
<1>3. ASSUME NEW z \in NewZone, Configure(z) PROVE TypeOK'
  BY <1>3, ZonesAssumption DEF Configure
<1>4. CASE Restart \/ Interrupt
  BY <1>4 DEF Restart, Interrupt
<1>5. CASE DeleteAll
  <2>1. NoRows \in [Labels -> SUBSET Instant]
    BY DEF NoRows
  <2> QED  BY <1>5, <2>1 DEF DeleteAll, Emptied
<1>6. CASE RecalculateUser
  <2>1. rows' \in [Labels -> SUBSET Instant]
    BY <1>6, RebuiltType DEF RecalculateUser
  <2> QED  BY <1>6, <2>1 DEF RecalculateUser
<1>7. CASE UNCHANGED vars
  BY <1>7 DEF vars
<1> QED  BY <1>2, <1>3, <1>4, <1>5, <1>6, <1>7 DEF Next

\* A write of the server brings the dates of what it touched up to date and
\* changes nothing about the others.
LEMMA WriteKeepsRows ==
  ASSUME TypeOK, RowsInv, NEW t \in Instant, NEW times \in SUBSET Instant, Write(t, times),
         \A s \in Instant : s # t => (s \in times <=> s \in stored)
  PROVE  RowsInv'
<1>1. /\ stored' = times /\ rows' = Rebuilt(zone, rows, times, Affected(zone, times, t))
      /\ written' = written \cup {zone} /\ zone \in Zone
      /\ UNCHANGED <<run, whole>>
  BY DEF Write, TypeOK
<1>2. written' # {} /\ (run' # NoRun => run' \in written')
  BY <1>1 DEF RowsInv
<1>3. ASSUME NEW z \in Zone, KeepsMidnight(z), written' = {z}, NEW l \in Labels
      PROVE  rows'[l] \subseteq OnDate(z, l)' /\ (whole' => rows'[l] = OnDate(z, l)')
  <2>1. zone = z /\ written = {z}
    BY <1>1, <1>3 DEF RowsInv
  <2>2. rows[l] \subseteq OnDate(z, l) /\ (whole => rows[l] = OnDate(z, l))
    BY <1>3, <2>1 DEF RowsInv
  <2>3. OnDate(z, l)' = Dated(z, times, l)
    BY <1>1 DEF OnDate, Dated
  <2>4. PICK T \in SUBSET Instant :
          t \in T /\ Affected(z, times, t) = DaysOf(z, T)
    BY AffectedDays
  <2>5. T \in SUBSET Int /\ times \in SUBSET Int /\ stored \subseteq Instant
    BY InstantAssumption DEF TypeOK
  <2>6. rows' = Rebuilt(z, rows, times, DaysOf(z, T))
    BY <1>1, <2>1, <2>4
  <2> DEFINE new == Rebuilt(z, rows, times, DaysOf(z, T))
  <2>9. /\ (\E s \in T : Date(z, s) = l) => new[l] = Dated(z, times, l)
        /\ (\A s \in T : Date(z, s) # l) => new[l] = rows[l]
    BY <1>3, <2>5, RebuiltByDate
  <2> HIDE DEF new
  <2>7. CASE \E s \in T : Date(z, s) = l
    BY <2>3, <2>6, <2>7, <2>9 DEF new
  <2>8. CASE \A s \in T : Date(z, s) # l
    <3>1. rows'[l] = rows[l]
      BY <2>6, <2>8, <2>9 DEF new
    <3>2. OnDate(z, l)' = OnDate(z, l)
      BY <2>3, <2>4, <2>5, <2>8 DEF OnDate, Dated
    <3> QED  BY <1>1, <2>2, <3>1, <3>2
  <2> QED  BY <2>7, <2>8
<1> QED  BY <1>2, <1>3 DEF RowsInv

\* A recalculation that runs through leaves a row for every date with points,
\* and found no other.
LEMMA RecalculationCompletes ==
  ASSUME TypeOK, RowsInv, RecalculateUser
  PROVE  RowsInv'
<1>1. /\ rows' = Rebuilt(run, rows, stored, DaysOf(run, stored))
      /\ run # NoRun /\ run' = NoRun /\ UNCHANGED <<stored, written>>
  BY DEF RecalculateUser, DaysOf
<1>2. ASSUME NEW z \in Zone, KeepsMidnight(z), written' = {z}, NEW l \in Labels
      PROVE  rows'[l] = OnDate(z, l)'
  <2>1. run = z /\ written = {z}
    BY <1>1, <1>2 DEF RowsInv
  <2>2. rows[l] \subseteq OnDate(z, l)
    BY <1>2, <2>1 DEF RowsInv
  <2>3. OnDate(z, l)' = Dated(z, stored, l) /\ OnDate(z, l) = OnDate(z, l)'
    BY <1>1 DEF OnDate, Dated
  <2>4. stored \in SUBSET Int
    BY InstantAssumption DEF TypeOK
  <2> DEFINE new == Rebuilt(z, rows, stored, DaysOf(z, stored))
  <2>7. /\ (\E t \in stored : Date(z, t) = l) => new[l] = Dated(z, stored, l)
        /\ (\A t \in stored : Date(z, t) # l) => new[l] = rows[l]
    BY <1>2, <2>4, RebuiltByDate
  <2>8. rows' = new
    BY <1>1, <2>1
  <2> HIDE DEF new
  <2>5. CASE \E t \in stored : Date(z, t) = l
    BY <2>3, <2>5, <2>7, <2>8
  <2>6. CASE \A t \in stored : Date(z, t) # l
    <3>1. rows'[l] = rows[l]
      BY <2>6, <2>7, <2>8
    <3>2. OnDate(z, l)' = {}
      BY <2>3, <2>6 DEF Dated
    <3> QED  BY <2>2, <2>3, <3>1, <3>2
  <2> QED  BY <2>5, <2>6
<1> QED  BY <1>1, <1>2 DEF RowsInv

\* Every step keeps the invariant.
LEMMA RowsKept == TypeOK /\ RowsInv /\ [Next]_vars => RowsInv'
<1> SUFFICES ASSUME TypeOK, RowsInv, [Next]_vars PROVE RowsInv'
  OBVIOUS
<1>1. ASSUME NEW t \in Instant, Insert(t) \/ Delete(t) PROVE RowsInv'
  <2>1. PICK times \in {stored \cup {t}, stored \ {t}} : Write(t, times)
    BY <1>1 DEF Insert, Delete
  <2>2. times \in SUBSET Instant /\ \A s \in Instant : s # t => (s \in times <=> s \in stored)
    BY DEF TypeOK
  <2> QED  BY <2>1, <2>2, WriteKeepsRows
<1>2. ASSUME UNCHANGED <<stored, rows, written, whole>>, run' \in {run, NoRun} PROVE RowsInv'
  BY <1>2 DEF RowsInv, OnDate, Dated
<1>3. ASSUME NEW z \in NewZone, Configure(z) PROVE RowsInv'
  BY <1>2, <1>3 DEF Configure
<1>4. CASE Restart \/ Interrupt
  BY <1>2, <1>4 DEF Restart, Interrupt
<1>5. CASE DeleteAll
  <2>1. \A l \in Labels : rows'[l] = {}
    BY <1>5 DEF DeleteAll, Emptied, NoRows
  <2> QED  BY <1>5, <2>1 DEF DeleteAll, RowsInv
<1>6. CASE RecalculateUser
  BY <1>6, RecalculationCompletes
<1>7. CASE UNCHANGED vars
  BY <1>2, <1>7 DEF vars
<1> QED  BY <1>1, <1>3, <1>4, <1>5, <1>6, <1>7 DEF Next

-----------------------------------------------------------------------------

\* Every reachable state is well typed, in any timezones.
THEOREM CutTypeCorrect == Spec => []TypeOK
<1>1. Init => TypeOK
  BY DEF Init, TypeOK, NoRows
<1> QED  BY <1>1, TypeKept, PTL DEF Spec

\* If every timezone keeps its midnights, the days of the one the server was
\* started with partition the time line, whatever the setting is changed to.
THEOREM DaysAlwaysPartition ==
  ASSUME \A z \in Zone : KeepsMidnight(z)
  PROVE  Spec => []DaysPartition
<1>1. TypeOK => DaysPartition
  BY KeptMidnightsPartition DEF TypeOK, DaysPartition
<1> QED  BY <1>1, CutTypeCorrect, PTL

\* With nothing assumed of the timezones, the rows of each one that keeps its
\* midnights are by date: another timezone, however it cuts days, leaves no trace
\* once the table was emptied.
RowsOfKept ==
  \A z \in Zone : KeepsMidnight(z) /\ whole /\ written = {z} =>
    \A l \in Labels : rows[l] = {t \in stored : Date(z, t) = l}

THEOREM RowsOfKeptByDate == Spec => []RowsOfKept
<1>1. Init => RowsInv
  BY DEF Init, RowsInv, OnDate, Dated, NoRows
<1>2. RowsInv => RowsOfKept
  BY DEF RowsInv, RowsOfKept, OnDate, Dated
<1> QED  BY <1>1, <1>2, RowsKept, CutTypeCorrect, PTL DEF Spec

\* So with timezones that keep their midnights, a recalculation that ran through
\* leaves every row counting the points of its date, and writes keep it so.
THEOREM RowsAlwaysByDate ==
  ASSUME \A z \in Zone : KeepsMidnight(z)
  PROVE  Spec => []RowsByDate
<1>1. RowsOfKept => RowsByDate
  BY DEF RowsOfKept, RowsByDate
<1> QED  BY <1>1, RowsOfKeptByDate, PTL

=============================================================================
