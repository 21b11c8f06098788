----------------------------- MODULE IngestProofs -----------------------------
(***************************************************************************)
(* The daily_stats promises of Ingest, for any users, timestamps, regular  *)
(* timezone, track break and number of overlapping recalculations.         *)
(*                                                                         *)
(* Two facts about the arithmetic carry everything the rows promise.       *)
(* Rebuild, which looks at one day and the one point before it, finds what *)
(* a look at the whole history would (RebuildExact).  And a change to some *)
(* points leaves every day outside affectedDays as it was (UnaffectedDay). *)
(*                                                                         *)
(* The invariant is inductive as a whole and not in parts.  RowsComplete   *)
(* needs RowsSound: a user with no points left when the users are listed   *)
(* is dropped from owed without being rebuilt, and a day a recalculation   *)
(* does not come to keeps its row.                                         *)
(*                                                                         *)
(* Then what clients read: the statistics of Reading follow from the rows  *)
(* being exact, and the client of Paging misses no point it need not miss. *)
(***************************************************************************)
EXTENDS Reading, Paging, HistoryProofs, FiniteSetTheorems

-----------------------------------------------------------------------------
(* The arithmetic of DailyStats *)

\* A timestamp lies in the window of a day exactly when it falls on that day.
LEMMA WindowIsDay ==
  ASSUME NEW t \in Time, NEW d \in Day
  PROVE  (d <= t /\ t < NextMidnight[d]) <=> Midnight[t] = d
<1>1. PICK s \in Time : d = Midnight[s]
  BY DEF Day
<1>2. Midnight[s] \in Int /\ Midnight[t] \in Int /\ t \in Int
  BY ZoneAssumption, TimeAssumption
<1>3. NextMidnight[d] \in Int /\ NextMidnight[Midnight[t]] \in Int
  BY ZoneAssumption DEF Day
<1> QED  BY <1>1, <1>2, <1>3, ZoneAssumption

\* Days are ordered like their points.
LEMMA DayOrder ==
  ASSUME NEW s \in Time, NEW t \in Time, s <= t
  PROVE  Midnight[s] <= Midnight[t]
<1>1. Midnight[s] \in Int /\ Midnight[t] \in Int /\ s \in Int /\ t \in Int
  BY ZoneAssumption, TimeAssumption
<1>2. NextMidnight[Midnight[t]] \in Int
  BY ZoneAssumption DEF Day
<1> QED  BY <1>1, <1>2, ZoneAssumption

\* The window Rebuild counts holds the points of the calendar day.
LEMMA DayPointsExact ==
  ASSUME NEW h \in History, NEW d \in Day
  PROVE  DayPoints(h, d) = PointsOn(h, d)
BY WindowIsDay DEF DayPoints, PointsOn, Stored

\* Pairing a day's points within the candidates, the day and the one point
\* before it, gives the pairs of the whole history.
LEMMA LagExact ==
  ASSUME NEW h \in History, NEW d \in Day, NEW t \in DayPoints(h, d)
  PROVE  Lag(Candidates(h, d), t) = Lag(Stored(h), t)
<1>1. d \in Int /\ NextMidnight[d] \in Int /\ Stored(h) \subseteq Int
  BY ZoneAssumption, TimeAssumption DEF Day, Stored
<1>2. t \in Stored(h) /\ t \in Int /\ d <= t /\ t < NextMidnight[d]
  BY <1>1 DEF DayPoints
<1>3. Candidates(h, d) \subseteq Stored(h)
  BY DEF Candidates, Preceding, DayPoints
<1>4. ASSUME NEW s \in Lag(Stored(h), t)
      PROVE  s \in Lag(Candidates(h, d), t)
  <2>1. s \in Stored(h) /\ s < t /\ \A r \in Stored(h) : r < t => r <= s
    BY <1>4 DEF Lag
  <2>2. CASE d <= s
    BY <2>1, <2>2, <1>1, <1>2, <1>3 DEF Lag, Candidates, DayPoints
  <2>3. CASE s < d
    BY <2>1, <2>3, <1>1, <1>2, <1>3 DEF Lag, Candidates, Preceding
  <2> QED  BY <2>1, <2>2, <2>3, <1>1
<1>5. ASSUME NEW s \in Lag(Candidates(h, d), t)
      PROVE  s \in Lag(Stored(h), t)
  <2>1. s \in Stored(h) /\ s < t /\ \A r \in Candidates(h, d) : r < t => r <= s
    BY <1>5, <1>3 DEF Lag
  <2>2. ASSUME NEW r \in Stored(h), r < t
        PROVE  r <= s
    <3>1. CASE d <= r
      BY <2>1, <2>2, <3>1, <1>1, <1>2 DEF Candidates, DayPoints
    <3>2. CASE r < d /\ d <= s
      BY <3>2, <1>1, <2>1
    <3>3. CASE r < d /\ s < d
      <4>1. s \in Preceding(h, d)
        BY <1>1, <2>1, <3>3, <1>5 DEF Lag, Candidates, DayPoints
      <4> QED  BY <4>1, <3>3, <2>2 DEF Preceding
    <3> QED  BY <3>1, <3>2, <3>3, <1>1, <2>1
  <2> QED  BY <2>1, <2>2 DEF Lag
<1> QED  BY <1>4, <1>5

\* What Rebuild writes for a day, from a window and a bounded candidate set, is
\* what the whole history makes of that day.
THEOREM RebuildExact ==
  ASSUME NEW h \in History, NEW d \in Day
  PROVE  Rebuild(h, d) = DayStat(h, d)
<1>1. DayPoints(h, d) = PointsOn(h, d)
  BY DayPointsExact
<1>2. Candidates(h, d) \subseteq Stored(h)
  BY DEF Candidates, Preceding, DayPoints
<1>3. Hops(Candidates(h, d), DayPoints(h, d)) = Hops(Stored(h), DayPoints(h, d))
  <2>1. \A t \in DayPoints(h, d) : /\ Lag(Candidates(h, d), t) = Lag(Stored(h), t)
                                   /\ Lag(Candidates(h, d), t) \subseteq Candidates(h, d)
    BY LagExact DEF Lag
  <2> QED  BY <2>1, <1>2 DEF Hops
<1> QED  BY <1>1, <1>3 DEF Rebuild, DayStat

-----------------------------------------------------------------------------

\* The days of the touched timestamps are affected; so is the day of the point
\* that follows a day's latest touch.
LEMMA AffectedByTouch ==
  ASSUME NEW h \in History, NEW touched \in SUBSET Time, NEW x \in touched
  PROVE  Midnight[x] \in affectedDays(h, touched)
BY DEF affectedDays

\* The day of the point that follows a day's latest touch is affected.
LEMMA AffectedByNext ==
  ASSUME NEW h \in History, NEW touched \in SUBSET Time,
         NEW y \in LatestTouched(touched), NEW t \in NextTimestamp(h, y)
  PROVE  Midnight[t] \in affectedDays(h, touched)
<1>1. t \in UNION {NextTimestamp(h, x) : x \in LatestTouched(touched)}
  OBVIOUS
<1> QED  BY <1>1 DEF affectedDays

\* If s and t follow each other directly, before or after the change, and t's
\* day is unaffected, the change touched nothing from s to t.
LEMMA NoTouchBetween ==
  ASSUME NEW h \in History, NEW h2 \in History, NEW touched \in SUBSET Time,
         \A x \in Time \ touched : h2[x] = h[x],
         NEW s \in Time, NEW t \in Stored(h2), s < t,
         Midnight[t] \notin affectedDays(h2, touched),
         \/ \A r \in Stored(h)  : ~ (s < r /\ r < t)
         \/ \A r \in Stored(h2) : ~ (s < r /\ r < t)
  PROVE  \A x \in touched : ~ (s <= x /\ x <= t)
<1> USE TimeAssumption
<1> SUFFICES ASSUME NEW x \in touched, s <= x, x <= t
             PROVE  FALSE
  OBVIOUS
<1>1. t \in Time /\ t \in Int /\ s \in Int /\ x \in Int
  BY DEF Stored
<1>2. t \notin touched
  BY AffectedByTouch
<1>3. x < t
  BY <1>1, <1>2
<1>4. PICK y \in touched : y < t /\ \A z \in touched : z < t => z <= y
  <2> DEFINE S == {z \in touched : z < t}
  <2>1. S \in SUBSET Int /\ S # {} /\ \A z \in S : z < t
    BY <1>3
  <2>2. PICK m \in S : \A z \in S : z <= m
    <3> HIDE DEF S
    <3> QED  BY <1>1, <2>1, GreatestBelow
  <2> QED  BY <2>2
<1>5. y \in Time /\ y \in Int /\ s <= y
  BY <1>1, <1>3, <1>4
<1>6. y \in LatestTouched(touched)
  <2>1. ASSUME NEW z \in touched, Midnight[z] = Midnight[y]
        PROVE  z <= y
    <3>1. z \in Time /\ z \in Int
      OBVIOUS
    <3>2. CASE t <= z
      <4>1. Midnight[t] <= Midnight[z] /\ Midnight[y] <= Midnight[t]
        BY <1>1, <1>4, <1>5, <3>1, <3>2, DayOrder
      <4>2. Midnight[t] \in Int /\ Midnight[y] \in Int
        BY <1>1, <1>5, ZoneAssumption
      <4>3. Midnight[t] = Midnight[y]
        BY <4>1, <4>2, <2>1
      <4> QED  BY <4>3, AffectedByTouch
    <3> QED  BY <3>1, <3>2, <1>1, <1>4
  <2> QED  BY <2>1 DEF LatestTouched
<1>7. t \in NextTimestamp(h2, y)
  <2>1. ASSUME NEW r \in Stored(h2), r > y
        PROVE  t <= r
    <3> SUFFICES ASSUME r < t PROVE FALSE
      BY <1>1 DEF Stored
    <3>1. r \in Time /\ r \in Int /\ s < r
      BY <1>1, <1>5, <2>1 DEF Stored
    <3>2. r \notin touched
      BY <1>4, <1>5, <2>1, <3>1
    <3>3. r \in Stored(h)
      BY <3>1, <3>2 DEF Stored
    <3> QED  BY <3>1, <3>3
  <2> QED  BY <1>4, <2>1 DEF NextTimestamp
<1> QED  BY <1>6, <1>7, AffectedByNext

\* A change leaves the points and the segments of every unaffected day alone.
THEOREM UnaffectedDay ==
  ASSUME NEW h \in History, NEW h2 \in History, NEW touched \in SUBSET Time,
         \A x \in Time \ touched : h2[x] = h[x],
         NEW d \in Day, d \notin affectedDays(h2, touched)
  PROVE  DayStat(h2, d) = DayStat(h, d)
<1> USE TimeAssumption
<1>1. \A t \in Time : Midnight[t] = d => t \notin touched /\ h2[t] = h[t]
  BY AffectedByTouch
<1>2. PointsOn(h2, d) = PointsOn(h, d)
  BY <1>1 DEF PointsOn, Stored
<1>3. ASSUME NEW t \in PointsOn(h, d), NEW s \in Lag(Stored(h), t)
      PROVE  s \in Lag(Stored(h2), t) /\ h2[s] = h[s]
  <2>1. t \in Stored(h2) /\ Midnight[t] = d /\ t \in Time
    BY <1>2, <1>3 DEF PointsOn, Stored
  <2>2. s \in Time /\ s < t /\ s \in Stored(h)
    BY <1>3 DEF Lag, Stored
  <2>3. ASSUME NEW r \in Stored(h), s < r, r < t
        PROVE  FALSE
    <3>1. r <= s
      BY <1>3, <2>3 DEF Lag
    <3>2. r \in Int /\ s \in Int
      BY <2>2 DEF Stored
    <3> QED  BY <2>3, <3>1, <3>2
  <2>4. \A x \in touched : ~ (s <= x /\ x <= t)
    BY <2>1, <2>2, <2>3, NoTouchBetween
  <2>5. \A x \in Time : s <= x /\ x <= t => h2[x] = h[x]
    BY <2>4
  <2>6. h2[s] = h[s] /\ s \in Stored(h2)
    BY <2>1, <2>2, <2>5 DEF Stored
  <2>7. ASSUME NEW r \in Stored(h2), r < t
        PROVE  r <= s
    <3>1. r \in Time /\ r \in Int /\ s \in Int /\ t \in Int /\ h2[r] # NoPos
      BY <2>1, <2>2 DEF Stored
    <3>2. s < r => r \in Stored(h)
      BY <2>5, <2>7, <3>1 DEF Stored
    <3> QED  BY <2>3, <2>7, <3>1, <3>2
  <2> QED  BY <2>2, <2>6, <2>7 DEF Lag
<1>4. ASSUME NEW t \in PointsOn(h, d), NEW s \in Lag(Stored(h2), t)
      PROVE  s \in Lag(Stored(h), t)
  <2>1. t \in Stored(h2) /\ Midnight[t] = d /\ t \in Time
    BY <1>2, <1>4 DEF PointsOn, Stored
  <2>2. s \in Time /\ s < t /\ s \in Stored(h2)
    BY <1>4 DEF Lag, Stored
  <2>3. ASSUME NEW r \in Stored(h2), s < r, r < t
        PROVE  FALSE
    <3>1. r <= s
      BY <1>4, <2>3 DEF Lag
    <3>2. r \in Int /\ s \in Int
      BY <2>2 DEF Stored
    <3> QED  BY <2>3, <3>1, <3>2
  <2>4. \A x \in touched : ~ (s <= x /\ x <= t)
    BY <2>1, <2>2, <2>3, NoTouchBetween
  <2>5. \A x \in Time : s <= x /\ x <= t => h2[x] = h[x]
    BY <2>4
  <2>6. s \in Stored(h)
    BY <2>1, <2>2, <2>5 DEF Stored
  <2>7. ASSUME NEW r \in Stored(h), r < t
        PROVE  r <= s
    <3>1. r \in Time /\ r \in Int /\ s \in Int /\ t \in Int /\ h[r] # NoPos
      BY <2>1, <2>2 DEF Stored
    <3>2. s < r => r \in Stored(h2)
      BY <2>5, <2>7, <3>1 DEF Stored
    <3> QED  BY <2>3, <2>7, <3>1, <3>2
  <2> QED  BY <2>2, <2>6, <2>7 DEF Lag
<1>5. \A t \in PointsOn(h, d) : /\ Lag(Stored(h2), t) = Lag(Stored(h), t)
                                /\ Lag(Stored(h), t) \subseteq Stored(h)
                                /\ Lag(Stored(h2), t) \subseteq Stored(h2)
  BY <1>3, <1>4 DEF Lag
<1>6. Hops(Stored(h2), PointsOn(h, d)) = Hops(Stored(h), PointsOn(h, d))
  BY <1>5 DEF Hops
<1>7. \A st \in Hops(Stored(h), PointsOn(h, d)) : h2[st[1]] = h[st[1]] /\ h2[st[2]] = h[st[2]]
  <2>1. \A t \in PointsOn(h, d) : h2[t] = h[t]
    BY <1>1 DEF PointsOn, Stored
  <2> QED  BY <1>3, <2>1 DEF Hops
<1>8. Segments(h2, Hops(Stored(h), PointsOn(h, d)))
        = Segments(h, Hops(Stored(h), PointsOn(h, d)))
  BY <1>7 DEF Segments
<1> QED  BY <1>2, <1>6, <1>8 DEF DayStat

-----------------------------------------------------------------------------
(* Types *)

\* A missing row is well typed.
LEMMA NoRowType == NoRow \in Row
BY DEF NoRow, Row

\* What the history makes of a day is well typed.
LEMMA DayStatType ==
  ASSUME NEW h \in History, NEW d \in Day
  PROVE  DayStat(h, d) \in Row
<1>1. PointsOn(h, d) \in SUBSET Time /\ Stored(h) \in SUBSET Time
  BY DEF PointsOn, Stored
<1>2. \A t \in Stored(h) : h[t] \in Pos
  BY DEF Stored, History
<1>3. PointsOn(h, d) \subseteq Stored(h)
  BY DEF PointsOn
<1>4. \A st \in Hops(Stored(h), PointsOn(h, d)) : st[1] \in Stored(h) /\ st[2] \in Stored(h)
  BY <1>3 DEF Hops
<1>5. \A st \in Hops(Stored(h), PointsOn(h, d)) :
        <<st[1], h[st[1]], st[2], h[st[2]]>> \in Time \X Pos \X Time \X Pos
  BY <1>1, <1>2, <1>4
<1>6. Segments(h, Hops(Stored(h), PointsOn(h, d))) \in SUBSET (Time \X Pos \X Time \X Pos)
  BY <1>5 DEF Segments
<1> QED  BY <1>1, <1>6 DEF DayStat, Row

\* A day without points has no row.
LEMMA EmptyDay ==
  ASSUME NEW h \in History, NEW d \in Day, PointsOn(h, d) = {}
  PROVE  DayStat(h, d) = NoRow
<1>1. Hops(Stored(h), {}) = {}
  BY DEF Hops
<1>2. Segments(h, {}) = {}
  BY DEF Segments
<1> QED  BY <1>1, <1>2 DEF DayStat, NoRow

\* rebuildAffectedDays brings the rows from the old history to the new one:
\* what was current is current, what was missing is missing or current.
LEMMA RowsFollow ==
  ASSUME NEW h \in History, NEW h2 \in History, NEW touched \in SUBSET Time,
         \A x \in Time \ touched : h2[x] = h[x],
         NEW rows \in [Day -> Row], NEW d \in Day
  PROVE  LET after == rebuildAffectedDays(rows, h2, touched)
         IN  /\ after \in [Day -> Row]
             /\ rows[d] \in {NoRow, DayStat(h, d)} => after[d] \in {NoRow, DayStat(h2, d)}
             /\ rows[d] = DayStat(h, d) => after[d] = DayStat(h2, d)
<1> DEFINE after == rebuildAffectedDays(rows, h2, touched)
<1>1. after = [e \in Day |-> IF e \in affectedDays(h2, touched) THEN DayStat(h2, e) ELSE rows[e]]
  BY RebuildExact DEF rebuildAffectedDays
<1>2. after \in [Day -> Row]
  BY <1>1, DayStatType
<1>3. CASE d \in affectedDays(h2, touched)
  BY <1>1, <1>2, <1>3
<1>4. CASE d \notin affectedDays(h2, touched)
  <2>1. DayStat(h2, d) = DayStat(h, d)
    BY <1>4, UnaffectedDay
  <2> QED  BY <1>1, <1>2, <1>4, <2>1
<1> QED  BY <1>3, <1>4

\* recalculateUser makes missing rows current and keeps those that are.
LEMMA RowsRecalculated ==
  ASSUME NEW h \in History, NEW rows \in [Day -> Row],
         \A d \in Day : rows[d] \in {NoRow, DayStat(h, d)}
  PROVE  recalculateUser(rows, h) = [d \in Day |-> DayStat(h, d)]
<1>1. ASSUME NEW d \in Day, ~ \E t \in Stored(h) : Midnight[t] = d
      PROVE  rows[d] = DayStat(h, d)
  <2>1. PointsOn(h, d) = {}
    BY <1>1 DEF PointsOn
  <2> QED  BY <2>1, EmptyDay
<1> QED  BY <1>1, RebuildExact DEF recalculateUser

-----------------------------------------------------------------------------

\* IngestInit gives every variable its type, and every step keeps it.
LEMMA MutateType ==
  ASSUME IngestTypeOK, NEW u \in User, NEW h \in History, NEW touched \in SUBSET Time,
         \A x \in Time \ touched : h[x] = points[u][x],
         Mutate(u, h, touched)
  PROVE  IngestTypeOK'
<1>1. points' \in [User -> History]
  BY DEF IngestTypeOK, TablesType, Mutate
<1>2. daily_stats' \in [User -> [Day -> Row]]
  <2>1. points[u] \in History /\ daily_stats[u] \in [Day -> Row]
    BY DEF IngestTypeOK, TablesType
  <2>2. rebuildAffectedDays(daily_stats[u], h, touched) \in [Day -> Row]
    <3>1. \A d \in Day : Rebuild(h, d) \in Row
      BY RebuildExact, DayStatType
    <3> QED  BY <2>1, <3>1 DEF rebuildAffectedDays
  <2> QED  BY <2>2 DEF IngestTypeOK, TablesType, Mutate
<1>3. jobs' \in Seq(User)
  BY DEF IngestTypeOK, TablesType, Mutate, Enqueue, Queued
<1> QED  BY <1>1, <1>2, <1>3 DEF IngestTypeOK, TablesType, Mutate, run

\* Every mutation of the server is a Mutate that changes touched points only.
LEMMA MutationIsMutate ==
  ASSUME IngestTypeOK, NEW u \in User,
         ingestLocations(u) \/ patchPoint(u) \/ deletePoint(u) \/ bulkDeletePoints(u)
  PROVE  \E h \in History, touched \in SUBSET Time :
           /\ \A x \in Time \ touched : h[x] = points[u][x]
           /\ Mutate(u, h, touched)
<1>0. points[u] \in History
  BY DEF IngestTypeOK, TablesType
<1>1. ASSUME NEW batch \in Batch, CreatePoints(u, batch)
      PROVE  \E h \in History, touched \in SUBSET Time :
               /\ \A x \in Time \ touched : h[x] = points[u][x]
               /\ Mutate(u, h, touched)
  <2>1. PICK times \in SUBSET Time : batch \in [times -> Pos]
    BY DEF Batch
  <2>2. Inserted(points[u], batch) \in History
    BY <1>0, <2>1 DEF Inserted, History
  <2>3. \A x \in Time \ times : Inserted(points[u], batch)[x] = points[u][x]
    BY <2>1 DEF Inserted
  <2>4. Mutate(u, Inserted(points[u], batch), times)
    BY <1>1, <2>1 DEF CreatePoints
  <2> QED  BY <2>2, <2>3, <2>4
<1>2. ASSUME NEW t \in Time, NEW pos \in Pos, UpdatePoint(u, t, pos)
      PROVE  \E h \in History, touched \in SUBSET Time :
               /\ \A x \in Time \ touched : h[x] = points[u][x]
               /\ Mutate(u, h, touched)
  <2>1. Moved(points[u], t, pos) \in History
    BY <1>0 DEF Moved, History
  <2>2. \A x \in Time \ {t} : Moved(points[u], t, pos)[x] = points[u][x]
    BY <1>0 DEF Moved, History
  <2>3. Mutate(u, Moved(points[u], t, pos), {t})
    BY <1>2 DEF UpdatePoint
  <2> QED  BY <2>1, <2>2, <2>3
<1>3. ASSUME NEW times \in SUBSET Time, Mutate(u, Removed(points[u], times), times)
      PROVE  \E h \in History, touched \in SUBSET Time :
               /\ \A x \in Time \ touched : h[x] = points[u][x]
               /\ Mutate(u, h, touched)
  <2>1. Removed(points[u], times) \in History
    BY <1>0 DEF Removed, History
  <2>2. \A x \in Time \ times : Removed(points[u], times)[x] = points[u][x]
    BY DEF Removed
  <2> QED  BY <1>3, <2>1, <2>2
<1>4. ASSUME NEW t \in Time, DeletePoint(u, t)
      PROVE  {t} \in SUBSET Time /\ Mutate(u, Removed(points[u], {t}), {t})
  BY <1>4 DEF DeletePoint
<1>5. ASSUME NEW ids \in SUBSET Time, DeletePoints(u, ids)
      PROVE  /\ ids \cap Stored(points[u]) \in SUBSET Time
             /\ Mutate(u, Removed(points[u], ids \cap Stored(points[u])),
                          ids \cap Stored(points[u]))
  BY <1>5 DEF DeletePoints
<1>6. CASE ingestLocations(u) \/ patchPoint(u)
  BY <1>1, <1>2, <1>6 DEF ingestLocations, patchPoint
<1>7. CASE deletePoint(u)
  BY <1>3, <1>4, <1>7 DEF deletePoint
<1>8. CASE bulkDeletePoints(u)
  BY <1>3, <1>5, <1>8 DEF bulkDeletePoints
<1> QED  BY <1>6, <1>7, <1>8

\* The state keeps its shape: histories, rows and queues are of their types.
THEOREM IngestTypeCorrect == IngestSpec => []IngestTypeOK
<1>1. IngestInit => IngestTypeOK
  BY NoRowType, RunAssumption DEF IngestInit, TablesInit, IngestTypeOK, TablesType, Row, NoHistory, History
<1>2. IngestTypeOK /\ [IngestNext]_ingestVars => IngestTypeOK'
  <2> SUFFICES ASSUME IngestTypeOK, [IngestNext]_ingestVars PROVE IngestTypeOK'
    OBVIOUS
  <2>1. CASE ServerStep
    BY <2>1, MutationIsMutate, MutateType DEF ServerStep
  <2>2. ASSUME NEW r \in Run, DeleteAll(r) PROVE IngestTypeOK'
    BY <2>2, NoRowType DEF DeleteAll, IngestTypeOK, TablesType, Row
  <2>3. ASSUME NEW r \in Run, ListUsers(r) PROVE IngestTypeOK'
    BY <2>3 DEF ListUsers, UserIDs, IngestTypeOK, TablesType, db
  <2>4. ASSUME NEW r \in Run, NEW u \in User, RecalculateUser(r, u) PROVE IngestTypeOK'
    <3>1. points[u] \in History /\ daily_stats[u] \in [Day -> Row]
      BY DEF IngestTypeOK, TablesType, Row
    <3>2. recalculateUser(daily_stats[u], points[u]) \in [Day -> Row]
      BY <3>1, RebuildExact, DayStatType DEF recalculateUser
    <3>3. daily_stats' \in [User -> [Day -> Row]]
      BY <2>4, <3>2 DEF RecalculateUser, IngestTypeOK, TablesType, Row
    <3> QED  BY <2>4, <3>3 DEF RecalculateUser, IngestTypeOK, TablesType, Row
  <2>5. ASSUME NEW r \in Run, Finish(r) PROVE IngestTypeOK'
    BY <2>5 DEF Finish, IngestTypeOK, TablesType, db
  <2>6. ASSUME NEW r \in Run, Interrupt(r) PROVE IngestTypeOK'
    BY <2>6 DEF Interrupt, IngestTypeOK, TablesType, db
  <2>7. CASE Claim
    BY <2>7 DEF Claim, IngestTypeOK, TablesType, run
  <2>8. CASE UNCHANGED ingestVars
    BY <2>8 DEF ingestVars, IngestTypeOK, TablesType
  <2> QED  BY <2>1, <2>2, <2>3, <2>4, <2>5, <2>6, <2>7, <2>8 DEF IngestNext, RunStep
<1> QED  BY <1>1, <1>2, PTL DEF IngestSpec

-----------------------------------------------------------------------------

IngestInv == IngestTypeOK /\ RowsSound /\ RowsComplete /\ RerunRecovers

\* A mutation keeps each user's rows as sound and as complete as they were.
LEMMA MutatePreserves ==
  ASSUME IngestInv, NEW u \in User, NEW h \in History, NEW touched \in SUBSET Time,
         \A x \in Time \ touched : h[x] = points[u][x],
         Mutate(u, h, touched)
  PROVE  IngestInv'
<1> USE DEF IngestInv
<1>1. IngestTypeOK'
  BY MutateType
<1>2. /\ points[u] \in History /\ points' = [points EXCEPT ![u] = h]
      /\ daily_stats[u] \in [Day -> Row]
      /\ daily_stats' = [daily_stats EXCEPT
                           ![u] = rebuildAffectedDays(daily_stats[u], h, touched)]
      /\ UNCHANGED <<pc, userIDs, owed, lastDelete>>
  BY DEF IngestTypeOK, TablesType, Mutate, run
<1>3. \A v \in User \ {u} : points'[v] = points[v] /\ daily_stats'[v] = daily_stats[v]
  BY <1>2 DEF IngestTypeOK, TablesType
<1>4. points'[u] = h /\ daily_stats'[u] = rebuildAffectedDays(daily_stats[u], h, touched)
  BY <1>2 DEF IngestTypeOK, TablesType
<1>5. ASSUME NEW d \in Day
      PROVE  /\ daily_stats'[u][d] \in {NoRow, DayStat(points'[u], d)}
             /\ u \notin owed => daily_stats'[u][d] = DayStat(points'[u], d)
  <2>1. /\ daily_stats[u][d] \in {NoRow, DayStat(points[u], d)}
        /\ u \notin owed => daily_stats[u][d] = DayStat(points[u], d)
    BY DEF RowsSound, RowsComplete
  <2> DEFINE old == points[u]
             rows == daily_stats[u]
  <2>2. old \in History /\ rows \in [Day -> Row] /\ \A x \in Time \ touched : h[x] = old[x]
    BY <1>2
  <2>3. LET after == rebuildAffectedDays(rows, h, touched)
        IN  /\ rows[d] \in {NoRow, DayStat(old, d)} => after[d] \in {NoRow, DayStat(h, d)}
            /\ rows[d] = DayStat(old, d) => after[d] = DayStat(h, d)
    <3> HIDE DEF old, rows
    <3> QED  BY <2>2, RowsFollow
  <2> QED  BY <1>2, <1>4, <2>1, <2>3
<1>6. RowsSound'
  <2> SUFFICES ASSUME NEW v \in User, NEW d \in Day
               PROVE  daily_stats'[v][d] \in {NoRow, DayStat(points'[v], d)}
    BY DEF RowsSound
  <2> QED  BY <1>3, <1>5 DEF RowsSound
<1>7. RowsComplete'
  <2> SUFFICES ASSUME NEW v \in User \ owed, NEW d \in Day
               PROVE  daily_stats'[v][d] = DayStat(points'[v], d)
    BY <1>2 DEF RowsComplete
  <2> QED  BY <1>3, <1>5 DEF RowsComplete
<1>8. RerunRecovers'
  BY <1>2 DEF RerunRecovers, Outstanding
<1> QED  BY <1>1, <1>6, <1>7, <1>8

\* The empty database satisfies the safety invariants.
LEMMA RowsAtInit == IngestInit => RowsSound /\ RowsComplete /\ RerunRecovers
<1> SUFFICES ASSUME IngestInit PROVE RowsSound /\ RowsComplete /\ RerunRecovers
  OBVIOUS
<1>1. ASSUME NEW d \in Day
      PROVE  DayStat(NoHistory, d) = NoRow
  <2>1. NoHistory \in History /\ PointsOn(NoHistory, d) = {}
    BY DEF NoHistory, History, PointsOn, Stored
  <2> QED  BY <2>1, EmptyDay
<1>2. RowsSound /\ RowsComplete
  BY <1>1 DEF IngestInit, TablesInit, RowsSound, RowsComplete
<1>3. RerunRecovers
  BY DEF IngestInit, TablesInit, RerunRecovers
<1> QED  BY <1>2, <1>3

\* Steps of a recalculation, one lemma each.
LEMMA DeleteAllPreserves ==
  ASSUME IngestInv, IngestTypeOK', NEW r \in Run, DeleteAll(r)
  PROVE  IngestInv'
<1>1. RowsSound' /\ RowsComplete'
  BY DEF DeleteAll, IngestInv, IngestTypeOK, TablesType, RowsSound, RowsComplete
<1>2. lastDelete' = r /\ pc'[r] = "listing" /\ owed' = User /\ r # NoRun
  BY RunAssumption DEF DeleteAll, IngestInv, IngestTypeOK, TablesType
<1>3. RerunRecovers'
  BY <1>2 DEF RerunRecovers, Outstanding
<1> QED  BY <1>1, <1>3 DEF IngestInv

\* Listing the users drops nobody who has points: IngestInv is kept.
LEMMA ListUsersPreserves ==
  ASSUME IngestInv, IngestTypeOK', NEW r \in Run, ListUsers(r)
  PROVE  IngestInv'
<1>1. UNCHANGED <<points, daily_stats, jobs, lastDelete>> /\ owed' = owed \cap UserIDs
  BY DEF ListUsers, db
<1>2. RowsSound'
  BY <1>1 DEF IngestInv, RowsSound
<1>3. RowsComplete'
  <2> SUFFICES ASSUME NEW u \in User, u \notin owed \/ u \notin UserIDs, NEW d \in Day
               PROVE  daily_stats[u][d] = DayStat(points[u], d)
    BY <1>1 DEF RowsComplete
  <2>1. CASE u \notin owed
    BY <2>1 DEF IngestInv, RowsComplete
  <2>2. CASE u \notin UserIDs
    <3>1. points[u] \in History /\ PointsOn(points[u], d) = {}
      BY <2>2 DEF UserIDs, PointsOn, IngestInv, IngestTypeOK, TablesType
    <3>2. DayStat(points[u], d) = NoRow
      BY <3>1, EmptyDay
    <3> QED  BY <3>2 DEF IngestInv, RowsSound
  <2> QED  BY <2>1, <2>2
<1>4. RerunRecovers'
  <2>1. /\ pc[r] = "listing" /\ pc' = [pc EXCEPT ![r] = "rebuilding"]
        /\ userIDs' = [userIDs EXCEPT ![r] = UserIDs]
    BY DEF ListUsers
  <2> QED  BY <1>1, <2>1, RunAssumption DEF IngestInv, IngestTypeOK, TablesType, RerunRecovers, Outstanding
<1> QED  BY <1>2, <1>3, <1>4 DEF IngestInv

\* Rebuilding one user settles what was owed to that user: IngestInv is kept.
LEMMA RecalculateUserPreserves ==
  ASSUME IngestInv, IngestTypeOK', NEW r \in Run, NEW u \in User, RecalculateUser(r, u)
  PROVE  IngestInv'
<1>1. /\ UNCHANGED <<points, pc, lastDelete>> /\ owed' = owed \ {u}
      /\ userIDs' = [userIDs EXCEPT ![r] = @ \ {u}] /\ pc[r] = "rebuilding"
      /\ daily_stats' = [daily_stats EXCEPT ![u] = recalculateUser(daily_stats[u], points[u])]
  BY DEF RecalculateUser
<1>2. recalculateUser(daily_stats[u], points[u]) = [d \in Day |-> DayStat(points[u], d)]
  BY RowsRecalculated DEF IngestInv, IngestTypeOK, TablesType, RowsSound
<1>3. \A d \in Day : daily_stats'[u][d] = DayStat(points[u], d)
  BY <1>1, <1>2 DEF IngestInv, IngestTypeOK, TablesType
<1>4. \A v \in User \ {u} : daily_stats'[v] = daily_stats[v]
  BY <1>1 DEF IngestInv, IngestTypeOK, TablesType
<1>5. RowsSound'
  <2> SUFFICES ASSUME NEW v \in User, NEW d \in Day
               PROVE  daily_stats'[v][d] \in {NoRow, DayStat(points[v], d)}
    BY <1>1 DEF RowsSound
  <2> QED  BY <1>3, <1>4 DEF IngestInv, RowsSound
<1>6. RowsComplete'
  <2> SUFFICES ASSUME NEW v \in User, v = u \/ v \notin owed, NEW d \in Day
               PROVE  daily_stats'[v][d] = DayStat(points[v], d)
    BY <1>1 DEF RowsComplete
  <2> QED  BY <1>3, <1>4 DEF IngestInv, RowsComplete
<1>7. RerunRecovers'
  BY <1>1, RunAssumption DEF IngestInv, IngestTypeOK, TablesType, RerunRecovers, Outstanding
<1> QED  BY <1>5, <1>6, <1>7 DEF IngestInv

\* A run that finishes or is interrupted keeps IngestInv.
LEMMA RunEndPreserves ==
  ASSUME IngestInv, IngestTypeOK', NEW r \in Run, Finish(r) \/ Interrupt(r)
  PROVE  IngestInv'
<1>1. UNCHANGED <<points, daily_stats, owed, lastDelete>>
  BY DEF Finish, Interrupt, db
<1>2. RowsSound' /\ RowsComplete'
  BY <1>1 DEF IngestInv, RowsSound, RowsComplete
<1>3. RerunRecovers'
  <2>1. CASE Finish(r)
    BY <1>1, <2>1, RunAssumption DEF Finish, IngestInv, IngestTypeOK, TablesType, RerunRecovers, Outstanding
  <2>2. CASE Interrupt(r)
    BY <1>1, <2>2, RunAssumption DEF Interrupt, IngestInv, IngestTypeOK, TablesType, RerunRecovers, Outstanding
  <2> QED  BY <2>1, <2>2
<1> QED  BY <1>2, <1>3 DEF IngestInv

\* The inductive invariant of internal/ingest and recalculate holds in every
\* reachable state.
THEOREM IngestInvariant == IngestSpec => []IngestInv
<1>1. IngestInit => IngestInv
  <2>1. IngestInit => IngestTypeOK
    BY NoRowType, RunAssumption DEF IngestInit, TablesInit, IngestTypeOK, TablesType, Row, NoHistory, History
  <2> QED  BY <2>1, RowsAtInit DEF IngestInv
<1>2. IngestInv /\ IngestTypeOK' /\ [IngestNext]_ingestVars => IngestInv'
  <2> SUFFICES ASSUME IngestInv, IngestTypeOK', [IngestNext]_ingestVars PROVE IngestInv'
    OBVIOUS
  <2>1. CASE ServerStep
    BY <2>1, MutationIsMutate, MutatePreserves DEF ServerStep, IngestInv
  <2>2. ASSUME NEW r \in Run, DeleteAll(r) PROVE IngestInv'
    BY <2>2, DeleteAllPreserves
  <2>3. ASSUME NEW r \in Run, RunStep(r) PROVE IngestInv'
    BY <2>3, ListUsersPreserves, RecalculateUserPreserves, RunEndPreserves DEF RunStep
  <2>4. ASSUME NEW r \in Run, Interrupt(r) PROVE IngestInv'
    BY <2>4, RunEndPreserves
  <2>5. CASE UNCHANGED ingestVars
    BY <2>5 DEF ingestVars, IngestInv, IngestTypeOK, TablesType, RowsSound, RowsComplete, RerunRecovers, Outstanding
  <2>6. CASE Claim
    BY <2>6 DEF Claim, run, IngestInv, RowsSound, RowsComplete, RerunRecovers, Outstanding
  <2> QED  BY <2>1, <2>2, <2>3, <2>4, <2>5, <2>6 DEF IngestNext
<1> QED  BY <1>1, <1>2, IngestTypeCorrect, PTL DEF IngestSpec

\* No daily_stats row is ever stale, whatever the server and any number of
\* recalculations do and wherever those are interrupted.
THEOREM RowsAlwaysSound == IngestSpec => []RowsSound
<1>1. IngestInv => RowsSound
  BY DEF IngestInv
<1> QED  BY <1>1, IngestInvariant, PTL

\* No daily_stats row is missing for a user no recalculation owes one.
THEOREM RowsAlwaysComplete == IngestSpec => []RowsComplete
<1>1. IngestInv => RowsComplete
  BY DEF IngestInv
<1> QED  BY <1>1, IngestInvariant, PTL

\* Running recalculate again recovers from any interruption.
THEOREM RerunAlwaysRecovers == IngestSpec => []RerunRecovers
<1>1. IngestInv => RerunRecovers
  BY DEF IngestInv
<1> QED  BY <1>1, IngestInvariant, PTL

-----------------------------------------------------------------------------
(* What is read from the rows *)

Travelled(h, times) == Segments(h, Hops(Stored(h), times))

\* A segment ends at one of the points travelled to, and starts at the one before.
LEMMA SegmentOf ==
  ASSUME NEW h \in History, NEW times \in SUBSET Stored(h), NEW x
  PROVE  x \in Travelled(h, times)
           <=> \E s \in Time, t \in times :
                 s \in Lag(Stored(h), t) /\ t - s <= TrackBreak /\ x = <<s, h[s], t, h[t]>>
<1> DEFINE seg(s, t) == <<s, h[s], t, h[t]>>
<1>1. Travelled(h, times) = {seg(st[1], st[2]) : st \in Hops(Stored(h), times)}
  BY DEF Travelled, Segments
<1>2. ASSUME NEW st \in Hops(Stored(h), times), x = seg(st[1], st[2])
      PROVE  \E s \in Time, t \in times :
               s \in Lag(Stored(h), t) /\ t - s <= TrackBreak /\ x = seg(s, t)
  <2>1. st[1] \in Time /\ st[2] \in times /\ st[1] \in Lag(Stored(h), st[2]) /\ st[2] - st[1] <= TrackBreak
    BY DEF Hops, Stored
  <2> HIDE DEF seg
  <2> QED  BY <1>2, <2>1
<1>3. ASSUME NEW s \in Time, NEW t \in times,
             s \in Lag(Stored(h), t), t - s <= TrackBreak, x = seg(s, t)
      PROVE  \E st \in Hops(Stored(h), times) : x = seg(st[1], st[2])
  <2>1. <<s, t>> \in Hops(Stored(h), times)
    BY <1>3 DEF Hops, Lag
  <2>2. <<s, t>>[1] = s /\ <<s, t>>[2] = t
    OBVIOUS
  <2> HIDE DEF seg
  <2> QED  BY <1>3, <2>1, <2>2
<1> HIDE DEF seg
<1>4. x \in Travelled(h, times) <=> \E st \in Hops(Stored(h), times) : x = seg(st[1], st[2])
  BY <1>1
<1>5. x \in Travelled(h, times)
        <=> \E s \in Time, t \in times :
              s \in Lag(Stored(h), t) /\ t - s <= TrackBreak /\ x = seg(s, t)
  BY <1>2, <1>3, <1>4
<1> QED  BY <1>5 DEF seg

\* A segment is in the row of the day it ends in, and in no other, so the km of
\* any days are the segments that end in them, each added once.
LEMMA EachSegmentOnce ==
  ASSUME NEW h \in History, NEW rows, NEW D \in SUBSET Day,
         \A d \in D : rows[d] = DayStat(h, d)
  PROVE  Kilometres(rows, D) = Once(Travelled(h, {t \in Stored(h) : Midnight[t] \in D}))
<1> DEFINE T == {t \in Stored(h) : Midnight[t] \in D}
           seg(s, t) == <<s, h[s], t, h[t]>>
           Hop(s, t) == t \in Stored(h) /\ s \in Lag(Stored(h), t) /\ t - s <= TrackBreak
<1>0. \A d \in D : rows[d].km = Travelled(h, PointsOn(h, d))
  <2>1. \A d \in D : DayStat(h, d).km = Travelled(h, PointsOn(h, d))
    BY DEF DayStat, Travelled
  <2> QED  BY <2>1
<1>1. \A d \in D : \A x : x \in rows[d].km
        <=> \E s \in Time, t \in Time : Hop(s, t) /\ Midnight[t] = d /\ x = seg(s, t)
  <2> SUFFICES ASSUME NEW d \in D, NEW x
               PROVE  x \in Travelled(h, PointsOn(h, d))
                        <=> \E s \in Time, t \in Time : Hop(s, t) /\ Midnight[t] = d /\ x = seg(s, t)
    BY <1>0
  <2>1. PointsOn(h, d) = {t \in Stored(h) : Midnight[t] = d} /\ Stored(h) \subseteq Time
    BY DEF PointsOn, Stored
  <2>2. x \in Travelled(h, PointsOn(h, d))
          <=> \E s \in Time, t \in PointsOn(h, d) :
                s \in Lag(Stored(h), t) /\ t - s <= TrackBreak /\ x = seg(s, t)
    BY <2>1, SegmentOf
  <2> HIDE DEF seg
  <2> QED  BY <2>1, <2>2
<1>2. \A x : x \in Travelled(h, T)
        <=> \E s \in Time, t \in Time : Hop(s, t) /\ Midnight[t] \in D /\ x = seg(s, t)
  <2> SUFFICES ASSUME NEW x
               PROVE  x \in Travelled(h, T)
                        <=> \E s \in Time, t \in Time : Hop(s, t) /\ Midnight[t] \in D /\ x = seg(s, t)
    OBVIOUS
  <2>1. Stored(h) \subseteq Time /\ T \subseteq Stored(h)
    BY DEF Stored
  <2>2. x \in Travelled(h, T)
          <=> \E s \in Time, t \in T :
                s \in Lag(Stored(h), t) /\ t - s <= TrackBreak /\ x = seg(s, t)
    BY <2>1, SegmentOf
  <2> HIDE DEF seg
  <2> QED  BY <2>1, <2>2
<1>3. \A s1, t1, s2, t2 : seg(s1, t1) = seg(s2, t2) => t1 = t2
  OBVIOUS
<1> HIDE DEF seg, Hop, T
<1>4. UNION {rows[d].km : d \in D} = Travelled(h, T)
  BY <1>1, <1>2
<1>5. ASSUME NEW x \in Travelled(h, T)
      PROVE  Cardinality({d \in D : x \in rows[d].km}) = 1
  <2>1. PICK s \in Time, t \in Time : Hop(s, t) /\ Midnight[t] \in D /\ x = seg(s, t)
    BY <1>2, <1>5
  <2>2. {d \in D : x \in rows[d].km} = {Midnight[t]}
    BY <1>1, <1>3, <2>1
  <2> QED  BY <2>2, FS_Singleton
<1> QED  BY <1>4, <1>5 DEF Kilometres, Once, T

\* There are as many timestamps as the bounds of the column leave.
LEMMA TimeFinite == IsFiniteSet(Time)
<1>1. IsFiniteSet(MinTime .. MaxTime)
  BY BoundsAssumption, FS_Interval
<1>2. Time \in SUBSET (MinTime .. MaxTime)
  BY TimeAssumption, BoundsAssumption
<1> QED  BY <1>1, <1>2, FS_Subset

\* Days count each of their points once, so their sum is the number of points.
LEMMA EachPointOnce ==
  ASSUME NEW h \in History, NEW rows,
         \A d \in All(rows) : rows[d] = DayStat(h, d)
  PROVE  totalPoints(rows) = Cardinality({t \in Stored(h) : Midnight[t] \in All(rows)})
<1> DEFINE T == {t \in Stored(h) : Midnight[t] \in All(rows)}
           P == {dt \in All(rows) \X Time : dt[2] \in rows[dt[1]].points}
           f == [t \in T |-> <<Midnight[t], t>>]
<1>1. \A d \in All(rows) : rows[d].points = {t \in Stored(h) : Midnight[t] = d}
  <2>1. \A d \in All(rows) : DayStat(h, d).points = {t \in Stored(h) : Midnight[t] = d}
    BY DEF DayStat, PointsOn
  <2> QED  BY <2>1
<1>2. IsFiniteSet(T)
  BY TimeFinite, FS_Subset DEF Stored
<1>3. f \in Bijection(T, P)
  <2>1. \A t \in T : <<Midnight[t], t>> \in P
    BY <1>1 DEF Stored
  <2>2. f \in Injection(T, P)
    BY <2>1 DEF Injection, IsInjective
  <2>3. \A x \in P : x[2] \in T /\ f[x[2]] = x
    BY <1>1
  <2>4. f \in Surjection(T, P)
    <3> HIDE DEF f, P, T
    <3> QED  BY <2>2, <2>3 DEF Surjection, Injection
  <2> QED  BY <2>2, <2>4 DEF Bijection
<1>4. ExistsBijection(T, P)
  BY <1>3 DEF ExistsBijection
<1> HIDE DEF T, P, f
<1>5. Cardinality(P) = Cardinality(T)
  BY <1>2, <1>4, FS_Bijection
<1> QED  BY <1>5 DEF P, T, totalPoints

\* What StatsTrue says of one user's points and rows.
StatsOf(h, rows, whole) ==
  LET months == {MonthOf(t) : t \in Stored(h)}
  IN  /\ trackedMonths(rows) \subseteq months
      /\ totalPoints(rows) <= Cardinality(Stored(h))
      /\ totalKM(rows) = Once(DOMAIN totalKM(rows))
      /\ DOMAIN totalKM(rows) \subseteq Travelled(h, Stored(h))
      /\ whole =>
           /\ trackedMonths(rows) = months
           /\ totalPoints(rows) = Cardinality(Stored(h))
           /\ totalKM(rows) = Once(Travelled(h, Stored(h)))
           /\ \A m \in months :
                monthKM(rows, m) = Once(Travelled(h, {t \in Stored(h) : MonthOf(t) = m}))

\* Statistics add up to the points stored, whatever order these came, moved and
\* went in and wherever recalculations stand.
THEOREM StatsAlwaysTrue == IngestSpec => []StatsTrue
<1>1. IngestInv => StatsTrue
  <2> SUFFICES ASSUME IngestInv, NEW u \in User
               PROVE  StatsOf(points[u], daily_stats[u], u \notin owed)
    BY DEF StatsTrue, StatsOf, Travelled
  <2> DEFINE h == points[u]
             rows == daily_stats[u]
             months == {MonthOf(t) : t \in Stored(h)}
  <2> DEFINE counted == {t \in Stored(h) : Midnight[t] \in All(rows)}
  <2>1. h \in History /\ Stored(h) \subseteq Time /\ All(rows) \subseteq Day
    BY DEF IngestInv, IngestTypeOK, TablesType, Stored, All
  <2>2. \A d \in All(rows) : rows[d] = DayStat(h, d)
    BY DEF IngestInv, RowsSound, All
  <2>3. \A d \in All(rows) : \E t \in Stored(h) : Midnight[t] = d
    <3> SUFFICES ASSUME NEW d \in All(rows), PointsOn(h, d) = {} PROVE FALSE
      BY DEF PointsOn
    <3> QED  BY <2>1, <2>2, EmptyDay DEF All
  <2>4. u \notin owed => counted = Stored(h)
    <3> SUFFICES ASSUME u \notin owed, NEW t \in Stored(h) PROVE Midnight[t] \in All(rows)
      OBVIOUS
    <3>1. Midnight[t] \in Day /\ t \in PointsOn(h, Midnight[t])
      BY <2>1 DEF Day, PointsOn
    <3>2. rows[Midnight[t]] = DayStat(h, Midnight[t])
      BY <3>1 DEF IngestInv, RowsComplete
    <3>3. DayStat(h, Midnight[t]) # NoRow
      <4>1. DayStat(h, Midnight[t]).points # {} /\ NoRow.points = {}
        BY <3>1 DEF DayStat, NoRow
      <4> QED  BY <4>1
    <3> QED  BY <3>1, <3>2, <3>3 DEF All
  <2>5. trackedMonths(rows) \subseteq months /\ (u \notin owed => trackedMonths(rows) = months)
    BY <2>3, <2>4 DEF trackedMonths, MonthOf
  <2> HIDE DEF h, rows
  <2>6. totalPoints(rows) = Cardinality(counted)
    BY <2>1, <2>2, EachPointOnce
  <2>7. Cardinality(counted) <= Cardinality(Stored(h))
    <3>1. IsFiniteSet(Stored(h)) /\ counted \in SUBSET Stored(h)
      BY <2>1, TimeFinite, FS_Subset
    <3> HIDE DEF counted
    <3> QED  BY <3>1, FS_Subset
  <2>8. totalKM(rows) = Once(Travelled(h, counted))
    BY <2>1, <2>2, EachSegmentOnce DEF totalKM
  <2>9. DOMAIN totalKM(rows) = Travelled(h, counted)
    BY <2>8 DEF Once
  <2>10. Travelled(h, counted) \subseteq Travelled(h, Stored(h))
    <3>1. Hops(Stored(h), counted) \subseteq Hops(Stored(h), Stored(h))
      BY DEF Hops
    <3> QED  BY <3>1 DEF Travelled, Segments
  <2>11. ASSUME u \notin owed, NEW m \in months
         PROVE  monthKM(rows, m) = Once(Travelled(h, {t \in Stored(h) : MonthOf(t) = m}))
    <3> DEFINE D == {d \in All(rows) : Month[d] = m}
    <3>1. D \in SUBSET Day /\ \A d \in D : rows[d] = DayStat(h, d)
      BY <2>1, <2>2
    <3>2. {t \in Stored(h) : Midnight[t] \in D} = {t \in Stored(h) : MonthOf(t) = m}
      BY <2>4, <2>11 DEF MonthOf
    <3>3. monthKM(rows, m) = Kilometres(rows, D)
      BY DEF monthKM
    <3> HIDE DEF D
    <3> QED  BY <2>1, <3>1, <3>2, <3>3, EachSegmentOnce
  <2> HIDE DEF counted
  <2>12. StatsOf(h, rows, u \notin owed)
    BY <2>4, <2>5, <2>6, <2>7, <2>8, <2>9, <2>10, <2>11 DEF StatsOf
  <2> QED  BY <2>12 DEF h, rows
<1> QED  BY <1>1, IngestInvariant, PTL

-----------------------------------------------------------------------------
(* Pages: the order of the rows *)

\* \div rounds down.
LEMMA Division ==
  ASSUME NEW k \in Nat, NEW p \in Nat \ {0}
  PROVE  /\ k \div p \in Nat
         /\ (k \div p) * p <= k /\ k < (k \div p + 1) * p
OBVIOUS

LEMMA TimesMonotonic ==
  ASSUME NEW a \in Nat, NEW b \in Nat, a <= b, NEW p \in Nat
  PROVE  a * p <= b * p
<1>1. PICK d \in Nat : b = a + d
  <2>1. b - a \in Nat /\ b = a + (b - a)
    OBVIOUS
  <2> QED  BY <2>1
<1>2. b * p = a * p + d * p /\ d * p >= 0
  BY <1>1
<1>3. a * p \in Int /\ d * p \in Int
  BY <1>1
<1> QED  BY <1>2, <1>3

\* A client on the last page the COUNT makes has been sent, or had passed, as
\* many places as were counted.
LEMMA LastPage ==
  ASSUME NEW rows \in SUBSET Time, NEW perPage \in Nat \ {0}, NEW n \in Nat,
         n >= TotalPages(rows, perPage)
  PROVE  Cardinality(rows) <= n * perPage
<1> DEFINE total == Cardinality(rows)
           last == (total + perPage - 1) \div perPage
<1>1. total \in Nat
  BY TimeFinite, FS_Subset, FS_CardinalityType
<1>2. n >= last
  BY DEF TotalPages
<1> HIDE DEF total
<1>3. total + perPage - 1 \in Nat
  BY <1>1
<1>4. last \in Nat /\ total + perPage - 1 < (last + 1) * perPage
  BY <1>3, Division
<1> HIDE DEF last
<1>5. (last + 1) * perPage = last * perPage + perPage
  BY <1>4
<1>6. last * perPage <= n * perPage
  BY <1>2, <1>4, TimesMonotonic
<1>7. last * perPage \in Int /\ n * perPage \in Int
  BY <1>4
<1> QED  BY <1>1, <1>4, <1>5, <1>6, <1>7 DEF total

LEMMA PlaceType ==
  ASSUME NEW rows \in SUBSET Time, NEW ascending, NEW t
  PROVE  /\ IsFiniteSet(Ahead(rows, ascending, t))
         /\ PlaceIn(rows, ascending, t) \in Nat
BY TimeFinite, FS_Subset, FS_CardinalityType DEF Ahead, PlaceIn

\* More rows, and a row is no further ahead.
LEMMA PlaceGrows ==
  ASSUME NEW rows \in SUBSET Time, NEW later \in SUBSET Time, rows \subseteq later,
         NEW ascending, NEW t
  PROVE  PlaceIn(rows, ascending, t) <= PlaceIn(later, ascending, t)
<1>1. Ahead(rows, ascending, t) \in SUBSET Ahead(later, ascending, t)
  BY DEF Ahead
<1> QED  BY <1>1, PlaceType, FS_Subset DEF PlaceIn

\* Rows have a first and a last in either order.
LEMMA EndsOfRows ==
  ASSUME NEW rows \in SUBSET Time, rows # {}, NEW ascending \in BOOLEAN
  PROVE  /\ \E t \in rows : \A s \in rows \ {t} : t \in Ahead(rows, ascending, s)
         /\ \E t \in rows : \A s \in rows \ {t} : s \in Ahead(rows, ascending, t)
<1>1. PICK low \in rows : \A s \in rows : low <= s
  BY Least
<1>2. PICK high \in rows : \A s \in rows : s <= high
  BY Greatest
<1>3. rows \subseteq Int
  BY TimeAssumption
<1> QED  BY <1>1, <1>2, <1>3 DEF Ahead

\* Of the places before k no more than k are taken, and all if the list goes on.
LEMMA FirstPlaces ==
  ASSUME NEW rows \in SUBSET Time, NEW ascending \in BOOLEAN, NEW k \in Nat
  PROVE  LET first == {s \in rows : PlaceIn(rows, ascending, s) < k}
         IN  /\ IsFiniteSet(first) /\ Cardinality(first) \in Nat /\ Cardinality(first) <= k
             /\ (\E t \in rows : PlaceIn(rows, ascending, t) >= k) => Cardinality(first) = k
<1> DEFINE place(s) == PlaceIn(rows, ascending, s)
           first == {s \in rows : place(s) < k}
           beyond == {s \in rows : place(s) >= k}
<1>1. first \in SUBSET rows /\ first \in SUBSET Time /\ \A s \in rows : place(s) \in Nat
  BY PlaceType
<1>2. IsFiniteSet(first) /\ Cardinality(first) \in Nat
  BY <1>1, TimeFinite, FS_Subset, FS_CardinalityType
<1>3. Cardinality(first) <= k
  <2>1. CASE first = {}
    BY <2>1, FS_EmptySet
  <2>2. CASE first # {}
    <3>1. PICK t \in first : \A s \in first \ {t} : s \in Ahead(first, ascending, t)
      <4> HIDE DEF first
      <4> QED  BY <1>1, <2>2, EndsOfRows
    <3>2. t \in rows /\ place(t) < k /\ place(t) \in Nat
      BY <1>1
    <3>3. first \in SUBSET (Ahead(rows, ascending, t) \cup {t})
      BY <3>1 DEF Ahead
    <3> DEFINE ahead == Ahead(rows, ascending, t)
               upto == ahead \cup {t}
    <3>4. IsFiniteSet(upto) /\ Cardinality(upto) <= place(t) + 1
      <4>1. IsFiniteSet(ahead) /\ Cardinality(ahead) = place(t)
        BY PlaceType DEF PlaceIn
      <4> HIDE DEF place, ahead, first
      <4>2. /\ IsFiniteSet(upto)
            /\ Cardinality(upto) = IF t \in ahead THEN Cardinality(ahead) ELSE Cardinality(ahead) + 1
        BY <4>1, FS_AddElement
      <4> HIDE DEF upto
      <4> QED  BY <3>2, <4>1, <4>2
    <3>5. Cardinality(upto) \in Nat
      BY <3>4, FS_CardinalityType
    <3> HIDE DEF upto, first, place
    <3>6. Cardinality(first) <= Cardinality(upto)
      BY <3>3, <3>4, FS_Subset DEF upto
    <3> QED  BY <1>2, <3>2, <3>4, <3>5, <3>6
  <2> QED  BY <2>1, <2>2
<1>4. ASSUME beyond # {} PROVE Cardinality(first) >= k
  <2>1. beyond \in SUBSET Time /\ beyond \subseteq rows
    OBVIOUS
  <2>2. PICK t \in beyond : \A s \in beyond \ {t} : t \in Ahead(beyond, ascending, s)
    <3> HIDE DEF beyond
    <3> QED  BY <1>4, <2>1, EndsOfRows
  <2>3. Ahead(rows, ascending, t) \in SUBSET first
    <3> SUFFICES ASSUME NEW s \in Ahead(rows, ascending, t), s \notin first PROVE FALSE
      OBVIOUS
    <3>1. s \in rows /\ place(s) \in Nat
      BY <1>1 DEF Ahead
    <3>2. s \in beyond
      <4> HIDE DEF place
      <4> QED  BY <3>1
    <3>3. s \in Int /\ t \in Int
      BY <2>1, <3>2, TimeAssumption
    <3>4. s # t
      BY <3>3 DEF Ahead
    <3>5. t \in Ahead(beyond, ascending, s)
      BY <2>2, <3>2, <3>4
    <3> HIDE DEF beyond, first
    <3> QED  BY <3>3, <3>5 DEF Ahead
  <2>4. place(t) <= Cardinality(first)
    <3> HIDE DEF first
    <3> QED  BY <1>2, <2>3, FS_Subset DEF PlaceIn
  <2>5. place(t) >= k /\ place(t) \in Nat
    BY <1>1, <2>2
  <2> HIDE DEF place, first
  <2> QED  BY <1>2, <2>4, <2>5
<1>5. (\E t \in rows : place(t) >= k) => beyond # {}
  OBVIOUS
<1> HIDE DEF place, beyond
<1>6. (\E t \in rows : place(t) >= k) => Cardinality(first) = k
  <2> HIDE DEF first
  <2> QED  BY <1>2, <1>3, <1>4, <1>5
<1> QED  BY <1>2, <1>3, <1>6 DEF place

-----------------------------------------------------------------------------
(* Pages: the client *)

UnderWay == stage \in {"probing", "asking", "counted"}

\* What is promised is stored and matches, and what of it was not sent is not yet
\* passed.
NothingPassed ==
  /\ promised \subseteq Matching(endAt)
  /\ \A t \in promised \ read : Place(t) >= Passed

PagingInv ==
  /\ PagingTypeOK
  /\ UnderWay => NothingPassed
  /\ PagesSkipNoPoint

LEMMA MatchingType ==
  ASSUME PagingTypeOK
  PROVE  /\ \A end : Matching(end) \in SUBSET Time
         /\ query.ascending \in BOOLEAN /\ query.perPage \in Nat \ {0}
         /\ Passed \in Nat /\ page \in Nat \ {0}
<1>1. query.ascending \in BOOLEAN /\ query.perPage \in Nat \ {0} /\ page \in Nat \ {0}
  BY PageSizeAssumption DEF PagingTypeOK, Query
<1>2. \A end : Matching(end) \in SUBSET Time
  BY DEF Matching, Selected, Stored
<1>3. Passed \in Nat
  <2>1. \A a, b \in Nat : a * b \in Nat
    OBVIOUS
  <2>2. page - 1 \in Nat
    BY <1>1
  <2> QED  BY <1>1, <2>1, <2>2 DEF Passed
<1> QED  BY <1>1, <1>2, <1>3

\* A step that leaves the client where it is, and leaves it all the rows there
\* were, leaves it ahead of nothing it was promised.
LEMMA StaysAhead ==
  ASSUME PagingTypeOK, NothingPassed, Matching(endAt) \subseteq Matching(endAt)',
         UNCHANGED <<query, page, read, promised>>
  PROVE  NothingPassed'
<1> DEFINE rows == Matching(endAt)
           later == Matching(endAt)'
<1>1. rows \in SUBSET Time /\ later \in SUBSET Time /\ Passed \in Nat
  BY MatchingType DEF Matching, Selected, Stored
<1>2. Passed' = Passed /\ query'.ascending = query.ascending
  BY DEF Passed
<1>3. ASSUME NEW t \in promised' \ read' PROVE Place(t)' >= Passed'
  <2>1. Place(t) >= Passed /\ Place(t) = PlaceIn(rows, query.ascending, t)
    BY <1>3 DEF NothingPassed, Place
  <2>2. Place(t)' = PlaceIn(later, query.ascending, t)
    BY <1>2 DEF Place
  <2> HIDE DEF rows, later
  <2>3. /\ PlaceIn(rows, query.ascending, t) \in Nat /\ PlaceIn(later, query.ascending, t) \in Nat
        /\ PlaceIn(rows, query.ascending, t) <= PlaceIn(later, query.ascending, t)
    BY <1>1, PlaceType, PlaceGrows DEF rows, later
  <2> QED  BY <1>1, <1>2, <2>1, <2>2, <2>3
<1> QED  BY <1>3 DEF NothingPassed

\* The end of the range of a request is no earlier than the last one's.
LEMMA LaterEnd ==
  ASSUME PagingTypeOK, NEW end \in EndOfRequest
  PROVE  end \in Time /\ Matching(endAt) \subseteq Matching(end)
<1>1. end \in Time /\ endAt \in Time /\ end >= endAt
  BY TimeAssumption DEF PagingTypeOK, EndOfRequest
<1>2. \A t \in Time : t <= endAt => t <= end
  BY <1>1, TimeAssumption
<1>3. Matching(endAt) \subseteq Matching(end)
  BY <1>2 DEF Matching, Selected, Stored
<1> QED  BY <1>1, <1>3

LEMMA SetOutPreserves ==
  ASSUME PagingInv, SetOut
  PROVE  PagingInv'
<1>1. PagingTypeOK /\ Matching(endAt) \in SUBSET Time
  BY MatchingType DEF PagingInv
<1>2. /\ stage' \in {"probing", "asking"} /\ page' = 1 /\ promised' = Matching(endAt)
      /\ UNCHANGED <<points, query, endAt, tally, read, late, full>>
  BY DEF SetOut, ingestVars
<1>3. PagingTypeOK'
  BY <1>1, <1>2 DEF PagingTypeOK
<1>4. Matching(endAt)' = Matching(endAt)
  BY <1>2 DEF Matching
<1>5. \A t : Place(t)' \in Nat
  BY <1>1, <1>2, <1>4, PlaceType DEF Place
<1>6. Passed' = 0
  <2>1. query.perPage \in Nat
    BY <1>1, MatchingType
  <2> QED  BY <1>2, <2>1 DEF Passed
<1>7. NothingPassed'
  BY <1>2, <1>4, <1>5, <1>6 DEF NothingPassed
<1> QED  BY <1>2, <1>3, <1>7 DEF PagingInv, PagesSkipNoPoint

\* An answer of no pages is one of no rows.
LEMMA ProbePreserves ==
  ASSUME PagingInv, Probe
  PROVE  PagingInv'
<1>1. PagingTypeOK /\ NothingPassed
  BY DEF PagingInv, UnderWay, Probe
<1>2. PICK end \in EndOfRequest :
        /\ endAt' = end /\ tally' = Matching(end)
        /\ stage' = IF TotalPages(Matching(end), query.perPage) = 0 THEN "done" ELSE "asking"
  BY DEF Probe
<1>3. UNCHANGED <<points, query, page, read, promised, late, full>>
  BY DEF Probe, ingestVars
<1>4. end \in Time /\ Matching(endAt) \subseteq Matching(end) /\ Matching(end) \in SUBSET Time
  BY <1>1, LaterEnd, MatchingType
<1>5. PagingTypeOK'
  BY <1>1, <1>2, <1>3, <1>4 DEF PagingTypeOK
<1>6. Matching(endAt)' = Matching(end)
  BY <1>2, <1>3 DEF Matching
<1>7. NothingPassed'
  BY <1>1, <1>3, <1>4, <1>6, StaysAhead
<1>8. ASSUME stage' = "done" PROVE promised' = {}
  <2>1. TotalPages(Matching(end), query.perPage) = 0
    BY <1>2, <1>8
  <2>2. query.perPage \in Nat \ {0}
    BY <1>1, MatchingType
  <2>3. Cardinality(Matching(end)) <= 0 * query.perPage
    BY <1>4, <2>1, <2>2, LastPage
  <2>4. 0 * query.perPage = 0
    BY <2>2
  <2>5. Matching(end) = {}
    <3>1. IsFiniteSet(Matching(end)) /\ Cardinality(Matching(end)) \in Nat
      BY <1>4, TimeFinite, FS_Subset, FS_CardinalityType
    <3> QED  BY <2>3, <2>4, <3>1, FS_EmptySet
  <2> QED  BY <1>6, <1>7, <2>5 DEF NothingPassed
<1>9. PagesSkipNoPoint'
  <2> SUFFICES ASSUME stage' = "done"
               PROVE  Cardinality(promised' \ read') <= Cardinality(late') /\ promised' \subseteq read'
    BY DEF PagesSkipNoPoint
  <2>1. promised' \ read' = {} /\ promised' \subseteq read'
    BY <1>8
  <2>2. Cardinality(late') \in Nat
    BY <1>5, TimeFinite, FS_Subset, FS_CardinalityType DEF PagingTypeOK
  <2> QED  BY <2>1, <2>2, FS_EmptySet
<1> QED  BY <1>5, <1>7, <1>9 DEF PagingInv

LEMMA CountPreserves ==
  ASSUME PagingInv, Count
  PROVE  PagingInv'
<1>1. PagingTypeOK /\ NothingPassed
  BY DEF PagingInv, UnderWay, Count
<1>2. PICK end \in EndOfRequest :
        endAt' = end /\ tally' = IF query.headFirst THEN tally ELSE Matching(end)
  BY DEF Count
<1>3. stage' = "counted" /\ UNCHANGED <<points, query, page, read, promised, late, full>>
  BY DEF Count, ingestVars
<1>4. end \in Time /\ Matching(endAt) \subseteq Matching(end) /\ Matching(end) \in SUBSET Time
  BY <1>1, LaterEnd, MatchingType
<1>5. PagingTypeOK'
  BY <1>1, <1>2, <1>3, <1>4 DEF PagingTypeOK
<1>6. Matching(endAt)' = Matching(end)
  BY <1>2, <1>3 DEF Matching
<1>7. NothingPassed'
  BY <1>1, <1>3, <1>4, <1>6, StaysAhead
<1> QED  BY <1>3, <1>5, <1>7 DEF PagingInv, PagesSkipNoPoint

\* What is promised and not sent with this page is beyond it.  If the client
\* stops here the rows beyond are no more than those the COUNT did not count,
\* and where there are any the page is full.
LEMMA ListPreserves ==
  ASSUME PagingInv, List
  PROVE  PagingInv'
<1> DEFINE rows == Matching(endAt)
           place(t) == PlaceIn(rows, query.ascending, t)
           perPage == query.perPage
           next == page * perPage
           sent == Page(rows, query.ascending, page, perPage)
           low == {t \in rows : place(t) < Passed}
           upto == {t \in rows : place(t) < next}
           beyond == {t \in rows : place(t) >= next}
           missed == promised \ (read \cup sent)
<1>1. /\ PagingTypeOK /\ NothingPassed
      /\ rows \in SUBSET Time /\ perPage \in Nat \ {0} /\ page \in Nat \ {0} /\ Passed \in Nat
      /\ query.ascending \in BOOLEAN
  BY MatchingType DEF PagingInv, UnderWay, List
<1>2. /\ read' = read \cup sent /\ full' = (Cardinality(sent) = perPage) /\ late' = rows \ tally
      /\ UNCHANGED <<points, query, endAt, tally, promised>>
      /\ \/ page >= TotalPages(tally, perPage) /\ stage' = "done" /\ page' = page
         \/ stage' = "asking" /\ page' = page + 1
  BY DEF List, ingestVars
<1>3. PagingTypeOK'
  <2>1. sent \in SUBSET Time
    BY <1>1 DEF Page
  <2> HIDE DEF sent, rows
  <2> QED  BY <1>1, <1>2, <2>1 DEF PagingTypeOK
<1>4. next \in Nat /\ next = Passed + perPage
  <2>1. perPage \in Nat /\ page \in Nat
    BY <1>1
  <2>2. page * perPage \in Nat
    <3>1. \A a, b \in Nat : a * b \in Nat
      OBVIOUS
    <3> QED  BY <2>1, <3>1
  <2>3. page * perPage = (page - 1) * perPage + perPage
    BY <2>1
  <2> QED  BY <2>2, <2>3 DEF Passed
<1> HIDE DEF next
<1>5. \A t \in rows : place(t) \in Nat
  BY <1>1, PlaceType
<1>6. sent = upto \ low /\ low \subseteq upto /\ upto \cap low = low
  <2> DEFINE from == Passed
             to == next
  <2>1. sent = {t \in rows : place(t) \in from .. to - 1}
    BY DEF Page, Passed, next
  <2>2. from \in Nat /\ to \in Nat /\ from <= to
    BY <1>1, <1>4
  <2> HIDE DEF from, to, place, rows, sent
  <2>3. \A t \in rows : place(t) \in from .. to - 1 <=> place(t) < to /\ ~ (place(t) < from)
    BY <1>5, <2>2
  <2>4. \A t \in rows : place(t) < from => place(t) < to
    BY <1>5, <2>2
  <2> QED  BY <2>1, <2>3, <2>4 DEF from, to
<1>7. missed \subseteq beyond
  <2> SUFFICES ASSUME NEW t \in missed PROVE t \in beyond
    OBVIOUS
  <2>1. t \in rows /\ place(t) >= Passed /\ t \notin sent
    BY <1>1 DEF NothingPassed, Place
  <2> HIDE DEF place, rows, sent
  <2> QED  BY <1>1, <1>4, <1>5, <1>6, <2>1
<1>8. rows = upto \cup beyond /\ beyond = rows \ upto /\ upto \subseteq rows
  <2> HIDE DEF place, rows
  <2> QED  BY <1>4, <1>5
<1>9. /\ IsFiniteSet(low) /\ Cardinality(low) \in Nat /\ Cardinality(low) <= Passed
      /\ (\E t \in rows : place(t) >= Passed) => Cardinality(low) = Passed
  BY <1>1, FirstPlaces
<1>10. /\ IsFiniteSet(upto) /\ Cardinality(upto) \in Nat
       /\ beyond # {} => Cardinality(upto) = next
  <2>1. /\ IsFiniteSet(upto) /\ Cardinality(upto) \in Nat
        /\ (\E t \in rows : place(t) >= next) => Cardinality(upto) = next
    <3>1. next \in Nat /\ rows \in SUBSET Time /\ query.ascending \in BOOLEAN
      BY <1>1, <1>4
    <3> HIDE DEF rows
    <3> QED  BY <3>1, FirstPlaces
  <2>2. beyond # {} => \E t \in rows : place(t) >= next
    OBVIOUS
  <2> HIDE DEF upto, beyond, rows, place
  <2> QED  BY <2>1, <2>2
<1>11. ASSUME beyond # {} PROVE Cardinality(sent) = perPage
  <2>1. Cardinality(low) = Passed
    <3>1. PICK t \in rows : place(t) >= next
      BY <1>11
    <3> HIDE DEF place, rows, low
    <3>2. place(t) >= Passed
      BY <1>1, <1>4, <1>5, <3>1
    <3> QED  BY <1>9, <3>2
  <2> HIDE DEF low, upto, beyond, sent, rows
  <2>2. Cardinality(sent) = Cardinality(upto) - Cardinality(low)
    <3>1. IsFiniteSet(upto)
      BY <1>10
    <3>2. Cardinality(upto \ low) = Cardinality(upto) - Cardinality(upto \cap low)
      BY <3>1, <1>9, FS_Difference
    <3> QED  BY <1>6, <3>2
  <2>3. Cardinality(upto) = next
    BY <1>10, <1>11
  <2> HIDE DEF perPage
  <2> QED  BY <1>1, <1>4, <2>1, <2>2, <2>3
<1>12. ASSUME page >= TotalPages(tally, perPage)
       PROVE  Cardinality(missed) <= Cardinality(rows \ tally)
  <2>1. Cardinality(tally) <= next /\ tally \in SUBSET Time
    BY <1>1, <1>12, LastPage DEF PagingTypeOK, next
  <2> HIDE DEF rows, upto, beyond, missed
  <2>2. /\ IsFiniteSet(rows) /\ Cardinality(rows) \in Nat
        /\ IsFiniteSet(tally) /\ Cardinality(tally) \in Nat
    BY <1>1, <2>1, TimeFinite, FS_Subset, FS_CardinalityType
  <2>3. IsFiniteSet(rows \ tally) /\ Cardinality(rows \ tally) >= Cardinality(rows) - Cardinality(tally)
    <3>1. Cardinality(rows \cap tally) <= Cardinality(tally) /\ IsFiniteSet(rows \cap tally)
      BY <2>2, FS_Subset
    <3>2. IsFiniteSet(rows \ tally) /\ Cardinality(rows \ tally) = Cardinality(rows) - Cardinality(rows \cap tally)
      BY <2>2, FS_Difference
    <3>3. Cardinality(rows \cap tally) \in Nat
      BY <3>1, FS_CardinalityType
    <3> QED  BY <2>2, <3>1, <3>2, <3>3
  <2>4. Cardinality(rows \ tally) \in Nat
    BY <2>3, FS_CardinalityType
  <2>5. IsFiniteSet(beyond) /\ Cardinality(beyond) = Cardinality(rows) - Cardinality(upto)
    <3>1. rows \cap upto = upto
      BY <1>8
    <3>2. /\ IsFiniteSet(rows \ upto)
          /\ Cardinality(rows \ upto) = Cardinality(rows) - Cardinality(rows \cap upto)
      BY <1>10, <2>2, FS_Difference
    <3> QED  BY <1>8, <3>1, <3>2
  <2>6. Cardinality(missed) <= Cardinality(beyond) /\ IsFiniteSet(missed)
    BY <1>7, <2>5, FS_Subset
  <2>7. Cardinality(missed) \in Nat /\ Cardinality(beyond) \in Nat
    BY <2>5, <2>6, FS_CardinalityType
  <2>8. CASE beyond = {}
    BY <2>4, <2>6, <2>7, <2>8, FS_EmptySet
  <2>9. CASE beyond # {}
    BY <1>4, <1>10, <2>1, <2>2, <2>3, <2>4, <2>5, <2>6, <2>7, <2>9
  <2> QED  BY <2>8, <2>9
<1>13. promised' \ read' = missed
  BY <1>2
<1>14. stage' = "done" => PagesSkipNoPoint'
  <2> SUFFICES ASSUME stage' = "done"
               PROVE  /\ Cardinality(promised' \ read') <= Cardinality(late')
                      /\ ~ full' => promised' \subseteq read'
    BY DEF PagesSkipNoPoint
  <2>1. Cardinality(missed) <= Cardinality(rows \ tally)
    BY <1>2, <1>12
  <2>2. ~ full' => missed = {}
    <3> HIDE DEF missed, beyond, sent
    <3> QED  BY <1>2, <1>7, <1>11
  <2> HIDE DEF missed, rows
  <2> QED  BY <1>2, <1>13, <2>1, <2>2
<1>15. ASSUME stage' = "asking" PROVE NothingPassed'
  <2>1. page' = page + 1
    BY <1>2, <1>15
  <2>2. Passed' = next
    <3>1. page' - 1 = page
      BY <1>1, <2>1
    <3> QED  BY <1>2, <3>1 DEF Passed, next
  <2>3. Matching(endAt)' = rows
    BY <1>2 DEF Matching
  <2>4. \A t : Place(t)' = place(t)
    BY <1>2, <2>3 DEF Place
  <2>5. promised \subseteq rows
    BY <1>1 DEF NothingPassed
  <2> HIDE DEF rows, place, missed
  <2>6. \A t \in missed : place(t) >= next
    BY <1>7
  <2> QED  BY <1>2, <1>13, <2>2, <2>3, <2>4, <2>5, <2>6 DEF NothingPassed
<1> HIDE DEF rows, place, perPage, sent, low, upto, beyond, missed
<1> QED  BY <1>2, <1>3, <1>14, <1>15 DEF PagingInv, UnderWay, PagesSkipNoPoint

\* What a deletion moved past the client is promised no more.
LEMMA MeanwhilePreserves ==
  ASSUME PagingInv, Meanwhile
  PROVE  PagingInv'
<1>1. /\ PagingTypeOK /\ UNCHANGED <<query, endAt, stage, page, tally, read, late, full>>
      /\ promised' =
           IF stage = "done" \/ Matching(endAt) \subseteq Matching(endAt)' THEN promised
           ELSE {t \in promised \cap Matching(endAt)' :
                   ~ (Place(t) >= Passed /\ Place(t)' < Passed)}
  BY DEF PagingInv, Meanwhile
<1>2. promised' \subseteq promised
  BY <1>1
<1>3. PagingTypeOK'
  BY <1>1, <1>2 DEF PagingTypeOK
<1>4. ASSUME stage = "done" PROVE PagingInv'
  <2>1. PagesSkipNoPoint'
    BY <1>1, <1>4 DEF PagingInv, PagesSkipNoPoint
  <2> QED  BY <1>1, <1>3, <1>4, <2>1 DEF PagingInv, UnderWay
<1>5. ASSUME UnderWay, Matching(endAt) \subseteq Matching(endAt)' PROVE NothingPassed'
  <2>1. NothingPassed /\ UNCHANGED <<query, page, read, promised>>
    BY <1>1, <1>5 DEF PagingInv
  <2> QED  BY <1>1, <1>5, <2>1, StaysAhead
<1>6. ASSUME UnderWay, ~ (Matching(endAt) \subseteq Matching(endAt)') PROVE NothingPassed'
  <2>1. /\ promised' \subseteq Matching(endAt)'
        /\ \A t \in promised' : ~ (Place(t) >= Passed /\ Place(t)' < Passed)
    BY <1>1, <1>6 DEF UnderWay
  <2>2. \A t \in promised' \ read' : Place(t) >= Passed
    BY <1>1, <1>2, <1>6 DEF PagingInv, NothingPassed
  <2>3. Passed' = Passed /\ Passed \in Nat
    BY <1>1, MatchingType DEF Passed
  <2>4. \A t : Place(t)' \in Nat
    <3>1. Matching(endAt)' \in SUBSET Time
      BY DEF Matching, Selected, Stored
    <3> QED  BY <3>1, PlaceType DEF Place
  <2>5. \A t \in promised' \ read' : Place(t)' >= Passed'
    BY <2>1, <2>2, <2>3, <2>4
  <2> QED  BY <2>1, <2>5 DEF NothingPassed
<1>7. CASE stage # "done"
  BY <1>1, <1>3, <1>5, <1>6, <1>7 DEF PagingInv, UnderWay, PagesSkipNoPoint
<1> QED  BY <1>4, <1>7

\* Client, statements and changes of points keep the client ahead of all it was
\* promised.
THEOREM PagingInvariant == PagingSpec => []PagingInv
<1>1. PagingInit => PagingInv
  <2> SUFFICES ASSUME PagingInit PROVE PagingInv
    OBVIOUS
  <2>1. /\ query \in Query /\ endAt \in Time /\ stage = "idle"
        /\ page = 1 /\ tally = {} /\ read = {} /\ promised = {} /\ late = {}
    BY DEF PagingInit
  <2>2. full \in BOOLEAN
    BY DEF PagingInit
  <2>3. PagingTypeOK
    BY <2>1, <2>2 DEF PagingTypeOK
  <2> QED  BY <2>1, <2>3 DEF PagingInv, UnderWay, PagesSkipNoPoint
<1>2. PagingInv /\ [PagingNext]_pagingVars => PagingInv'
  <2> SUFFICES ASSUME PagingInv, [PagingNext]_pagingVars PROVE PagingInv'
    OBVIOUS
  <2>1. CASE UNCHANGED pagingVars \/ AskAgain
    <3>1. /\ UNCHANGED <<points, query, endAt, page, tally, read, promised, late, full>>
          /\ \/ stage' = stage
             \/ stage = "counted" /\ stage' = "asking"
      BY <2>1 DEF pagingVars, ingestVars, AskAgain
    <3>2. PagingTypeOK'
      BY <3>1 DEF PagingInv, PagingTypeOK
    <3>3. UnderWay' => NothingPassed'
      BY <3>1 DEF PagingInv, UnderWay, NothingPassed, Matching, Place, Passed
    <3>4. PagesSkipNoPoint'
      BY <3>1 DEF PagingInv, PagesSkipNoPoint
    <3> QED  BY <3>2, <3>3, <3>4 DEF PagingInv
  <2> QED
    BY <2>1, SetOutPreserves, ProbePreserves, CountPreserves, ListPreserves, MeanwhilePreserves
    DEF PagingNext
<1> QED  BY <1>1, <1>2, PTL DEF PagingSpec

\* The client's variables keep their types.
THEOREM PagingTypeCorrect == PagingSpec => []PagingTypeOK
<1>1. PagingInv => PagingTypeOK
  BY DEF PagingInv
<1> QED  BY <1>1, PagingInvariant, PTL

\* Whatever is inserted between two requests, or between the two statements of
\* one, a client that read to the last page misses no more points than came after
\* the COUNT it went by, and none if that page was not full.
THEOREM PagesNeverSkip == PagingSpec => []PagesSkipNoPoint
<1>1. PagingInv => PagesSkipNoPoint
  BY DEF PagingInv
<1> QED  BY <1>1, PagingInvariant, PTL

=============================================================================
