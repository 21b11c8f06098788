----------------------------- MODULE HistoryProofs -----------------------------
(***************************************************************************)
(* What holds of the points of a user, and of the tracks they make, before *)
(* anything concurrent happens: sets of timestamps have a last and a first *)
(* element; runs of points are apart; the walk of internal/track finds the *)
(* tracks of every history.                                                *)
(***************************************************************************)
EXTENDS TrackBuild, WellFoundedInduction, TLAPS

-----------------------------------------------------------------------------
(* Sets of timestamps: the greatest and the least, and who follows whom *)

\* A nonempty set of integers with an upper bound has a greatest element.
LEMMA GreatestBelow ==
  ASSUME NEW S \in SUBSET Int, NEW b \in Int, S # {}, \A x \in S : x < b
  PROVE  \E m \in S : \A x \in S : x <= m
<1> DEFINE T == {n \in Nat : \E x \in S : n = b - x}
<1>1. T \subseteq Nat
  OBVIOUS
<1>2. \A x \in S : b - x \in T
  OBVIOUS
<1>3. T # {}
  BY <1>2
<1>4. \E y \in T : \A z \in T : ~ (<<z, y>> \in OpToRel(<, Nat))
  <2> HIDE DEF T
  <2> QED  BY <1>1, <1>3, NatLessThanWellFounded, WFMin, Zenon
<1>5. PICK y \in T : \A z \in T : ~ (<<z, y>> \in OpToRel(<, Nat))
  BY <1>4
<1>6. \A z \in T : ~ (z < y)
  <2> SUFFICES ASSUME NEW z \in T, z < y PROVE FALSE
    OBVIOUS
  <2>1. z \in Nat /\ y \in Nat
    BY <1>1
  <2>2. <<z, y>> \in Nat \X Nat
    BY <2>1
  <2>3. <<z, y>> \in OpToRel(<, Nat)
    BY <2>2 DEF OpToRel
  <2> QED  BY <1>5, <2>3
<1>7. PICK m \in S : y = b - m
  OBVIOUS
<1>8. ASSUME NEW x \in S PROVE x <= m
  <2>1. ~ (b - x < b - m)
    BY <1>2, <1>6, <1>7
  <2> HIDE DEF T
  <2> QED  BY <2>1
<1> QED  BY <1>8

\* One with a lower bound has a least element.
LEMMA LeastAbove ==
  ASSUME NEW S \in SUBSET Int, NEW b \in Int, S # {}, \A x \in S : b < x
  PROVE  \E m \in S : \A x \in S : m <= x
<1> DEFINE T == {y \in Int : \E x \in S : y = 0 - x}
           c == 0 - b
<1>1. c \in Int /\ T \in SUBSET Int
  OBVIOUS
<1>2. \A x \in S : 0 - x \in T
  OBVIOUS
<1>3. T # {} /\ \A y \in T : y < c
  <2>1. T # {}
    <3> HIDE DEF T
    <3> QED  BY <1>2
  <2>2. \A y \in T : y < c
    OBVIOUS
  <2> QED  BY <2>1, <2>2
<1>4. PICK y \in T : \A z \in T : z <= y
  <2> HIDE DEF T, c
  <2> QED  BY <1>1, <1>3, GreatestBelow
<1>5. PICK m \in S : y = 0 - m
  OBVIOUS
<1>6. ASSUME NEW x \in S PROVE m <= x
  <2>1. 0 - x <= 0 - m
    BY <1>2, <1>4, <1>5
  <2> HIDE DEF T
  <2> QED  BY <2>1
<1> QED  BY <1>6

\* Nonempty sets of timestamps have both.
LEMMA Greatest ==
  ASSUME NEW S \in SUBSET Time, S # {}
  PROVE  \E m \in S : \A x \in S : x <= m
<1>1. S \in SUBSET Int /\ MaxTime + 1 \in Int /\ \A x \in S : x < MaxTime + 1
  BY TimeAssumption, BoundsAssumption
<1> QED  BY <1>1, GreatestBelow

\* A nonempty set of timestamps has a least one.
LEMMA Least ==
  ASSUME NEW S \in SUBSET Time, S # {}
  PROVE  \E m \in S : \A x \in S : m <= x
<1>1. S \in SUBSET Int /\ MinTime - 1 \in Int /\ \A x \in S : MinTime - 1 < x
  BY TimeAssumption, BoundsAssumption
<1> QED  BY <1>1, LeastAbove

-----------------------------------------------------------------------------
(* The tracks of a history: they cover every point that has a neighbour      *)
(* within the break, do not overlap, and are found again from their ends.    *)

\* Runs are made of stored points, and start at one.
LEMMA StoredType ==
  ASSUME NEW h \in History
  PROVE  /\ Stored(h) \subseteq Time /\ Stored(h) \subseteq Int
         /\ Starts(h) \subseteq Stored(h)
         /\ \A a \in Starts(h) : RunFrom(h, a) \subseteq Stored(h)
BY TimeAssumption DEF Stored, Starts, RunFrom

\* Every point is in the run of some start.
LEMMA RunOfPoint ==
  ASSUME NEW h \in History, NEW t \in Stored(h)
  PROVE  \E a \in Starts(h) : t \in RunFrom(h, a)
<1> USE StoredType
<1>1. PICK m \in Stored(h) : \A x \in Stored(h) : m <= x
  BY Least
<1>2. m \in Starts(h)
  <2>1. \A s \in Stored(h) : ~ (s < m)
    BY <1>1
  <2> QED  BY <2>1 DEF Starts, Lag
<1> DEFINE S == {b \in Starts(h) : b <= t}
<1>3. S # {} /\ S \in SUBSET Time
  BY <1>1, <1>2
<1>4. PICK a \in S : \A x \in S : x <= a
  <2> HIDE DEF S
  <2> QED  BY <1>3, Greatest
<1>5. \A b \in Starts(h) : ~ (a < b /\ b <= t)
  BY <1>4
<1> QED  BY <1>4, <1>5 DEF RunFrom

\* Of two runs, all of the one that starts first comes before the other.
LEMMA RunsApart ==
  ASSUME NEW h \in History, NEW a \in Starts(h), NEW b \in Starts(h), a < b,
         NEW s \in RunFrom(h, a), NEW t \in RunFrom(h, b)
  PROVE  s < t
BY StoredType DEF RunFrom

\* A start is in its own run, and the first of it.
LEMMA StartOfRun ==
  ASSUME NEW h \in History, NEW a \in Starts(h)
  PROVE  a \in RunFrom(h, a) /\ \A t \in RunFrom(h, a) : a <= t
<1>1. a \in Stored(h) /\ a \in Int
  BY StoredType
<1>2. \A b \in Starts(h) : b \in Int
  BY StoredType
<1>3. \A b \in Starts(h) : ~ (a < b /\ b <= a)
  BY <1>1, <1>2
<1> QED  BY <1>1, <1>3 DEF RunFrom

\* The ends of a track are the start of its run and the run's last point.
LEMMA EndsOfTrack ==
  ASSUME NEW h \in History, NEW a \in Starts(h), NEW track,
         track = [t \in RunFrom(h, a) |-> h[t]]
  PROVE  /\ DOMAIN track = RunFrom(h, a)
         /\ StartAt(track) = a
         /\ EndAt(track) \in RunFrom(h, a)
         /\ \A t \in RunFrom(h, a) : t <= EndAt(track)
<1> USE StoredType
<1>1. DOMAIN track = RunFrom(h, a)
  OBVIOUS
<1>2. RunFrom(h, a) \in SUBSET Time /\ RunFrom(h, a) \subseteq Int
  OBVIOUS
<1>3. StartAt(track) = a
  <2>1. \A t \in DOMAIN track : (\A s \in DOMAIN track : t <= s) => t = a
    BY <1>1, <1>2, StartOfRun
  <2> QED  BY <1>1, <2>1, StartOfRun DEF StartAt
<1>4. \E m \in RunFrom(h, a) : \A t \in RunFrom(h, a) : t <= m
  BY <1>2, StartOfRun, Greatest
<1>5. EndAt(track) \in RunFrom(h, a) /\ \A t \in RunFrom(h, a) : t <= EndAt(track)
  BY <1>1, <1>4 DEF EndAt
<1> QED  BY <1>1, <1>3, <1>5

\* A track's own range of time finds exactly its points again: no other track's
\* and no lone point lies in it.  This is why points need no track_id column.
THEOREM RangeIsTrack ==
  ASSUME NEW h \in History, NEW track \in build(h)
  PROVE  PointsOfTrack(h, track) = DOMAIN track
<1> USE StoredType
<1>1. PICK a \in Starts(h) : track = [t \in RunFrom(h, a) |-> h[t]]
  BY DEF build
<1>2. /\ DOMAIN track = RunFrom(h, a) /\ StartAt(track) = a
      /\ EndAt(track) \in RunFrom(h, a)
      /\ \A t \in RunFrom(h, a) : t <= EndAt(track)
  BY <1>1, EndsOfTrack
<1>3. ASSUME NEW t \in PointsOfTrack(h, track)
      PROVE  t \in RunFrom(h, a)
  <2>1. t \in Stored(h) /\ a <= t /\ t <= EndAt(track)
    BY <1>2, <1>3 DEF PointsOfTrack
  <2>2. \A b \in Starts(h) : ~ (a < b /\ b <= EndAt(track))
    BY <1>2 DEF RunFrom
  <2>3. \A b \in Starts(h) : b <= t => b <= EndAt(track)
    BY <1>2, <2>1
  <2> QED  BY <2>1, <2>2, <2>3 DEF RunFrom
<1>4. ASSUME NEW t \in RunFrom(h, a)
      PROVE  t \in PointsOfTrack(h, track)
  BY <1>2, StartOfRun DEF PointsOfTrack
<1> QED  BY <1>2, <1>3, <1>4

\* Two tracks of one history never overlap in time.
THEOREM TracksDoNotOverlap ==
  ASSUME NEW h \in History, NEW x \in build(h), NEW y \in build(h), x # y
  PROVE  EndAt(x) < StartAt(y) \/ EndAt(y) < StartAt(x)
<1> USE StoredType
<1>1. PICK a \in Starts(h) : x = [t \in RunFrom(h, a) |-> h[t]]
  BY DEF build
<1>2. PICK b \in Starts(h) : y = [t \in RunFrom(h, b) |-> h[t]]
  BY DEF build
<1>3. StartAt(x) = a /\ EndAt(x) \in RunFrom(h, a) /\ StartAt(y) = b /\ EndAt(y) \in RunFrom(h, b)
  BY <1>1, <1>2, EndsOfTrack
<1>4. a < b \/ b < a
  BY <1>1, <1>2
<1>5. a \in RunFrom(h, a) /\ b \in RunFrom(h, b)
  BY StartOfRun
<1> QED  BY <1>3, <1>4, <1>5, RunsApart

-----------------------------------------------------------------------------

\* Within a run a point follows the point that precedes it in the history, a
\* track break away at most; only the start follows none.
LEMMA LagInRun ==
  ASSUME NEW h \in History, NEW a \in Starts(h), NEW t \in RunFrom(h, a),
         NEW s \in Lag(Stored(h), t)
  PROVE  s \in Lag(RunFrom(h, a), t) <=> t - s <= TrackBreak
<1> USE StoredType, BreakAssumption
<1>1. s \in Stored(h) /\ s < t /\ t \in Stored(h) /\ a \in Stored(h) /\ a <= t
  BY DEF Lag, RunFrom
<1>2. CASE t = a
  <2>1. s \notin RunFrom(h, a)
    BY <1>1, <1>2, StartOfRun
  <2>2. t - s > TrackBreak
    BY <1>2 DEF Starts
  <2> QED  BY <1>1, <2>1, <2>2 DEF Lag
<1>3. CASE t # a
  <2>1. t \notin Starts(h)
    BY <1>1, <1>3 DEF RunFrom
  <2>2. PICK r \in Lag(Stored(h), t) : ~ (t - r > TrackBreak)
    BY <1>1, <2>1 DEF Starts
  <2>3. r = s
    BY <1>1 DEF Lag
  <2>4. a <= s
    BY <1>1, <1>3 DEF Lag
  <2>5. \A b \in Starts(h) : ~ (a < b /\ b <= s)
    BY <1>1 DEF RunFrom
  <2>6. s \in RunFrom(h, a)
    BY <1>1, <2>4, <2>5 DEF RunFrom
  <2>7. s \in Lag(RunFrom(h, a), t)
    BY <2>6 DEF Lag
  <2> QED  BY <1>1, <2>2, <2>3, <2>7
<1> QED  BY <1>2, <1>3

\* Conversely, the point before another in a run precedes it in the history.
LEMMA LagOfRun ==
  ASSUME NEW h \in History, NEW a \in Starts(h), NEW t \in RunFrom(h, a),
         NEW s \in Lag(RunFrom(h, a), t)
  PROVE  s \in Lag(Stored(h), t)
<1> USE StoredType
<1>1. s \in RunFrom(h, a) /\ s < t /\ \A r \in RunFrom(h, a) : r < t => r <= s
  BY DEF Lag
<1>2. a <= s /\ s \in Stored(h) /\ t \in Stored(h)
  BY <1>1 DEF RunFrom
<1>3. ASSUME NEW r \in Stored(h), r < t PROVE r <= s
  <2>1. CASE a <= r
    <3>1. \A b \in Starts(h) : ~ (a < b /\ b <= r)
      BY <1>2, <1>3 DEF RunFrom
    <3> QED  BY <1>1, <1>3, <2>1, <3>1 DEF RunFrom
  <2>2. CASE ~ (a <= r)
    BY <1>2, <2>2
  <2> QED  BY <2>1, <2>2
<1> QED  BY <1>1, <1>2, <1>3 DEF Lag

-----------------------------------------------------------------------------
(* The walk.  The loop invariant: of the points walked, current holds those  *)
(* from the last start on, and built the finished tracks of earlier starts.  *)

Walked == Stored(history) \ rest

\* The tracks that start before a.
TracksBefore(a) ==
  {[t \in RunFrom(history, b) |-> history[t]] :
     b \in {c \in Starts(history) : c < a /\ RunFrom(history, c) # {c}}}

Order ==
  /\ \A s \in Walked, t \in rest : s < t
  /\ prev = NoTime => Walked = {}
  /\ prev # NoTime => prev \in Walked /\ \A s \in Walked : s <= prev

Collected(a) ==
  /\ a \in Starts(history) \cap Walked
  /\ \A b \in Starts(history) \cap Walked : b <= a
  /\ current = {t \in Walked : a <= t}
  /\ built = TracksBefore(a)

LoopInv ==
  \/ Walked = {} /\ current = {} /\ built = {}
  \/ \E a \in Time : Collected(a)

BuildInv ==
  /\ BuildTypeOK
  /\ Order
  /\ ~ done => LoopInv
  /\ done => rest = {} /\ built = build(history)

\* The finished tracks of the points walked so far are tracks of the history.
LEMMA TracksBeforeInBuild ==
  ASSUME NEW a
  PROVE  TracksBefore(a) \subseteq build(history)
BY DEF TracksBefore, build

\* The point the walk comes to starts a run exactly when the loop flushes, or
\* is the first.
LEMMA FlushAtStart ==
  ASSUME BuildInv, NEW p \in rest, \A t \in rest : p <= t
  PROVE  p \in Starts(history) <=> prev = NoTime \/ p - prev > TrackBreak
<1> USE StoredType, BreakAssumption, NoTimeAssumption
<1>1. history \in History /\ rest \subseteq Stored(history)
  BY DEF BuildInv, BuildTypeOK
<1>2. p \in Stored(history) /\ p \in Int
  BY <1>1
<1>3. CASE prev = NoTime
  <2>1. Lag(Stored(history), p) = {}
    BY <1>1, <1>3 DEF BuildInv, Order, Walked, Lag
  <2> QED  BY <1>2, <1>3, <2>1 DEF Starts
<1>4. CASE prev # NoTime
  <2>1. prev \in Stored(history) \ rest /\ prev \in Int
    BY <1>1, <1>4 DEF BuildInv, Order, Walked
  <2>2. prev < p
    BY <1>4, <2>1 DEF BuildInv, Order, Walked
  <2>3. \A r \in Stored(history) : r < p => r <= prev
    <3> SUFFICES ASSUME NEW r \in Stored(history), r < p PROVE r <= prev
      OBVIOUS
    <3>1. r \in Int /\ r \notin rest
      BY <1>1, <1>2
    <3> QED  BY <3>1, <1>4 DEF BuildInv, Order, Walked
  <2>4. prev \in Lag(Stored(history), p)
    BY <2>1, <2>2, <2>3 DEF Lag
  <2>5. \A s \in Lag(Stored(history), p) : s = prev
    BY <1>1, <2>1, <2>2, <2>3 DEF Lag
  <2>6. p \in Starts(history) <=> p - prev > TrackBreak
    BY <1>2, <2>4, <2>5 DEF Starts
  <2> QED  BY <1>4, <2>6
<1> QED  BY <1>3, <1>4

\* What a flush adds is the track of the last start.
LEMMA FlushAddsTrack ==
  ASSUME history \in History, NEW a \in Starts(history), Collected(a),
         current = RunFrom(history, a)
  PROVE  Flushed = {[t \in RunFrom(history, b) |-> history[t]] :
                      b \in {c \in Starts(history) :
                               (c < a \/ c = a) /\ RunFrom(history, c) # {c}}}
<1> DEFINE track == [t \in RunFrom(history, a) |-> history[t]]
<1>1. a \in current
  BY StartOfRun
<1>2. CASE RunFrom(history, a) = {a}
  <2>1. finish(current) = {}
    BY <1>2 DEF finish
  <2> QED  BY <1>2, <2>1 DEF Flushed, Collected, TracksBefore
<1>3. CASE RunFrom(history, a) # {a}
  <2>1. \E s, t \in current : s # t
    BY <1>1, <1>3
  <2>2. finish(current) = {track}
    BY <2>1 DEF finish
  <2> QED  BY <1>3, <2>2 DEF Flushed, Collected, TracksBefore
<1> QED  BY <1>2, <1>3

\* With no start among the points still to come before p, the run of the last
\* start is what was collected.
LEMMA RunComplete ==
  ASSUME BuildInv, NEW a \in Time, Collected(a),
         \A t \in rest : \E b \in Starts(history) : b \in rest /\ b <= t
  PROVE  current = RunFrom(history, a)
<1> USE StoredType
<1>1. history \in History /\ rest \subseteq Stored(history) /\ a \in Stored(history) /\ a \in Walked
  BY DEF BuildInv, BuildTypeOK, Collected
<1>2. ASSUME NEW t \in current PROVE t \in RunFrom(history, a)
  <2>1. t \in Walked /\ a <= t /\ t \in Stored(history)
    BY <1>2 DEF Collected, Walked
  <2>2. ASSUME NEW b \in Starts(history), a < b, b <= t PROVE FALSE
    <3>1. b \in Int /\ t \in Int /\ a \in Int /\ b \in Stored(history)
      BY <1>1, <2>1
    <3>2. b \notin rest
      BY <2>1, <2>2, <3>1 DEF BuildInv, Order
    <3>3. b <= a
      BY <3>1, <3>2 DEF Collected, Walked
    <3> QED  BY <2>2, <3>1, <3>3
  <2> QED  BY <2>1, <2>2 DEF RunFrom
<1>3. ASSUME NEW t \in RunFrom(history, a) PROVE t \in current
  <2>1. t \in Stored(history) /\ a <= t /\ \A b \in Starts(history) : ~ (a < b /\ b <= t)
    BY <1>3 DEF RunFrom
  <2>2. t \notin rest
    <3> SUFFICES ASSUME t \in rest PROVE FALSE
      OBVIOUS
    <3>1. PICK b \in Starts(history) : b \in rest /\ b <= t
      OBVIOUS
    <3>2. a < b
      BY <1>1, <3>1 DEF BuildInv, Order
    <3> QED  BY <2>1, <3>1, <3>2
  <2> QED  BY <2>1, <2>2 DEF Collected, Walked
<1> QED  BY <1>2, <1>3

-----------------------------------------------------------------------------

\* A flush adds a well-typed track or nothing.
LEMMA FlushedType == BuildTypeOK => Flushed \in SUBSET Track
<1> SUFFICES ASSUME BuildTypeOK PROVE Flushed \in SUBSET Track
  OBVIOUS
<1>1. current \in SUBSET Time /\ \A t \in current : history[t] \in Pos
  BY DEF BuildTypeOK, Stored, History
<1>2. [t \in current |-> history[t]] \in [current -> Pos]
  BY <1>1
<1>3. [t \in current |-> history[t]] \in Track
  BY <1>1, <1>2 DEF Track
<1> QED  BY <1>3 DEF Flushed, finish, BuildTypeOK

\* A round of the loop keeps the loop invariant.
LEMMA WalkPreserves ==
  ASSUME BuildInv, NEW p \in Time, Walk(p)
  PROVE  BuildInv'
<1> USE StoredType
<1>0. /\ history \in History /\ rest \subseteq Stored(history) /\ BuildTypeOK
      /\ p \in rest /\ (\A t \in rest : p <= t)
      /\ prev' = p /\ rest' = rest \ {p} /\ history' = history /\ done' = done
  BY DEF BuildInv, BuildTypeOK, Walk
<1>1. p \in Stored(history) /\ p \in Int /\ p # NoTime
  BY <1>0, NoTimeAssumption
<1>2. Walked' = Walked \cup {p} /\ p \notin Walked /\ Walked \subseteq Stored(history)
  BY <1>0, <1>1 DEF Walked
<1>3. \A s \in Walked : s < p
  BY <1>0 DEF BuildInv, Order
<1>4. Order'
  <2>1. \A s \in Walked', t \in rest' : s < t
    <3> SUFFICES ASSUME NEW s \in Walked', NEW t \in rest' PROVE s < t
      BY DEF Order
    <3>1. t \in rest /\ t # p /\ t \in Int
      BY <1>0
    <3> QED  BY <1>0, <1>1, <1>2, <3>1 DEF BuildInv, Order
  <2>2. \A s \in Walked' : s <= p
    BY <1>1, <1>2, <1>3
  <2> QED  BY <1>0, <1>1, <1>2, <2>1, <2>2 DEF Order
<1>5. built' \subseteq Track /\ current' \subseteq Stored(history)
  BY <1>0, <1>1, FlushedType DEF Walk, BuildTypeOK
<1>6. BuildTypeOK'
  BY <1>0, <1>5 DEF BuildTypeOK
<1>7. ~ done
  BY <1>0 DEF BuildInv
<1>8. p \in Starts(history) <=> prev = NoTime \/ p - prev > TrackBreak
  BY <1>0, FlushAtStart
<1>9. LoopInv'
  <2>1. CASE Walked = {} /\ current = {} /\ built = {}
    <3>1. prev = NoTime
      BY <2>1 DEF BuildInv, Order
    <3>2. current' = {p} /\ built' = {} /\ Walked' = {p}
      BY <1>2, <2>1, <3>1 DEF Walk
    <3>3. TracksBefore(p)' = {}
      <4>1. \A c \in Starts(history) : ~ (c < p)
        BY <1>0, <1>1, <2>1 DEF Walked
      <4> QED  BY <1>0, <4>1 DEF TracksBefore
    <3>4. Collected(p)'
      BY <1>0, <1>1, <1>8, <3>1, <3>2, <3>3 DEF Collected
    <3> QED  BY <3>4 DEF LoopInv
  <2>2. ASSUME NEW a \in Time, Collected(a), p \notin Starts(history)
        PROVE  LoopInv'
    <3>1. a \in Walked /\ a \in Int /\ prev # NoTime
      BY <2>2, TimeAssumption DEF Collected, BuildInv, Order
    <3>2. current' = current \cup {p} /\ built' = built
      BY <1>8, <2>2 DEF Walk
    <3>3. a < p /\ Starts(history) \cap Walked' = Starts(history) \cap Walked
      BY <1>2, <1>3, <2>2, <3>1
    <3>4. TracksBefore(a)' = TracksBefore(a)
      BY <1>0 DEF TracksBefore
    <3>5. current' = {t \in Walked' : a <= t}
      BY <1>1, <1>2, <2>2, <3>1, <3>2, <3>3 DEF Collected
    <3>6. Collected(a)'
      BY <1>0, <1>2, <2>2, <3>2, <3>3, <3>4, <3>5 DEF Collected
    <3> QED  BY <3>6 DEF LoopInv
  <2>3. ASSUME NEW a \in Time, Collected(a), p \in Starts(history)
        PROVE  LoopInv'
    <3>1. a \in Walked /\ a \in Starts(history) /\ a \in Int
      BY <2>3, TimeAssumption DEF Collected
    <3>2. prev # NoTime /\ p - prev > TrackBreak
      BY <1>8, <2>3, <3>1 DEF BuildInv, Order
    <3>3. built' = Flushed /\ current' = {p}
      BY <3>2 DEF Walk
    <3>4. current = RunFrom(history, a)
      BY <1>0, <2>3, RunComplete
    <3>5. \A c \in Starts(history) : c < p <=> (c < a \/ c = a)
      <4> SUFFICES ASSUME NEW c \in Starts(history) PROVE c < p <=> (c < a \/ c = a)
        OBVIOUS
      <4>1. c \in Int /\ c \in Stored(history) /\ a < p
        BY <1>0, <1>3, <3>1
      <4>2. c \in Walked => c <= a
        BY <2>3 DEF Collected
      <4>3. c \notin Walked => p <= c
        BY <1>0, <4>1 DEF Walked
      <4> QED  BY <1>1, <3>1, <4>1, <4>2, <4>3
    <3>6. Flushed = {[t \in RunFrom(history, b) |-> history[t]] :
                       b \in {c \in Starts(history) :
                                (c < a \/ c = a) /\ RunFrom(history, c) # {c}}}
      BY <1>0, <2>3, <3>1, <3>4, FlushAddsTrack
    <3>7. Flushed = TracksBefore(p)
      BY <3>5, <3>6 DEF TracksBefore
    <3>8. TracksBefore(p)' = TracksBefore(p)
      BY <1>0 DEF TracksBefore
    <3>9. Collected(p)'
      <4>1. current' = {t \in Walked' : p <= t}
        <5>1. \A t \in Walked : t \in Int /\ t < p
          BY <1>0, <1>2, <1>3
        <5>2. \A t \in Walked' : p <= t <=> t = p
          BY <1>1, <1>2, <5>1
        <5>3. {t \in Walked' : p <= t} = {p}
          BY <1>2, <5>2
        <5> QED  BY <3>3, <5>3
      <4>2. \A b \in Starts(history) \cap Walked' : b <= p
        <5>1. \A b \in Walked' : b \in Int /\ (b < p \/ b = p)
          BY <1>0, <1>1, <1>2, <1>3
        <5> QED  BY <1>1, <5>1
      <4> QED  BY <1>0, <1>2, <2>3, <3>3, <3>7, <3>8, <4>1, <4>2 DEF Collected
    <3> QED  BY <3>9 DEF LoopInv
  <2> QED  BY <1>7, <2>1, <2>2, <2>3 DEF BuildInv, LoopInv
<1> QED  BY <1>0, <1>4, <1>6, <1>7, <1>9 DEF BuildInv

\* The last flush completes the tracks.
LEMMA ReturnPreserves ==
  ASSUME BuildInv, Return
  PROVE  BuildInv'
<1> USE StoredType
<1>0. /\ history \in History /\ BuildTypeOK /\ rest = {} /\ ~ done
      /\ built' = Flushed /\ current' = {} /\ done' = TRUE
      /\ history' = history /\ rest' = rest /\ prev' = prev
  BY DEF BuildInv, BuildTypeOK, Return
<1>1. BuildTypeOK'
  BY <1>0, FlushedType DEF BuildTypeOK
<1>2. Order'
  BY <1>0 DEF BuildInv, Order, Walked
<1>3. Flushed = build(history)
  <2>1. CASE Walked = {} /\ current = {} /\ built = {}
    <3>1. Stored(history) = {}
      BY <1>0, <2>1 DEF Walked
    <3>2. build(history) = {}
      BY <1>0, <3>1 DEF build
    <3> QED  BY <2>1, <3>2 DEF Flushed, finish
  <2>2. ASSUME NEW a \in Time, Collected(a)
        PROVE  Flushed = build(history)
    <3>1. current = RunFrom(history, a)
      BY <1>0, <2>2, RunComplete
    <3>2. \A c \in Starts(history) : c < a \/ c = a
      <4> SUFFICES ASSUME NEW c \in Starts(history) PROVE c < a \/ c = a
        OBVIOUS
      <4>1. c \in Int /\ a \in Int /\ c \in Walked
        BY <1>0, TimeAssumption DEF Walked
      <4> QED  BY <2>2, <4>1 DEF Collected
    <3>3. Flushed = {[t \in RunFrom(history, b) |-> history[t]] :
                       b \in {c \in Starts(history) :
                                (c < a \/ c = a) /\ RunFrom(history, c) # {c}}}
      BY <1>0, <2>2, <3>1, FlushAddsTrack DEF Collected
    <3> QED  BY <3>2, <3>3 DEF build
  <2> QED  BY <1>0, <2>1, <2>2 DEF BuildInv, LoopInv
<1> QED  BY <1>0, <1>1, <1>2, <1>3 DEF BuildInv

\* The loop invariant holds throughout the walk.
THEOREM LoopInvariant == BuildSpec => []BuildInv
<1>1. BuildInit => BuildInv
  BY NoTimeAssumption DEF BuildInit, BuildInv, BuildTypeOK, Order, LoopInv, Walked
<1>2. BuildInv /\ [BuildNext]_buildVars => BuildInv'
  <2> SUFFICES ASSUME BuildInv, [BuildNext]_buildVars PROVE BuildInv'
    OBVIOUS
  <2>1. CASE Return
    BY <2>1, ReturnPreserves
  <2>2. ASSUME NEW p \in Time, Walk(p) PROVE BuildInv'
    BY <2>2, WalkPreserves
  <2>3. CASE UNCHANGED buildVars
    BY <2>3 DEF buildVars, BuildInv, BuildTypeOK, Order, LoopInv, Collected, TracksBefore, Walked
  <2> QED  BY <2>1, <2>2, <2>3 DEF BuildNext
<1> QED  BY <1>1, <1>2, PTL DEF BuildSpec

\* The variables of the walk keep their types.
THEOREM BuildTypeCorrect == BuildSpec => []BuildTypeOK
<1>1. BuildInv => BuildTypeOK
  BY DEF BuildInv
<1> QED  BY <1>1, LoopInvariant, PTL

\* The loop of build returns the tracks of the history it walked: every longest
\* run of two or more points within a track break of their neighbours.
THEOREM WalkBuildsTracks == BuildSpec => []BuildsTracks
<1>1. BuildInv => BuildsTracks
  BY DEF BuildInv, BuildsTracks
<1> QED  BY <1>1, LoopInvariant, PTL

\* A track the loop flushes is never revised by a later point.
THEOREM FlushedTracksStay == BuildSpec => []FlushedStay
<1>1. BuildInv => FlushedStay
  <2> SUFFICES ASSUME BuildInv PROVE built \subseteq build(history)
    BY DEF FlushedStay
  <2> QED  BY TracksBeforeInBuild DEF BuildInv, LoopInv, Collected
<1> QED  BY <1>1, LoopInvariant, PTL

==============================================================================
