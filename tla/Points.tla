-------------------------------- MODULE Points --------------------------------
(***************************************************************************)
(* One user's rows of the points table, as a history: it maps every        *)
(* timestamp to the position stored for it, or to NoPos.  (user_id,        *)
(* timestamp) is unique in the table, so a row is named by its timestamp.  *)
(***************************************************************************)
EXTENDS Integers

CONSTANTS
  Time,          \* the timestamps points may carry, in seconds
  MinTime,       \* the bounds of an INTEGER column
  MaxTime,
  Pos,           \* positions (latitude, longitude)
  NoPos,         \* no point is stored at this timestamp
  TrackBreak     \* tracking.track_break_minutes, in seconds

ASSUME TimeAssumption == Time \subseteq Int
ASSUME BoundsAssumption ==
  /\ MinTime \in Int /\ MaxTime \in Int
  /\ \A t \in Time : MinTime <= t /\ t <= MaxTime
ASSUME PosAssumption == NoPos \notin Pos
ASSUME BreakAssumption == TrackBreak \in Nat

History == [Time -> Pos \cup {NoPos}]

NoHistory == [t \in Time |-> NoPos]

Stored(h) == {t \in Time : h[t] # NoPos}

\* The timestamp directly before t among times: what LAG pairs t with in a set
\* ordered by timestamp, and what the walk of a track rebuild saw last.
Lag(times, t) == {s \in times : s < t /\ \A r \in times : r < t => r <= s}

\* Points().NextTimestamp: the first stored timestamp after t, if there is one.
NextTimestamp(h, t) ==
  {s \in Stored(h) : s > t /\ \A r \in Stored(h) : r > t => s <= r}

\* A segment of the distance travelled: its endpoints, and where they are.
Segments(h, hops) == {<<st[1], h[st[1]], st[2], h[st[2]]>> : st \in hops}

=============================================================================
