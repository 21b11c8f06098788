-------------------------------- MODULE Tracks --------------------------------
(***************************************************************************)
(* What a user's tracks are, as a function of the points stored: the       *)
(* longest runs of points no two neighbours of which are more than a track *)
(* break apart, lone points left out.  Module TrackBuild computes them     *)
(* step by step as internal/track does.                                    *)
(*                                                                         *)
(* A track maps the timestamps of its points to their positions.  That is  *)
(* finer than a tracks row: start_at and end_at are its ends, geometry the *)
(* positions in timestamp order, distance the sum over its segments.       *)
(***************************************************************************)
EXTENDS Points

Track == UNION {[times -> Pos] : times \in SUBSET Time}

\* Mutant: a gap of exactly the break splits.
StartsAtBreak(h) == {t \in Stored(h) : \A s \in Lag(Stored(h), t) : t - s >= TrackBreak}

\* The points a new run starts at: the gap to the point before exceeds the break.
Starts(h) == {t \in Stored(h) : \A s \in Lag(Stored(h), t) : t - s > TrackBreak}

\* Mutant: points that were deleted still count.
RunFromDeleted(h, a) ==
  {t \in Time : a <= t /\ \A b \in Starts(h) : ~ (a < b /\ b <= t)}

RunFrom(h, a) ==
  {t \in Stored(h) : a <= t /\ \A b \in Starts(h) : ~ (a < b /\ b <= t)}

\* A run of one point is not a track.
build(h) ==
  {[t \in RunFrom(h, a) |-> h[t]] : a \in {b \in Starts(h) : RunFrom(h, b) # {b}}}

-----------------------------------------------------------------------------
(* What a tracks row holds of its points *)

StartAt(track) == CHOOSE t \in DOMAIN track : \A s \in DOMAIN track : t <= s

EndAt(track) == CHOOSE t \in DOMAIN track : \A s \in DOMAIN track : s <= t

\* The segments finish sums into distance.
TrackSegments(track) ==
  LET times == DOMAIN track
  IN  Segments(track, {st \in times \X times : st[1] \in Lag(times, st[2])})

\* Mutant: the end of the range is exclusive.
PointsBeforeEnd(h, track) == {t \in Stored(h) : StartAt(track) <= t /\ t < EndAt(track)}

\* GET /api/v1/tracks/{track_id}/points: no column links a point to its track,
\* the track's own range finds them.
PointsOfTrack(h, track) == {t \in Stored(h) : StartAt(track) <= t /\ t <= EndAt(track)}

=============================================================================
