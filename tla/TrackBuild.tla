------------------------------ MODULE TrackBuild ------------------------------
(***************************************************************************)
(* build of internal/track: the one ordered walk over a user's points that *)
(* splits them into tracks.  One step is one round of its loop; the last   *)
(* step is the flush after it.  The walk takes the points AllOrdered read, *)
(* by ascending timestamp.                                                 *)
(***************************************************************************)
EXTENDS Tracks

CONSTANT NoTime  \* no point was walked yet: prev is nil

ASSUME NoTimeAssumption == NoTime \notin Time

VARIABLES
  history,       \* the points, read once
  rest,          \* the timestamps the loop has not come to
  prev,          \* the timestamp of the point before, or NoTime
  current,       \* the run being collected: its points, by timestamp
  built,        \* the tracks flushed so far
  done

buildVars == <<history, rest, prev, current, built, done>>

BuildTypeOK ==
  /\ history \in History
  /\ rest \in SUBSET Stored(history)
  /\ prev \in Time \cup {NoTime}
  /\ current \in SUBSET Stored(history)
  /\ built \in SUBSET Track
  /\ done \in BOOLEAN

\* Mutant: points that were deleted are walked too.
BuildInitDeleted ==
  /\ history \in History
  /\ rest = Time
  /\ prev = NoTime
  /\ current = {}
  /\ built = {}
  /\ done = FALSE

BuildInit ==
  /\ history \in History
  /\ rest = Stored(history)
  /\ prev = NoTime
  /\ current = {}
  /\ built = {}
  /\ done = FALSE

\* finish: a run of fewer than two points is not a track.
finish(run) ==
  IF \E s, t \in run : s # t THEN {[t \in run |-> history[t]]} ELSE {}

Flushed == built \cup finish(current)

\* Mutant: a gap of exactly the break splits.
WalkAtBreak(p) ==
  /\ p \in rest
  /\ \A t \in rest : p <= t
  /\ IF prev # NoTime /\ p - prev >= TrackBreak
       THEN built' = Flushed /\ current' = {p}
       ELSE current' = current \cup {p} /\ UNCHANGED built
  /\ prev' = p
  /\ rest' = rest \ {p}
  /\ UNCHANGED <<history, done>>

\* One round: the walk comes to point p.
Walk(p) ==
  /\ p \in rest
  /\ \A t \in rest : p <= t
  /\ IF prev # NoTime /\ p - prev > TrackBreak
       THEN built' = Flushed /\ current' = {p}
       ELSE current' = current \cup {p} /\ UNCHANGED built
  /\ prev' = p
  /\ rest' = rest \ {p}
  /\ UNCHANGED <<history, done>>

\* Mutant: the last run is not flushed.
ReturnUnflushed ==
  /\ rest = {}
  /\ ~ done
  /\ current' = {}
  /\ done' = TRUE
  /\ UNCHANGED <<history, rest, prev, built>>

Return ==
  /\ rest = {}
  /\ ~ done
  /\ built' = Flushed
  /\ current' = {}
  /\ done' = TRUE
  /\ UNCHANGED <<history, rest, prev>>

BuildNext == Return \/ \E p \in Time : Walk(p)

BuildSpec == BuildInit /\ [][BuildNext]_buildVars

-----------------------------------------------------------------------------

\* The walk finds the tracks of the history: every longest run of two or more
\* points within a track break of their neighbours, and nothing else.
BuildsTracks == done => built = build(history)

\* A track found early is final: no later point joins or splits it.
FlushedStay == built \subseteq build(history)

=============================================================================
