CONSTANTS
  Time <- MCTime
  MinTime = 0
  MaxTime = 30
  Pos = {p1}
  NoPos = NoPos
  TrackBreak = 6
  User = {u1, u2}
  Run = {r1}
SPECIFICATION WorkerFairSpec
INVARIANTS WorkerTypeOK TracksCurrent RangeFindsPoints TracksApart
PROPERTIES NoOvertaking RequestsServed
