CONSTANTS
  Time <- MCTime
  MinTime = 0
  MaxTime = 30
  Pos = {p1}
  NoPos = NoPos
  TrackBreak = 6
  Midnight <- MCMidnight
  NextMidnight <- MCNextMidnight
  User = {u1, u2}
  Run = {r1}
  NoRun = NoRun
SPECIFICATION Spec
SYMMETRY Symmetry
INVARIANTS TypeOK KmWithinTracks
PROPERTIES IngestSpec WorkerSpec
