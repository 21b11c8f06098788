CONSTANTS
  Time <- MCTime
  MinTime = 0
  MaxTime = 30
  Pos = {p1}
  NoPos = NoPos
  TrackBreak = 13
  Midnight <- MCMidnight
  NextMidnight <- MCNextMidnight
  Month <- MCMonth
  User = {u1, u2}
  Run = {r1, r2}
  NoRun = NoRun
  PageSize = {1, 2}
SPECIFICATION MCSpec
CONSTRAINT OneAtATime
SYMMETRY Symmetry
INVARIANTS IngestTypeOK RowsSound RowsComplete RerunRecovers StatsTrue PagingTypeOK PagesSkipNoPoint
