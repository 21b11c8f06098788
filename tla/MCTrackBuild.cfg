CONSTANTS
  Time <- MCTime
  MinTime = 0
  MaxTime = 30
  Pos = {p1, p2}
  NoPos = NoPos
  NoTime = NoTime
  TrackBreak = 6
SPECIFICATION BuildSpec
INVARIANTS BuildTypeOK BuildsTracks FlushedStay
CHECK_DEADLOCK FALSE
