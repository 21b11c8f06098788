CONSTANTS
  DayLength = 6
  Instant <- MCInstant
  Zone <- GapZones
  NewZone = {}
  MaxStored = 3
  NoRun = NoRun
SPECIFICATION Spec
INVARIANT RowsByDate
