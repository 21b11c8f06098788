CONSTANTS
  DayLength = 6
  Instant <- MCInstant
  Zone <- RegularZones
  NewZone <- MCNewZone
  MaxStored = 2
  NoRun = NoRun
SPECIFICATION Spec
INVARIANTS TypeOK DaysPartition RowsByDate
