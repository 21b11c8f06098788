CONSTANTS
  c1 = c1
  c2 = c2
  c3 = c3
  c4 = c4
  f1 = f1
  f2 = f2
  User = {u1}
  FoursquareUser = {f1}
  Unlinked = Unlinked
  Never = Never
  Checkin = {c1, c2, c3, c4}
  Owner <- MCOwner1
  CreatedAt <- MCCreatedAt1
  Server = {}
  Command = {s1}
  Handler = {}
  PageLimit = 2
  Lookback = 3
  FirstClock = 4
  MaxClock = 5
  Edited = {c3}
  MaxEdits = 1
  NoRow = NoRow
  NoPush = NoPush
SPECIFICATION Spec
INVARIANT WalkCovers
