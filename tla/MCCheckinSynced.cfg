CONSTANTS
  c1 = c1
  c2 = c2
  c3 = c3
  c4 = c4
  f1 = f1
  f2 = f2
  User = {u1}
  FoursquareUser = {f1, f2}
  Unlinked = Unlinked
  Never = Never
  Checkin = {c1}
  Owner <- MCOwner1
  CreatedAt <- MCCreatedAt1
  Server = {s1}
  Command = {}
  Handler = {}
  PageLimit = 2
  Lookback = 1
  FirstClock = 1
  MaxClock = 1
  Edited = {}
  MaxEdits = 0
  NoRow = NoRow
  NoPush = NoPush
SPECIFICATION Spec
INVARIANT SyncedWasWalked
