CONSTANTS
  User = {u1, u2}
  FoursquareUser = {f1, f2}
  Unlinked = Unlinked
  Never = Never
  Browser = {b1}
  Callback = {c1, c2}
  State = {s1, s2}
  StateLifetime = 0
  MaxClock = 1
  Nobody = Nobody
  Refused = Refused
  None = None
  m1 = m1
  m2 = m2
  w1 = w1
  Handler = {h1, h2}
  MobileField = {m1, m2}
  WebField = {w1}
  Value = {0, 1, 2}
  InRange <- MCInRange
  Scaled <- MCScaled
  Default <- MCDefault
  NoRow = NoRow
  Idle = Idle
SPECIFICATION MCSpec
CONSTRAINT OneAtATime
SYMMETRY Symmetry
INVARIANTS TypeOK LinkedAsStarted AbandonedStatesGo SettingsTypeOK RefusedForItsOwn
PROPERTIES OneLinkPerState FirstLinkStands
