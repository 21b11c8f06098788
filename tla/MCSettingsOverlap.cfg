CONSTANTS
  m1 = m1
  m2 = m2
  w1 = w1
  User = {u1}
  Handler = {h1, h2}
  MobileField = {m1, m2}
  WebField = {w1}
  Value = {0, 1, 2}
  InRange <- MCInRange
  Scaled <- MCScaled
  Default <- MCDefault
  NoRow = NoRow
  Idle = Idle
SPECIFICATION SettingsSpec
PROPERTY OmittedKept
