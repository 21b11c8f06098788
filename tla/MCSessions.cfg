CONSTANTS
  User = {u1, u2}
  Browser = {b1}
  Request = {q1, q2}
  Token = {t1, t2}
  Lifetime = 1
  MaxClock = 2
  Nobody = Nobody
  NoToken = NoToken
  NoRow = NoRow
  Unused = Unused
  Ended = Ended
SPECIFICATION FairSpec
INVARIANTS TypeOK ReplacedAreGone SessionOfSignedIn
PROPERTIES OnlyHolderEnds SessionsKeepPromise Swept
