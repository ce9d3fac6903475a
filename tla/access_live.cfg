CONSTANTS
  u1 = u1
  u2 = u2
  m1 = m1
  m2 = m2
  c1 = c1
  c2 = c2
  NoUser = NoUser
  Users = {u1}
  Macs = {m1}
  Calls = {c1}
  Grants <- MCOneGrant
  Grace = 2
  MaxKicks = 1
  Cooldown = 1
  ConnectTime = 1
  PollTime = 1
  MaxSessions = 2
  MaxClock = 4
  MaxCredit = 2
SPECIFICATION FairSpec
PROPERTIES
  OrphansAreCut
  GoneSessionsAreClosed
INVARIANT GraceCoversConnect
