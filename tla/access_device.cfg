CONSTANTS
  u1 = u1
  u2 = u2
  m1 = m1
  m2 = m2
  c1 = c1
  c2 = c2
  NoUser = NoUser
  Users = {u1, u2}
  Macs = {m1}
  Calls = {c1, c2}
  Grants <- MCOneGrant
  Grace = 0
  MaxKicks = 1
  Cooldown = 1
  ConnectTime = 9
  PollTime = 9
  MaxSessions = 3
  MaxClock = 1
  MaxCredit = 2
SYMMETRY Symmetry
SPECIFICATION Spec
INVARIANTS
  OneSessionPerMac
PROPERTIES
  KeepsPromise
  ClosedStaysClosed
