CONSTANTS
  u1 = u1
  u2 = u2
  m1 = m1
  m2 = m2
  c1 = c1
  c2 = c2
  NoUser = NoUser
  Users = {u1}
  Macs = {m1, m2}
  Calls = {c1, c2}
  Grants <- MCTwoGrants
  Grace = 0
  MaxKicks = 0
  Cooldown = 1
  ConnectTime = 9
  PollTime = 9
  MaxSessions = 3
  MaxClock = 1
  MaxCredit = 2
SYMMETRY Symmetry
SPECIFICATION Spec
INVARIANTS
  TypeOK
  DeviceLimit
  ZeroBalanceHasNoSession
  NoSecondIsLost
PROPERTY FeedsPage
