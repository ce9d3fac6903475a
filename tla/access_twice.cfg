CONSTANTS
  u1 = u1
  u2 = u2
  m1 = m1
  m2 = m2
  c1 = c1
  c2 = c2
  NoUser = NoUser
  Users = {u1}
  Macs = {m1}
  Calls = {c1}
  Grants <- MCOneGrant
  Grace = 1
  MaxKicks = 1
  Cooldown = 2
  ConnectTime = 9
  PollTime = 9
  MaxSessions = 2
  MaxClock = 3
  MaxCredit = 4
SPECIFICATION Spec
INVARIANT NotChargedTwice
