CONSTANTS
  u1 = u1
  u2 = u2
  k1 = k1
  l1 = l1
  NoUser = NoUser
  Users = {u1, u2}
  Polls = {1, 2}
  Connects = {k1}
  Logouts = {l1}
SPECIFICATION Spec
INVARIANTS
  TypeOK
  OneAccountOnScreen
PROPERTIES
  ViewFollowsBalance
  DeviceTriesByItself
