CONSTANTS
  u1 = u1
  u2 = u2
  p1 = p1
  f1 = f1
  NoUser = NoUser
  Users = {u1, u2}
  Plans = {p1}
  MaxClicks = 2
  Refreshes = {f1}
  BatchSize = 2
SPECIFICATION Spec
INVARIANTS
  TypeOK
  ClicksAreAccounted
  BatchIsWhole
PROPERTIES
  EveryClickEnds
