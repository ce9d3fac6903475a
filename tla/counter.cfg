CONSTANTS
  u1 = u1
  p1 = p1
  p2 = p2
  f1 = f1
  f2 = f2
  d1 = d1
  Customers = {u1}
  Posts = {p1, p2}
  Refreshes = {f1, f2}
  Decides = {d1}
  MaxRequests = 2
SPECIFICATION Spec
INVARIANTS
  TypeOK
  BannerIsEarned
  OneAtATime
PROPERTIES
  CounterSeesRequests
  DecidedLeaveTheTable
