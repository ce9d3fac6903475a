CONSTANTS
  u1 = u1
  p1 = p1
  c1 = c1
  c2 = c2
  d1 = d1
  d2 = d2
  Users = {u1}
  Plans = {p1}
  Custom = {1}
  Lengths = {2}
  Creates = {c1, c2}
  Decides = {d1, d2}
  MaxRequests = 2
SYMMETRY Symmetry
SPECIFICATION Spec
INVARIANTS
  TypeOK
  RequestedPlansExist
PROPERTIES
  PaysOnce
  DecisionStands
