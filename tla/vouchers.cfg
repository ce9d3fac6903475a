CONSTANTS
  u1 = u1
  u2 = u2
  v1 = v1
  v2 = v2
  v3 = v3
  c1 = c1
  c2 = c2
  b1 = b1
  b2 = b2
  Codes = {v1, v2, v3}
  Users = {u1, u2}
  Calls = {c1, c2}
  Batches = {b1, b2}
  Count = 2
  Worth = 1
  MaxClock = 2
SYMMETRY Symmetry
SPECIFICATION Spec
INVARIANTS
  TypeOK
  BatchesAreComplete
PROPERTIES
  PaysOnce
