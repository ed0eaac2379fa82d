SPECIFICATION Spec

CONSTANTS
  u0 = u0
  u1 = u1
  u2 = u2
  h1 = h1
  h2 = h2
  w1 = w1
  w2 = w2
  w3 = w3
  t1 = t1
  None = None
  Users = {u0, u1, u2}
  Admins = {u0, u1}
  Rows = {w1, w2, w3}
  Templates = {t1}
  Handlers = {h1, h2}
  Quota = 1
  MaxMonth = 1
  MaxLogged = 3

SYMMETRY Symmetry

INVARIANTS
  TypeOK
  RowsBounded
  UsageNeverInvented

CHECK_DEADLOCK FALSE
