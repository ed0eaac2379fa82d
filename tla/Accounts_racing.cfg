SPECIFICATION Spec

CONSTANTS
  u1 = u1
  c1 = c1
  c2 = c2
  h1 = h1
  h2 = h2
  None = None
  Users = {u1}
  Clients = {c1, c2}
  Handlers = {h1, h2}
  RecordDays = 1
  TokenDays = 2
  MaxDay = 2
  MaxRecords = 3
  MaxCustomers = 3

SYMMETRY Symmetry

INVARIANTS
  TypeOK
  EveryClientCanRefresh
  CustomersBounded

CHECK_DEADLOCK FALSE
