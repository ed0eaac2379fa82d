SPECIFICATION Spec

CONSTANTS
  u0 = u0
  u1 = u1
  u2 = u2
  i1 = i1
  i2 = i2
  h1 = h1
  h2 = h2
  None = None
  Users = {u0, u1, u2}
  Owner = u0
  Invitations = {i1, i2}
  Handlers = {h1, h2}
  MaxSeats = 2

SYMMETRY Symmetry

INVARIANTS
  TypeOK
  SeatsBounded
  MemberRowsBounded
  InvitationUsesBounded

CHECK_DEADLOCK FALSE
