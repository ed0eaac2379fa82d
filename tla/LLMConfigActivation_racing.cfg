SPECIFICATION Spec

CONSTANTS
  c1 = c1
  c2 = c2
  c3 = c3
  h1 = h1
  h2 = h2
  None = None
  Configs = {c1, c2, c3}
  Handlers = {h1, h2}
  MayFail = TRUE

SYMMETRY Symmetry

INVARIANTS
  TypeOK
  ActiveBounded

PROPERTIES
  ActivationHeals

CHECK_DEADLOCK FALSE
