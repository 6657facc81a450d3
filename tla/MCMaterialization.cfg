SPECIFICATION Spec
CONSTANTS
  p1 = p1
  p2 = p2
  c1 = c1
  c2 = c2
  a1 = a1
  a2 = a2
  Proc = {p1, p2}
  Capability = {c1, c2}
  Attempt = {a1, a2}
  None = None
  MaxRuns = 3
SYMMETRY Symmetric
VIEW Relevant
CHECK_DEADLOCK FALSE
INVARIANTS
  TypeOK
  SingleUse
  ReissuedOnlyInARace
  OneCallOpen
  NoCallHidden
  MaterializedIsWhole
PROPERTY ImplementsCall
