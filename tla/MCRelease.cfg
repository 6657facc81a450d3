SPECIFICATION MCSpec
CONSTANTS
  p1 = p1
  p2 = p2
  full = full
  part = part
  u1 = u1
  u2 = u2
  Proc = {p1, p2}
  Acceptance = {full, part}
  Authorization = {u1, u2}
  Stamp = {1}
  verdictOf <- MCVerdictOf
  acceptanceOf <- MCAcceptanceOf
  None = None
  MaxCalls = 3
SYMMETRY Symmetric
CHECK_DEADLOCK FALSE
INVARIANTS
  TypeOK
  ClosedOnRelease
  OneRelease
  LedgerReadable
  DecidedIsReconciled
PROPERTY
  FollowsDecision
