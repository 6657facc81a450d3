SPECIFICATION MCSpec
CONSTANTS
  a = a
  b = b
  f = f
  da = da
  v = v
  d0 = d0
  d1 = d1
  d2 = d2
  Proc = {p1, p2}
  Result = {a, b, f}
  Failed = {f}
  Dispatch = {da}
  Revision = {v}
  Delivery = {d0, d1, d2}
  Evidence = {e1, e2}
  Stamp = {t1, t2}
  dispatchOf <- MCDispatchOf
  revisionOf <- MCRevisionOf
  originalOf <- MCOriginalOf
  Root = d0
  None = None
  MaxCalls = 3
  MaxRaced = 2
SYMMETRY Symmetric
CHECK_DEADLOCK FALSE
INVARIANTS
  TypeOK
  SupersededIsWhole
  VersionsUnique
  OneResultPerRevision
  LedgersReadable
  AnswersOnRecord
PROPERTY
  FeedsRelease
